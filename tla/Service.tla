------------------------------- MODULE Service -------------------------------
(***************************************************************************)
(* The program as a systemd service (src/src/main.rs and                   *)
(* src/deploy/zyxel-nr5103-monitor.service): it starts, logs in, runs the  *)
(* monitor, ends with an exit status and is started again.  What the       *)
(* monitor knows does not survive; the router and its clock go on.         *)
(*                                                                         *)
(* While no monitor runs, pc is one of the two values it ends with.        *)
(***************************************************************************)
EXTENDS Monitor

CONSTANTS
    RestartSec,        \* the pause before systemd starts the service again
    CrashesHappen,     \* may the process die of SIGKILL or lack of memory?
    ShutdownFails      \* may TelemetryRuntime::shutdown return an error?

ASSUME ServiceAssumption ==
    /\ RestartSec \in Nat
    /\ CrashesHappen \in BOOLEAN /\ ShutdownFails \in BOOLEAN

VARIABLES
    unit,      \* what systemd knows of the service
    asked      \* history: somebody has asked for the service to stop

UnitState == {"starting", "running", "waiting", "inactive"}

service == <<unit, asked>>
program == <<session, pc, locals, counters, internet_lag, signal_lag,
             last_reboot, interrupt, last_internet>>

ServiceTypeOK == TypeOK /\ unit \in UnitState /\ asked \in BOOLEAN

ServiceInit ==
    /\ unit = "starting" /\ asked = FALSE
    /\ session = "none" /\ pc = "stopped"
    /\ trigger = "none" /\ reboot_allowed = FALSE /\ original = "none"
    /\ failure_count = 0 /\ signal_failure_count = 0
    /\ last_reboot = Never /\ uptime = Never
    /\ internet_lag = 0 /\ signal_lag = 0
    /\ ctrlc = "none" /\ handler = FALSE
    /\ preferred \in Technology /\ configured = preferred
    /\ spoiled = FALSE /\ doubt = FALSE
    /\ last_internet = "healthy"

-----------------------------------------------------------------------------
(* main returns an error if the monitor did, or else if the telemetry's    *)
(* shutdown did; the exit status is all that systemd sees of it.           *)

(* Mutant: the monitor's error is logged and not returned.                 *)
StatusOfShutdown(monitor, shutdown) == IF shutdown = "ok" THEN 0 ELSE 1

ExitStatus(monitor, shutdown) ==
    IF monitor = "ok" /\ shutdown = "ok" THEN 0 ELSE 1

ShutdownResult == IF ShutdownFails THEN {"ok", "error"} ELSE {"ok"}

(* Restart=on-failure.                                                     *)
Disposition(status) == IF status = 0 THEN "inactive" ELSE "waiting"

(* What ends the process ends its session key with it.  The sessions the   *)
(* router keeps are not its concern any more.                              *)
Gone == session' = "none"

-----------------------------------------------------------------------------
(* ZyxelClient::new, login and get_basic_information: up to three requests *)
(* before run begins with everything at its initial value.                 *)
StartUp ==
    /\ unit = "starting"
    /\ \E d \in RequestTime(3) : uptime' = Aged(uptime, d)
    /\ unit' = "running"
    /\ session' = "live" /\ pc' = "select"
    /\ trigger' = "none" /\ reboot_allowed' = FALSE /\ original' = "none"
    /\ failure_count' = 0 /\ signal_failure_count' = 0
    /\ last_reboot' = Never
    /\ internet_lag' = 0 /\ signal_lag' = 0
    /\ ctrlc' = "none" /\ handler' = FALSE
    /\ last_internet' = "healthy"
    /\ UNCHANGED <<asked, router>>

(* Any of them fails, and main returns without a logout.                   *)
StartFails ==
    /\ unit = "starting"
    /\ \E d \in RequestTime(3) : uptime' = Aged(uptime, d)
    /\ \E shutdown \in ShutdownResult :
          unit' = Disposition(ExitStatus("error", shutdown))
    /\ UNCHANGED <<asked, program, router>>

Run ==
    /\ unit = "running" /\ pc \notin Halted
    /\ Task \/ CtrlC \/ SessionExpires
    /\ UNCHANGED service

(* run always returns Ok; a SIGINT without a handler ends the process by   *)
(* the signal, which systemd takes for a clean exit.                       *)
Exit ==
    /\ unit = "running" /\ pc \in Halted
    /\ \/ pc = "killed" /\ unit' = "inactive"
       \/ /\ pc = "stopped"
          /\ \E shutdown \in ShutdownResult :
                unit' = Disposition(ExitStatus("ok", shutdown))
    /\ asked' = (asked \/ ctrlc # "none")
    /\ Gone
    /\ UNCHANGED <<pc, locals, counters, clock, interrupt, router,
                   last_internet>>

(* The process dies at once, whatever await it is at.                      *)
Dies ==
    /\ pc' = "killed"
    /\ Gone
    /\ UNCHANGED <<locals, counters, clock, interrupt, router, last_internet>>

(* systemctl stop: SIGTERM, for which the program has no handler; a SIGINT *)
(* during the start does the same.                                         *)
Terminate ==
    /\ unit # "inactive"
    /\ unit' = "inactive" /\ asked' = TRUE
    /\ Dies

Crash ==
    /\ CrashesHappen
    /\ unit \in {"starting", "running"}
    /\ unit' = "waiting"
    /\ Dies
    /\ UNCHANGED asked

RestartUnit ==
    /\ unit = "waiting"
    /\ unit' = "starting"
    /\ uptime' = Aged(uptime, RestartSec)
    /\ UNCHANGED <<asked, program, router>>

(* systemctl start, some time after the service went down.                 *)
StartUnit ==
    /\ unit = "inactive"
    /\ unit' = "starting" /\ asked' = FALSE
    /\ \E d \in 0..MinInterval : uptime' = Aged(uptime, d)
    /\ UNCHANGED <<program, router>>

AdminAct ==
    /\ \E technology \in AdminChoices : AdminSets(technology)
    /\ UNCHANGED service

Systemd == RestartUnit \/ StartUnit \/ Terminate \/ Crash

ServiceNext == StartUp \/ StartFails \/ Run \/ Exit \/ AdminAct \/ Systemd

ServiceSpec == ServiceInit /\ [][ServiceNext]_<<vars, service>>

-----------------------------------------------------------------------------
(* The service is down only because it was asked to be: a start that       *)
(* failed, a crash and a run that ended by itself are followed by another. *)
DownOnRequestOnly == unit = "inactive" => asked

(* Wherever the service is stopped, the preference is the one it found.    *)
PreferenceSurvives == unit = "inactive" => preferred = configured
=============================================================================
