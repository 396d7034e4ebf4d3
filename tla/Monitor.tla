------------------------------- MODULE Monitor -------------------------------
(***************************************************************************)
(* The monitor task of zyxel-nr5103-monitor (src/src/monitor/mod.rs):      *)
(* Monitor::run with its two tickers and Ctrl+C, and the recovery it       *)
(* starts, against the router it recovers.                                 *)
(*                                                                         *)
(* The task is one thread of control.  Its program counter pc names the    *)
(* await it is at; a step runs from one await to the next.  While the task *)
(* is inside a handler, the tickers, the router, its administrator and the *)
(* user go on, and those are what it interleaves with.                     *)
(*                                                                         *)
(* Time is counted in whole units.  A step that waits for the network or   *)
(* sleeps carries the time it takes, and Wait is the passing of one unit   *)
(* while the task is parked with nothing due.                              *)
(***************************************************************************)
EXTENDS Integers, Session

CONSTANTS
    InternetInterval,     \* monitor.internet.interval
    InternetMaxRetries,   \* monitor.internet.max_retries
    CheckTimeout,         \* monitor.internet.timeout
    SignalEnabled,        \* monitor.signal.enabled
    SignalInterval,       \* monitor.signal.interval
    SignalMaxRetries,     \* monitor.signal.max_retries
    RecoveryMethod,       \* monitor.recovery_method
    SwitchWait,           \* action.reload.switch_wait
    RestoreWait,          \* action.reload.restore_wait
    MinInterval,          \* action.reboot.min_interval
    WaitAfter,            \* action.reboot.wait_after
    MetricsEnabled,       \* telemetry.metrics.enabled
    CallTimeout,          \* the longest one router request can take
    Technology,           \* values of preferred_access_technology
    AdminChoices,         \* those the administrator may select meanwhile
    MaxLag                \* bound: a ticker's backlog is not counted further

ASSUME MonitorAssumption ==
    /\ InternetInterval \in Nat \ {0}   \* tokio's interval panics on zero
    /\ SignalInterval \in Nat \ {0}
    /\ InternetMaxRetries \in Nat /\ SignalMaxRetries \in Nat
    /\ CheckTimeout \in Nat /\ CallTimeout \in Nat
    /\ SwitchWait \in Nat /\ RestoreWait \in Nat
    /\ MinInterval \in Nat /\ WaitAfter \in Nat /\ MaxLag \in Nat
    /\ SignalEnabled \in BOOLEAN /\ MetricsEnabled \in BOOLEAN
    /\ RecoveryMethod \in {"reload", "reboot"}
    /\ {"Auto", "NR5G-SA"} \subseteq Technology /\ "none" \notin Technology
    /\ AdminChoices \subseteq Technology

VARIABLES
    pc,                     \* the await the monitor task is at
    trigger,                \* recovery's argument, "none" outside recovery
    reboot_allowed,         \* recovery's other argument
    original,               \* the preference try_reload_recovery has read
    failure_count,
    signal_failure_count,
    last_reboot,            \* time since the reboot run() remembers
    internet_lag,           \* how long the internet tick has been due;
    signal_lag,             \*   negative: how long until it is
    ctrlc,                  \* what became of the last Ctrl+C
    handler,                \* has tokio installed its SIGINT handler?
    preferred,              \* router: preferred_access_technology
    uptime,                 \* router: time since its last restart
    configured,             \* history: what the administrator last selected
    spoiled,                \* history: has the preference got out of hand?
    doubt,                  \* history: was recovery's renewal misled, or has
                            \*   the router dropped the session since?
    last_internet           \* history: result of the last internet check

counters  == <<failure_count, signal_failure_count>>
locals    == <<trigger, reboot_allowed, original>>
interrupt == <<ctrlc, handler>>
preference == <<preferred, configured>>
router    == <<preference, spoiled, doubt>>
clock     == <<internet_lag, signal_lag, last_reboot, uptime>>
vars == <<session, pc, locals, counters, clock, interrupt, router,
          last_internet>>

Never == -1   \* the age of a reboot that has not happened

Loop     == {"select", "parked"}
Signal   == {"signal_check", "signal_refresh", "signal_refetch"}
Reload   == {"get_band", "switch", "restore"}
Recovery == {"authenticate", "reboot"} \cup Reload
Halted   == {"stopped", "killed"}
Control  == Loop \cup Signal \cup Recovery \cup Halted
              \cup {"internet_check", "collect", "logout"}

Ages == {Never} \cup 0..MinInterval

TypeOK ==
    /\ session \in SessionState
    /\ pc \in Control
    /\ trigger \in {"none", "Connectivity", "SignalQuality"}
    /\ reboot_allowed \in BOOLEAN
    /\ original \in Technology \cup {"none"}
    /\ failure_count \in 0..InternetMaxRetries
    /\ signal_failure_count \in 0..SignalMaxRetries
    /\ last_reboot \in Ages /\ uptime \in Ages
    /\ internet_lag \in -InternetInterval..MaxLag
    /\ signal_lag \in -SignalInterval..MaxLag
    /\ ctrlc \in {"none", "noticed", "ignored"} /\ handler \in BOOLEAN
    /\ preferred \in Technology /\ configured \in Technology
    /\ spoiled \in BOOLEAN /\ doubt \in BOOLEAN
    /\ last_internet \in {"healthy", "degraded"}

-----------------------------------------------------------------------------
(* Time                                                                    *)

Lesser(m, n) == IF m <= n THEN m ELSE n

(* Nothing distinguishes ages beyond MinInterval.                          *)
Aged(age, d) == IF age = Never THEN Never ELSE Lesser(age + d, MinInterval)

TickersElapse(d) ==
    /\ internet_lag' = Lesser(internet_lag + d, MaxLag)
    /\ signal_lag' = Lesser(signal_lag + d, MaxLag)

Elapse(d) ==
    /\ TickersElapse(d)
    /\ last_reboot' = Aged(last_reboot, d)
    /\ uptime' = Aged(uptime, d)

(* Mutants: a cooldown that ends a unit early; one that never ends.        *)
CooledEarly(age) == age = Never \/ age >= MinInterval - 1
CooledNever(age) == age = Never

(* Instant::elapsed() >= min_interval, or there was no reboot yet.         *)
Cooled(age) == age = Never \/ age >= MinInterval

(* Mutant: one failed check is counted twice.                              *)
CountTwice(n, max) == n + 2

(* What happens at max_retries is all that a counter is compared with.     *)
CountUp(n, max) == Lesser(n + 1, max)

(* Mutant: a client without a timeout of its own.                          *)
PatientRequestTime(n) == 0..(n * (CallTimeout + 1))

(* n requests in a row, each of them ended by the client's timeout.        *)
RequestTime(n) == 0..(n * CallTimeout)

(* Mutant: the signal ticker does not wake the task.                       *)
OnlyInternetDue == internet_lag >= 0

Due == internet_lag >= 0 \/ (SignalEnabled /\ signal_lag >= 0)

-----------------------------------------------------------------------------
(* The program is logged in when run() begins (main.rs); both tickers are  *)
(* due at once, as a tokio interval's first tick is.                       *)
Init ==
    /\ session = "live"
    /\ pc = "select"
    /\ trigger = "none" /\ reboot_allowed = FALSE /\ original = "none"
    /\ failure_count = 0 /\ signal_failure_count = 0
    /\ last_reboot = Never /\ uptime = Never
    /\ internet_lag = 0 /\ signal_lag = 0
    /\ ctrlc = "none" /\ handler = FALSE
    /\ preferred \in Technology /\ configured = preferred
    /\ spoiled = FALSE /\ doubt = FALSE
    /\ last_internet = "healthy"

-----------------------------------------------------------------------------
(* run: the select loop.  Its branches are polled in order (biased), and   *)
(* the ctrl_c() future is a new one in every iteration: it is polled only  *)
(* when no tick is due, the notice it holds is dropped with it, and the    *)
(* first poll of the first one installs the handler of the process.        *)

Dropped(c) == IF c = "noticed" THEN "ignored" ELSE c

(* MissedTickBehavior::Burst: the next tick is one interval after this     *)
(* one was due, in the past if the last handler took longer than that.     *)
TickInternet ==
    /\ pc \in Loop
    /\ internet_lag >= 0
    /\ pc' = "internet_check"
    /\ internet_lag' = internet_lag - InternetInterval
    /\ ctrlc' = Dropped(ctrlc)
    /\ UNCHANGED <<session, locals, counters, signal_lag, last_reboot,
                   uptime, handler, router, last_internet>>

TickSignal ==
    /\ pc \in Loop
    /\ SignalEnabled /\ internet_lag < 0 /\ signal_lag >= 0
    /\ pc' = "signal_check"
    /\ signal_lag' = signal_lag - SignalInterval
    /\ ctrlc' = Dropped(ctrlc)
    /\ UNCHANGED <<session, locals, counters, internet_lag, last_reboot,
                   uptime, handler, router, last_internet>>

Park ==
    /\ pc = "select" /\ ~Due
    /\ pc' = "parked"
    /\ handler' = TRUE
    /\ UNCHANGED <<session, locals, counters, clock, ctrlc, router,
                   last_internet>>

Wait ==
    /\ pc = "parked" /\ ~Due /\ ctrlc # "noticed"
    /\ Elapse(1)
    /\ UNCHANGED <<session, pc, locals, counters, interrupt, router,
                   last_internet>>

Shutdown ==
    /\ pc = "parked" /\ ~Due /\ ctrlc = "noticed"
    /\ pc' = "logout"
    /\ UNCHANGED <<session, locals, counters, clock, interrupt, router,
                   last_internet>>

Logout ==
    /\ pc = "logout"
    /\ \E d \in RequestTime(1) : Elapse(d)
    /\ session' \in KeysAfterLogout(session)
    /\ pc' = "stopped"
    /\ UNCHANGED <<locals, counters, interrupt, router, last_internet>>

-----------------------------------------------------------------------------
(* Where control goes when a handler or a recovery is over.                *)

(* After every internet tick, whatever it did, the metrics are collected.  *)
AfterHandler(t) ==
    IF t # "SignalQuality" /\ MetricsEnabled THEN "collect" ELSE "select"

Return(t) ==
    /\ pc' = AfterHandler(t)
    /\ UNCHANGED locals

StartRecovery(t) ==
    /\ pc' = "authenticate"
    /\ trigger' = t
    /\ reboot_allowed' = Cooled(last_reboot')
    /\ UNCHANGED original

EndRecovery ==
    /\ pc' = AfterHandler(trigger)
    /\ trigger' = "none" /\ reboot_allowed' = FALSE /\ original' = "none"

(* Ok(ConnectivityRestored), and Ok(Rebooted) but for last_reboot.         *)
RecoverySucceeds ==
    /\ EndRecovery
    /\ failure_count' = 0 /\ signal_failure_count' = 0

(* Mutant: a failed recovery forgives the failures that led to it.         *)
RecoveryFailsForgiving ==
    EndRecovery /\ failure_count' = 0 /\ signal_failure_count' = 0

(* Err: neither counter is reset, so the next failed check tries again.    *)
RecoveryFails == EndRecovery /\ UNCHANGED counters

(* Mutant: a reload that did not help is not followed by a reboot.         *)
NoFallBack == RecoveryFails

(* The reload did not help, or the method is to reboot at once.            *)
FallBackToReboot ==
    \/ /\ reboot_allowed
       /\ pc' = "reboot"
       /\ UNCHANGED <<locals, counters>>
    \/ ~reboot_allowed /\ RecoveryFails

-----------------------------------------------------------------------------
(* The internet check: its two results in the tick handler, and when it    *)
(* verifies a reload (trigger is not "none" inside recovery).              *)

ConnectivityPassed ==
    /\ failure_count' = 0
    /\ Return("Connectivity")
    /\ UNCHANGED signal_failure_count

ConnectivityFailed ==
    /\ signal_failure_count' = 0
    /\ failure_count' = CountUp(failure_count, InternetMaxRetries)
    /\ IF failure_count' >= InternetMaxRetries
         THEN StartRecovery("Connectivity")
         ELSE Return("Connectivity")

(* Mutant: a reload that restored connectivity is followed by a reboot.    *)
VerifiedInVain == FallBackToReboot

(* recovery_target_restored, which for a degraded signal goes on to the    *)
(* signal check.                                                           *)
ConnectivityVerified ==
    \/ trigger = "Connectivity" /\ RecoverySucceeds
    \/ /\ trigger = "SignalQuality"
       /\ pc' = "signal_check"
       /\ UNCHANGED <<locals, counters>>

InternetHealthy ==
    \/ trigger = "none" /\ ConnectivityPassed
    \/ trigger # "none" /\ ConnectivityVerified

InternetDegraded ==
    \/ trigger = "none" /\ ConnectivityFailed
    \/ trigger # "none" /\ FallBackToReboot

(* InternetMonitor::check never fails: an error is a degraded result.      *)
InternetCheck ==
    /\ pc = "internet_check"
    /\ \E d \in 0..CheckTimeout : Elapse(d)
    /\ \/ InternetHealthy /\ last_internet' = "healthy"
       \/ InternetDegraded /\ last_internet' = "degraded"
    /\ UNCHANGED <<session, interrupt, router>>

-----------------------------------------------------------------------------
(* The signal check, likewise; it may also fail.                           *)

SignalPassed ==
    /\ signal_failure_count' = 0
    /\ Return("SignalQuality")
    /\ UNCHANGED failure_count

SignalFailed ==
    /\ signal_failure_count' = CountUp(signal_failure_count, SignalMaxRetries)
    /\ IF signal_failure_count' >= SignalMaxRetries
         THEN StartRecovery("SignalQuality")
         ELSE Return("SignalQuality")
    /\ UNCHANGED failure_count

(* An error of the check neither counts as degraded nor ends the count.    *)
SignalUnknown == Return("SignalQuality") /\ UNCHANGED counters

SignalHealthy ==
    \/ trigger = "none" /\ SignalPassed
    \/ trigger # "none" /\ RecoverySucceeds

SignalDegraded ==
    \/ trigger = "none" /\ SignalFailed
    \/ trigger # "none" /\ FallBackToReboot

SignalError ==
    \/ trigger = "none" /\ SignalUnknown
    \/ trigger # "none" /\ FallBackToReboot

(* SignalMonitor::check fetches cellwan_status; if that fails it renews    *)
(* the session and fetches it once more.                                   *)
FetchSignal ==
    /\ pc \in {"signal_check", "signal_refetch"}
    /\ \E d \in RequestTime(1) : Elapse(d)
    /\ \E r \in Reply :
          /\ Answer(r)
          /\ \/ r = "ok" /\ (SignalHealthy \/ SignalDegraded)
             \/ /\ r # "ok" /\ pc = "signal_check"
                /\ pc' = "signal_refresh"
                /\ UNCHANGED <<locals, counters>>
             \/ r # "ok" /\ pc = "signal_refetch" /\ SignalError
    /\ UNCHANGED <<session, interrupt, router, last_internet>>

(* ensure_authenticated is three requests: probe, logout, login.           *)
RefreshForSignal ==
    /\ pc = "signal_refresh"
    /\ \E d \in RequestTime(3) : Elapse(d)
    /\ \/ /\ EnsureAuthenticated(TRUE)
          /\ pc' = "signal_refetch"
          /\ UNCHANGED <<locals, counters>>
       \/ EnsureAuthenticated(FALSE) /\ SignalError
    /\ UNCHANGED <<interrupt, router, last_internet>>

-----------------------------------------------------------------------------
(* recovery, try_reload_recovery and reboot_router.                        *)

Authenticate ==
    /\ pc = "authenticate"
    /\ \E d \in RequestTime(3) : Elapse(d)
    /\ \E misled \in BOOLEAN :
          /\ doubt' = misled
          /\ \/ /\ Renews(TRUE, misled)
                /\ \/ /\ RecoveryMethod = "reload"
                      /\ pc' = "get_band"
                      /\ UNCHANGED <<locals, counters>>
                   \/ RecoveryMethod = "reboot" /\ FallBackToReboot
             \/ Renews(FALSE, misled) /\ RecoveryFails
    /\ UNCHANGED <<interrupt, preference, spoiled, last_internet>>

Temporary(technology) ==
    IF technology = "NR5G-SA" THEN "Auto" ELSE "NR5G-SA"

GetBand ==
    /\ pc = "get_band"
    /\ \E d \in RequestTime(1) : Elapse(d)
    /\ \E r \in Reply :
          /\ Answer(r)
          /\ \/ /\ r = "ok"
                /\ original' = preferred
                /\ pc' = "switch"
                /\ UNCHANGED <<trigger, reboot_allowed, counters>>
             \/ r # "ok" /\ FallBackToReboot
    /\ UNCHANGED <<session, interrupt, router, last_internet>>

(* What leaves the temporary technology behind: a first write that was     *)
(* carried out all the same, or a second one that was not.                 *)
LeavesTemporary(r) ==
    r \in IF pc = "switch" THEN {"lost"} ELSE {"refused", "refused_in_body"}

(* One set_cellwan_band and the sleep that follows it.  A request whose    *)
(* answer is lost has still changed the router.                            *)
SetBand(technology, wait, next) ==
    /\ \E r \in Reply, d \in RequestTime(1) :
          /\ Answer(r)
          /\ preferred' = IF r \in {"ok", "lost"} THEN technology
                                                  ELSE preferred
          /\ spoiled' = (spoiled \/ LeavesTemporary(r))
          /\ \/ /\ r = "ok"
                /\ pc' = next
                /\ Elapse(d + wait)
                /\ UNCHANGED <<locals, counters>>
             \/ r # "ok" /\ FallBackToReboot /\ Elapse(d)
    /\ UNCHANGED <<session, interrupt, configured, doubt, last_internet>>

(* Mutant: the second write repeats the first.                             *)
SwitchTwice ==
    pc = "restore" /\ SetBand(Temporary(original), RestoreWait, "internet_check")

Switch  == pc = "switch" /\ SetBand(Temporary(original), SwitchWait, "restore")
Restore == pc = "restore" /\ SetBand(original, RestoreWait, "internet_check")

(* The router restarts e units before the caller knows.                    *)
Restart(e) ==
    /\ uptime' = Lesser(e, MinInterval)
    /\ session' = IF session = "live" THEN "stale" ELSE session

(* Mutant: run() does not store rebooted_at.                               *)
Forgotten == last_reboot

(* rebooted_at, taken when the answer came and stored after the sleep.     *)
Remembered == Aged(0, WaitAfter)

(* reboot ignores what the body of the answer says.                        *)
Reboot ==
    /\ pc = "reboot"
    /\ \E r \in Reply, d \in RequestTime(1) :
          /\ Answer(r)
          /\ \/ /\ r \in {"ok", "refused_in_body"}
                /\ TickersElapse(d + WaitAfter)
                /\ last_reboot' = Remembered
                /\ IF r = "ok"
                     THEN \E e \in 0..d : Restart(e + WaitAfter)
                     ELSE /\ uptime' = Aged(uptime, d + WaitAfter)
                          /\ UNCHANGED session
                /\ RecoverySucceeds
             \/ /\ r \in {"lost", "refused"}
                /\ TickersElapse(d)
                /\ last_reboot' = Aged(last_reboot, d)
                /\ IF r = "lost"
                     THEN \E e \in 0..d : Restart(e)
                     ELSE uptime' = Aged(uptime, d) /\ UNCHANGED session
                /\ RecoveryFails
    /\ UNCHANGED <<interrupt, router, last_internet>>

-----------------------------------------------------------------------------
(* TelemetryCollector::collect: up to four requests, none of which renews  *)
(* the session; the outcome is logged.                                     *)
Collect ==
    /\ pc = "collect"
    /\ \E d \in RequestTime(4) : Elapse(d)
    /\ pc' = "select"
    /\ UNCHANGED <<session, locals, counters, interrupt, router,
                   last_internet>>

-----------------------------------------------------------------------------
(* The user, the router and its administrator.                             *)

(* A SIGINT ends the process until the handler is installed; after that it *)
(* reaches the task only while the task is parked on a ctrl_c() future.    *)
CtrlC ==
    /\ pc \notin Halted
    /\ IF handler THEN pc' = pc ELSE pc' = "killed"
    /\ ctrlc' = IF handler /\ pc = "parked" THEN "noticed" ELSE "ignored"
    /\ UNCHANGED <<session, locals, counters, clock, handler, router,
                   last_internet>>

SessionExpires ==
    /\ Expire
    /\ doubt' = TRUE
    /\ UNCHANGED <<pc, locals, counters, clock, interrupt, preference,
                   spoiled, last_internet>>

(* A choice made after a reload has read the preference and before it has  *)
(* restored it is overwritten; any other puts the preference in order.     *)
AdminSets(technology) ==
    /\ preferred' = technology /\ configured' = technology
    /\ spoiled' = (pc \in {"switch", "restore"})
    /\ UNCHANGED <<session, pc, locals, counters, clock, interrupt, doubt,
                   last_internet>>

Environment ==
    \/ CtrlC \/ SessionExpires
    \/ \E technology \in AdminChoices : AdminSets(technology)

Task ==
    \/ TickInternet \/ TickSignal \/ Park \/ Wait \/ Shutdown \/ Logout
    \/ InternetCheck \/ FetchSignal \/ RefreshForSignal
    \/ Authenticate \/ GetBand \/ Switch \/ Restore \/ Reboot \/ Collect

Terminated == pc \in Halted /\ UNCHANGED vars

Next == Task \/ Environment \/ Terminated

Spec == Init /\ [][Next]_vars

(* tokio polls a task that has been woken, timers fire and every request   *)
(* ends, by its timeout if nothing else.  Nothing is assumed of the        *)
(* router, of its administrator or of the user.                            *)
FairSpec == Spec /\ WF_vars(Task)

-----------------------------------------------------------------------------
(* Safety.                                                                 *)

(* The router is never rebooted within min_interval of its last restart,   *)
(* as the router itself would count: what last_reboot, reboot_allowed and  *)
(* the reboot request together are for.                                    *)
RebootsAreSpaced ==
    pc = "reboot" => uptime = Never \/ uptime >= MinInterval

(* reboot_allowed is computed before recovery starts and used after up to  *)
(* a minute of requests and sleeps; it still holds then of last_reboot.    *)
CooldownKept ==
    pc = "reboot" => last_reboot = Never \/ last_reboot >= MinInterval

(* The temporary technology is in force only between the two writes of     *)
(* try_reload_recovery: not in the loop, not when rebooting, not at exit,  *)
(* whatever else is refused and however many recoveries there are.  What   *)
(* can leave it behind is a kill in between, a first write whose answer    *)
(* was lost, a second one that was refused, or an administrator who chose  *)
(* in the middle of a reload.                                              *)
PreferenceIsRestored ==
    preferred # configured => pc \in {"restore", "killed"} \/ spoiled

(* A recovery for connectivity that reaches the reboot does so on the      *)
(* strength of the last check made, be it the verification of a reload.    *)
RebootsAreForOutages ==
    pc = "reboot" /\ trigger = "Connectivity" => last_internet = "degraded"

(* After ensure_authenticated the requests of recovery carry a key that    *)
(* the router accepts, with nothing lost on the way but by the router's    *)
(* doing: it misled the renewal, or has dropped the session since.  A      *)
(* renewal that failed, or was refused, does not get here.  The exception  *)
(* is a reboot after a signal verification, whose own renewal of the       *)
(* session may have ended it.                                              *)
RecoveryIsAuthenticated ==
    \/ pc \in Reload
    \/ pc = "reboot" /\ trigger = "Connectivity"
    => session = "live" \/ doubt

(* The count of failed checks is given up only on evidence: connectivity   *)
(* seen by a check, or a restart of the router in this very step.          *)
ResetsNeedEvidence ==
    [][failure_count' < failure_count =>
          \/ last_internet' = "healthy"
          \/ pc = "reboot" /\ uptime' \in 0..(WaitAfter + CallTimeout)]_vars

(* A check that starts is not followed at once by one already due: there   *)
(* is an interval between checks.                                          *)
ChecksKeepTheInterval ==
    pc = "internet_check" /\ trigger = "none" => internet_lag < 0

-----------------------------------------------------------------------------
(* Liveness, under FairSpec.                                               *)

(* While connectivity stays lost, the router is restarted again and again: *)
(* neither the cooldown nor a reload that succeeds in vain stops recovery. *)
OutageEndsInReboots ==
    <>[](last_internet = "degraded") =>
        []<>(pc \in Halted \/ uptime \in 0..(WaitAfter + CallTimeout))

(* The biased select does not starve the signal ticker.                    *)
SignalChecksRecur ==
    []<>(pc \in Halted \/ (pc = "signal_check" /\ trigger = "none"))

(* A session the router has dropped is renewed.                            *)
SessionIsRenewed == session # "live" ~> session = "live" \/ pc \in Halted

(* Pressing Ctrl+C stops the program.                                      *)
CtrlCStops == ctrlc # "none" ~> pc \in Halted

=============================================================================
