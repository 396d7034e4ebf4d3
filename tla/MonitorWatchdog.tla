-------------------------- MODULE MonitorWatchdog ---------------------------
(* Monitor as an implementation of Watchdog.                               *)
EXTENDS Monitor

W == INSTANCE Watchdog
       WITH MinInterval <- MinInterval,
            Prompt      <- WaitAfter + CallTimeout,
            since       <- uptime,
            online      <- last_internet = "healthy",
            recovering  <- trigger,
            permitted   <- reboot_allowed,
            borrowed    <- preferred # configured,
            over        <- pc \in Halted

(* The monitor keeps the promise of Watchdog, with a router that does what *)
(* it is asked: run, recovery, try_reload_recovery and reboot_router       *)
(* together are no more and no less than a watchdog that is allowed to     *)
(* restart the router when its age says so and connectivity is gone.       *)
KeepsThePromise == W!Spec
=============================================================================
