--------------------------- MODULE MonitorTelemetry ---------------------------
(***************************************************************************)
(* The counters of recovery that the monitor exports when metrics are      *)
(* enabled (TelemetryCollector::record_* in src/src/telemetry/metrics.rs,  *)
(* called from src/src/monitor/mod.rs), over the steps of Monitor.         *)
(*                                                                         *)
(* A counter is incremented where control passes a point of run, recovery, *)
(* try_reload_recovery or reboot_router; that is, on an edge between two   *)
(* values of pc.  The recovery's result tells the edges out of it apart:   *)
(* it is Ok exactly if it clears the counter of failed checks.             *)
(***************************************************************************)
EXTENDS Monitor

CONSTANT MaxRecoveries   \* bound: recoveries in a behaviour

ASSUME TelemetryAssumption ==
    /\ MetricsEnabled
    /\ InternetMaxRetries > 0 /\ SignalMaxRetries > 0
    /\ MaxRecoveries \in Nat

VARIABLE metrics   \* the exported counters

Metric == {"reload.attempts", "reload.successes", "reload.failures",
           "reboot.attempts", "reboot.successes",
           "signal.recovery.attempts", "signal.recovery.successes",
           "signal.recovery.failures"}

-----------------------------------------------------------------------------
(* The edges.                                                              *)

Starts == pc # "authenticate" /\ pc' = "authenticate"

Returns     == trigger # "none" /\ trigger' = "none"
ReturnsOk   == Returns /\ failure_count' = 0 /\ signal_failure_count' = 0
ReturnsErr  == Returns /\ ~ReturnsOk

(* recovery_target_restored is at one of its awaits.                       *)
Verifying == trigger # "none" /\ pc \in Signal \cup {"internet_check"}

(* Mutant: an attempt is counted once the band configuration is read.      *)
ReloadBegun == pc = "get_band" /\ pc' = "switch"

ReloadStarts   == pc = "authenticate" /\ pc' = "get_band"
ReloadRestored == Verifying /\ ReturnsOk
ReloadInVain   == Verifying /\ (pc' = "reboot" \/ ReturnsErr)

RebootStarts   == pc # "reboot" /\ pc' = "reboot"
RebootAccepted == pc = "reboot" /\ ReturnsOk

(* Mutant: a signal recovery that fails without a reboot is not counted.   *)
SignalRebootFails ==
    trigger = "SignalQuality" /\ ReturnsErr /\ pc = "reboot"

SignalStarts   == Starts /\ trigger' = "SignalQuality"
SignalSucceeds == trigger = "SignalQuality" /\ ReturnsOk
SignalFails    == trigger = "SignalQuality" /\ ReturnsErr

Incremented(metric) ==
    CASE metric = "reload.attempts"           -> ReloadStarts
      [] metric = "reload.successes"          -> ReloadRestored
      [] metric = "reload.failures"           -> ReloadInVain
      [] metric = "reboot.attempts"           -> RebootStarts
      [] metric = "reboot.successes"          -> RebootAccepted
      [] metric = "signal.recovery.attempts"  -> SignalStarts
      [] metric = "signal.recovery.successes" -> SignalSucceeds
      [] metric = "signal.recovery.failures"  -> SignalFails

Record ==
    metrics' = [metric \in Metric |->
                   IF Incremented(metric) THEN metrics[metric] + 1
                                          ELSE metrics[metric]]

-----------------------------------------------------------------------------
(* Behaviours are followed until a counter reaches the bound.              *)
InBound == \A metric \in Metric : metrics'[metric] <= MaxRecoveries

RecordedInit == Init /\ metrics = [metric \in Metric |-> 0]
RecordedNext == Next /\ Record /\ InBound
RecordedSpec == RecordedInit /\ [][RecordedNext]_<<vars, metrics>>

-----------------------------------------------------------------------------
(* Every recovery for the signal ends in exactly one success or failure,   *)
(* whichever of its awaits it fails at.                                    *)
SignalRecoveriesAddUp ==
    metrics["signal.recovery.attempts"] =
        metrics["signal.recovery.successes"]
          + metrics["signal.recovery.failures"]
          + (IF trigger = "SignalQuality" THEN 1 ELSE 0)

(* A reload that restored the condition is not followed by a reboot, and   *)
(* one that did not is followed by at most one: attempts cover both.       *)
RebootsFollowReloads ==
    RecoveryMethod = "reload" =>
        metrics["reload.successes"] + metrics["reboot.attempts"]
            <= metrics["reload.attempts"]
=============================================================================
