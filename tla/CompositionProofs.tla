-------------------------- MODULE CompositionProofs --------------------------
(* Proofs about the modules around Monitor: the exported counters of       *)
(* recovery agree with what recovery did, and the service that runs it is  *)
(* down only because somebody asked for it and keeps what a run promises.  *)
EXTENDS MonitorTelemetry, Service, RecoveryProofs

-----------------------------------------------------------------------------
(* MonitorTelemetry.                                                       *)

MetricsType == metrics \in [Metric -> Nat]

-----------------------------------------------------------------------------
(* What a step does to the counters it may increment.                      *)

One(happens) == IF happens THEN 1 ELSE 0

LEMMA Counted ==
    ASSUME MetricsType, Record
    PROVE  /\ MetricsType'
           /\ metrics'["reload.attempts"] =
                 metrics["reload.attempts"] + One(ReloadStarts)
           /\ metrics'["reload.successes"] =
                 metrics["reload.successes"] + One(ReloadRestored)
           /\ metrics'["reboot.attempts"] =
                 metrics["reboot.attempts"] + One(RebootStarts)
           /\ metrics'["signal.recovery.attempts"] =
                 metrics["signal.recovery.attempts"] + One(SignalStarts)
           /\ metrics'["signal.recovery.successes"] =
                 metrics["signal.recovery.successes"] + One(SignalSucceeds)
           /\ metrics'["signal.recovery.failures"] =
                 metrics["signal.recovery.failures"] + One(SignalFails)
  <1>1. ASSUME NEW m \in Metric
        PROVE  /\ metrics[m] \in Nat
               /\ metrics'[m] = metrics[m] + One(Incremented(m))
    BY DEF Record, MetricsType, One
  <1>2. MetricsType'
    BY DEF Record, MetricsType
  <1>3. /\ Incremented("reload.attempts") = ReloadStarts
        /\ Incremented("reload.successes") = ReloadRestored
        /\ Incremented("reboot.attempts") = RebootStarts
        /\ Incremented("signal.recovery.attempts") = SignalStarts
        /\ Incremented("signal.recovery.successes") = SignalSucceeds
        /\ Incremented("signal.recovery.failures") = SignalFails
    BY DEF Incremented
  <1> QED
    BY <1>1, <1>2, <1>3 DEF Metric

(* A recovery begins where none was, is never replaced by another, and     *)
(* begins nowhere else.                                                    *)
LEMMA TriggerStep ==
    ASSUME KnowsWhy, [Next]_vars
    PROVE  \/ trigger' = trigger /\ ~Starts
           \/ trigger = "none" /\ trigger' # "none" /\ Starts
           \/ trigger # "none" /\ trigger' = "none" /\ ~Starts
  <1>r. ASSUME Return("Connectivity") \/ Return("SignalQuality")
        PROVE  trigger' = trigger /\ ~Starts
    BY <1>r DEF Return, AfterHandler, Starts, locals
  <1>e. ASSUME RecoverySucceeds \/ RecoveryFails, trigger # "none"
        PROVE  trigger' = "none" /\ ~Starts
    BY <1>e
    DEF RecoverySucceeds, RecoveryFails, EndRecovery, AfterHandler, Starts
  <1>f. ASSUME FallBackToReboot, trigger # "none"
        PROVE  ~Starts /\ trigger' \in {trigger, "none"}
    BY <1>f, <1>e DEF FallBackToReboot, Starts, locals
  <1>s. ASSUME StartRecovery("Connectivity") \/ StartRecovery("SignalQuality"),
               pc # "authenticate"
        PROVE  trigger' # "none" /\ Starts
    BY <1>s DEF StartRecovery, Starts
  <1>1. CASE \/ TickInternet \/ TickSignal \/ Park \/ Wait \/ Shutdown
             \/ Logout \/ Collect
    BY <1>1
    DEF TickInternet, TickSignal, Park, Wait, Shutdown, Logout, Collect,
        Starts, locals
  <1>2. CASE InternetCheck
    <2>1. CASE trigger = "none"
      BY <1>2, <1>r, <1>s, <2>1
      DEF InternetCheck, InternetHealthy, InternetDegraded,
          ConnectivityPassed, ConnectivityFailed
    <2>2. CASE trigger # "none"
      <3>1. CASE pc' = "signal_check" /\ UNCHANGED locals
        BY <3>1 DEF Starts, locals
      <3> QED
        BY <1>2, <1>e, <1>f, <2>2, <3>1
        DEF InternetCheck, InternetHealthy, InternetDegraded,
            ConnectivityVerified
    <2> QED
      BY <2>1, <2>2
  <1>3. CASE FetchSignal \/ RefreshForSignal
    <2>1. pc # "authenticate"
      BY <1>3 DEF FetchSignal, RefreshForSignal
    <2>2. CASE /\ pc' \in {"signal_refresh", "signal_refetch"}
               /\ UNCHANGED locals
      BY <2>2 DEF Starts, locals
    <2>3. CASE SignalHealthy \/ SignalDegraded \/ SignalError
      BY <1>r, <1>e, <1>f, <1>s, <2>1, <2>3
      DEF SignalHealthy, SignalDegraded, SignalError, SignalPassed,
          SignalFailed, SignalUnknown
    <2> QED
      BY <1>3, <2>2, <2>3 DEF FetchSignal, RefreshForSignal
  <1>4. CASE Authenticate \/ GetBand \/ Switch \/ Restore \/ Reboot
    <2>1. trigger # "none"
      BY <1>4
      DEF Authenticate, GetBand, Switch, Restore, Reboot, KnowsWhy,
          TriggerFits, Recovery, Reload
    <2>2. CASE FallBackToReboot \/ RecoverySucceeds \/ RecoveryFails
      BY <1>e, <1>f, <2>1, <2>2
    <2>3. CASE /\ pc' \in {"get_band", "switch", "restore", "internet_check"}
               /\ UNCHANGED trigger
      BY <2>3 DEF Starts
    <2> QED
      BY <1>4, <2>2, <2>3
      DEF Authenticate, GetBand, Switch, Restore, SetBand, Reboot, locals
  <1>5. CASE Environment \/ UNCHANGED vars
    BY <1>5
    DEF Environment, CtrlC, SessionExpires, AdminSets, vars, Starts, locals
  <1> QED
    BY <1>1, <1>2, <1>3, <1>4, <1>5 DEF Next, Task, Terminated

-----------------------------------------------------------------------------
(* Recoveries for the signal.                                              *)

LEMMA SignalBooks ==
    ASSUME NEW a \in Nat, NEW s \in Nat, NEW f \in Nat, NEW t \in Nat,
           NEW da \in Nat, NEW ds \in Nat, NEW df \in Nat, NEW u \in Nat,
           a = s + f + t, t + da = ds + df + u
    PROVE  a + da = (s + ds) + (f + df) + u
  OBVIOUS

LEMMA SignalStep ==
    ASSUME KnowsWhy, [Next]_vars
    PROVE  One(trigger = "SignalQuality") + One(SignalStarts) =
             One(SignalSucceeds) + One(SignalFails)
               + One(trigger' = "SignalQuality")
  <1>1. CASE trigger' = trigger /\ ~Starts
    BY <1>1
    DEF One, SignalStarts, SignalSucceeds, SignalFails, ReturnsOk,
        ReturnsErr, Returns
  <1>2. CASE trigger = "none" /\ trigger' # "none" /\ Starts
    BY <1>2
    DEF One, SignalStarts, SignalSucceeds, SignalFails, ReturnsOk,
        ReturnsErr, Returns
  <1>3. CASE trigger # "none" /\ trigger' = "none" /\ ~Starts
    BY <1>3
    DEF One, SignalStarts, SignalSucceeds, SignalFails, ReturnsErr, Returns,
        ReturnsOk
  <1> QED
    BY <1>1, <1>2, <1>3, TriggerStep

LEMMA NextAddsUp ==
    MetricsType /\ KnowsWhy /\ SignalRecoveriesAddUp /\ [Next]_vars /\ Record
        => SignalRecoveriesAddUp'
  <1> SUFFICES ASSUME MetricsType, KnowsWhy, SignalRecoveriesAddUp,
                      [Next]_vars, Record
               PROVE  SignalRecoveriesAddUp'
    OBVIOUS
  <1> DEFINE a == metrics["signal.recovery.attempts"]
             s == metrics["signal.recovery.successes"]
             f == metrics["signal.recovery.failures"]
  <1>1. a \in Nat /\ s \in Nat /\ f \in Nat
    BY DEF MetricsType, Metric
  <1>2. a = s + f + One(trigger = "SignalQuality")
    BY DEF SignalRecoveriesAddUp, One
  <1>3. /\ One(trigger = "SignalQuality") \in Nat
        /\ One(trigger' = "SignalQuality") \in Nat
        /\ One(SignalStarts) \in Nat
        /\ One(SignalSucceeds) \in Nat
        /\ One(SignalFails) \in Nat
    BY DEF One
  <1>4. a + One(SignalStarts) =
          (s + One(SignalSucceeds)) + (f + One(SignalFails))
            + One(trigger' = "SignalQuality")
    <2> HIDE DEF a, s, f
    <2> QED
      BY <1>1, <1>2, <1>3, SignalStep, SignalBooks
  <1> QED
    BY <1>4, Counted DEF SignalRecoveriesAddUp, One

-----------------------------------------------------------------------------
(* Reloads and the reboots that follow them.                               *)

(* A reload is under way: it has been counted, and neither success nor a   *)
(* reboot has followed it yet.                                             *)
Reloading ==
    trigger # "none" /\ pc \notin {"authenticate", "reboot"} \cup Halted

ReloadsCovered ==
    metrics["reload.successes"] + metrics["reboot.attempts"] + One(Reloading)
        <= metrics["reload.attempts"]

LEMMA ReloadBooks ==
    ASSUME NEW a \in Nat, NEW s \in Nat, NEW r \in Nat, NEW t \in Nat,
           NEW da \in Nat, NEW ds \in Nat, NEW dr \in Nat, NEW u \in Nat,
           s + r + t <= a, ds + dr + u <= da + t
    PROVE  (s + ds) + (r + dr) + u <= a + da
  OBVIOUS

(* With the method "reload" only a reload leads to the reboot.             *)
LEMMA RebootAfterReload ==
    ASSUME KnowsWhy, [Next]_vars, RecoveryMethod = "reload", RebootStarts
    PROVE  Reloading
  <1>1. Next /\ pc' = "reboot" /\ pc # "reboot"
    BY DEF RebootStarts, vars
  <1>2. CASE Authenticate
    BY <1>1, <1>2
    DEF Authenticate, RecoveryFails, EndRecovery, AfterHandler
  <1>3. CASE GetBand \/ Switch \/ Restore
    BY <1>3
    DEF GetBand, Switch, Restore, KnowsWhy, TriggerFits, Recovery, Reload,
        Reloading, Halted
  <1>4. CASE InternetCheck \/ FetchSignal \/ RefreshForSignal
    <2>1. pc \notin {"authenticate", "reboot"} \cup Halted
      BY <1>4 DEF InternetCheck, FetchSignal, RefreshForSignal, Halted
    <2>2. trigger # "none"
      BY <1>1, <1>4
      DEF InternetCheck, FetchSignal, RefreshForSignal, InternetHealthy,
          InternetDegraded, SignalHealthy, SignalDegraded, SignalError,
          ConnectivityPassed, ConnectivityFailed, SignalPassed, SignalFailed,
          SignalUnknown, StartRecovery, Return, AfterHandler
    <2> QED
      BY <2>1, <2>2 DEF Reloading
  <1>5. CASE Reboot
    BY <1>1, <1>5 DEF Reboot
  <1>6. CASE \/ TickInternet \/ TickSignal \/ Park \/ Wait \/ Shutdown
             \/ Logout \/ Collect \/ Environment \/ Terminated
    BY <1>1, <1>6
    DEF TickInternet, TickSignal, Park, Wait, Shutdown, Logout, Collect,
        Environment, CtrlC, SessionExpires, AdminSets, Terminated, vars
  <1> QED
    BY <1>1, <1>2, <1>3, <1>4, <1>5, <1>6 DEF Next, Task

(* A reload that is under way after a step was so before, or begins.       *)
LEMMA ReloadingStep ==
    ASSUME KnowsWhy, [Next]_vars, Reloading'
    PROVE  Reloading \/ ReloadStarts
  <1>1. CASE trigger = "none"
    <2>1. pc' = "authenticate"
      BY <1>1, TriggerStep DEF Reloading, Starts
    <2> QED
      BY <2>1 DEF Reloading
  <1>2. CASE trigger # "none" /\ pc = "authenticate"
    <2>1. CASE Authenticate
      BY <1>2, <2>1
      DEF Authenticate, FallBackToReboot, RecoveryFails, EndRecovery,
          ReloadStarts, Reloading
    <2>2. CASE Environment \/ Terminated \/ UNCHANGED vars
      BY <1>2, <2>2
      DEF Environment, CtrlC, SessionExpires, AdminSets, Terminated, vars,
          Reloading, Halted
    <2> QED
      BY <1>2, <2>1, <2>2
      DEF Next, Task, TickInternet, TickSignal, Park, Wait, Shutdown, Logout,
          Collect, InternetCheck, FetchSignal, RefreshForSignal, GetBand,
          Switch, Restore, Reboot, Loop
  <1>3. CASE trigger # "none" /\ pc = "reboot"
    <2>1. CASE Reboot
      BY <2>1 DEF Reboot, RecoverySucceeds, RecoveryFails, EndRecovery,
                  Reloading
    <2>2. CASE Environment \/ Terminated \/ UNCHANGED vars
      BY <1>3, <2>2
      DEF Environment, CtrlC, SessionExpires, AdminSets, Terminated, vars,
          Reloading, Halted
    <2> QED
      BY <1>3, <2>1, <2>2
      DEF Next, Task, TickInternet, TickSignal, Park, Wait, Shutdown, Logout,
          Collect, InternetCheck, FetchSignal, RefreshForSignal, GetBand,
          Switch, Restore, Authenticate, Loop
  <1>4. CASE pc \in Halted
    <2>1. ~Task
      BY <1>4
      DEF Task, TickInternet, TickSignal, Park, Wait, Shutdown, Logout,
          Collect, InternetCheck, FetchSignal, RefreshForSignal, GetBand,
          Switch, Restore, Authenticate, Reboot, Loop, Halted
    <2>2. pc' = pc
      BY <1>4, <2>1
      DEF Next, Environment, CtrlC, SessionExpires, AdminSets, Terminated,
          vars
    <2> QED
      BY <1>4, <2>2 DEF Reloading
  <1> QED
    BY <1>1, <1>2, <1>3, <1>4 DEF Reloading

LEMMA ReloadStep ==
    ASSUME KnowsWhy, [Next]_vars, RecoveryMethod = "reload"
    PROVE  One(ReloadRestored) + One(RebootStarts) + One(Reloading')
             <= One(ReloadStarts) + One(Reloading)
  <1>1. CASE ReloadRestored
    <2>1. Reloading
      BY <1>1 DEF ReloadRestored, Verifying, Reloading, Signal, Halted
    <2>2. trigger' = "none"
      BY <1>1 DEF ReloadRestored, ReturnsOk, Returns
    <2>3. ~RebootStarts
      BY <2>2, NextFits DEF RebootStarts, KnowsWhy, TriggerFits, Recovery
    <2> QED
      BY <2>1, <2>2, <2>3 DEF One, Reloading
  <1>2. CASE ~ReloadRestored /\ RebootStarts
    <2>1. Reloading
      BY <1>2, RebootAfterReload
    <2>2. ~Reloading'
      BY <1>2 DEF RebootStarts, Reloading
    <2> QED
      BY <1>2, <2>1, <2>2 DEF One
  <1>3. CASE ~ReloadRestored /\ ~RebootStarts
    BY <1>3, ReloadingStep DEF One
  <1> QED
    BY <1>1, <1>2, <1>3

LEMMA NextCovered ==
    ASSUME RecoveryMethod = "reload"
    PROVE  MetricsType /\ KnowsWhy /\ ReloadsCovered /\ [Next]_vars /\ Record
               => ReloadsCovered'
  <1> SUFFICES ASSUME MetricsType, KnowsWhy, ReloadsCovered, [Next]_vars,
                      Record
               PROVE  ReloadsCovered'
    OBVIOUS
  <1> DEFINE a == metrics["reload.attempts"]
             s == metrics["reload.successes"]
             r == metrics["reboot.attempts"]
  <1>1. a \in Nat /\ s \in Nat /\ r \in Nat
    BY DEF MetricsType, Metric
  <1>2. s + r + One(Reloading) <= a
    BY DEF ReloadsCovered
  <1>3. /\ One(Reloading) \in Nat /\ One(Reloading') \in Nat
        /\ One(ReloadStarts) \in Nat
        /\ One(ReloadRestored) \in Nat
        /\ One(RebootStarts) \in Nat
    BY DEF One
  <1>4. (s + One(ReloadRestored)) + (r + One(RebootStarts)) + One(Reloading')
          <= a + One(ReloadStarts)
    <2> HIDE DEF a, s, r
    <2> QED
      BY <1>1, <1>2, <1>3, ReloadStep, ReloadBooks
  <1>5. One(Reloading)' = One(Reloading')
    BY DEF One
  <1> QED
    BY <1>4, <1>5, Counted DEF ReloadsCovered

-----------------------------------------------------------------------------
LEMMA RecordedSteps ==
    /\ RecordedInit => Init /\ MetricsType /\ KnowsWhy
    /\ [RecordedNext]_<<vars, metrics>> =>
          \/ [Next]_vars /\ Record
          \/ UNCHANGED <<vars, metrics>>
  <1>1. RecordedInit => Init /\ MetricsType
    BY DEF RecordedInit, MetricsType
  <1>2. Init => KnowsWhy
    BY DEF Init, KnowsWhy, TriggerFits, EvidenceFits, Loop, Recovery, Reload,
           Signal
  <1> QED
    BY <1>1, <1>2 DEF RecordedNext

LEMMA RecordedKnows == RecordedSpec => [](MetricsType /\ KnowsWhy)
  <1>1. MetricsType /\ KnowsWhy /\ [RecordedNext]_<<vars, metrics>>
          => (MetricsType /\ KnowsWhy)'
    <2> SUFFICES ASSUME MetricsType, KnowsWhy,
                        [RecordedNext]_<<vars, metrics>>
                 PROVE  MetricsType' /\ KnowsWhy'
      OBVIOUS
    <2>1. CASE [Next]_vars /\ Record
      BY <2>1, NextFits, Counted
    <2>2. CASE UNCHANGED <<vars, metrics>>
      BY <2>2, NextFits DEF MetricsType
    <2> QED
      BY <2>1, <2>2, RecordedSteps
  <1> QED
    BY <1>1, RecordedSteps, PTL DEF RecordedSpec

(* Every recovery for the signal ends in exactly one success or failure,   *)
(* whichever of its awaits it fails at.                                    *)
THEOREM SignalRecoveriesBalance == RecordedSpec => []SignalRecoveriesAddUp
  <1>1. RecordedInit => SignalRecoveriesAddUp
    BY DEF RecordedInit, Init, SignalRecoveriesAddUp, Metric
  <1>2. MetricsType /\ KnowsWhy /\ SignalRecoveriesAddUp
          /\ [RecordedNext]_<<vars, metrics>> => SignalRecoveriesAddUp'
    <2> SUFFICES ASSUME MetricsType, KnowsWhy, SignalRecoveriesAddUp,
                        [RecordedNext]_<<vars, metrics>>
                 PROVE  SignalRecoveriesAddUp'
      OBVIOUS
    <2>1. CASE UNCHANGED <<vars, metrics>>
      BY <2>1 DEF SignalRecoveriesAddUp, vars, locals
    <2> QED
      BY <2>1, NextAddsUp, RecordedSteps
  <1> QED
    BY <1>1, <1>2, RecordedKnows, PTL DEF RecordedSpec

(* A reload that restored the condition is not followed by a reboot, and   *)
(* one that did not is followed by at most one: attempts cover both.       *)
THEOREM ReloadsComeFirst == RecordedSpec => []RebootsFollowReloads
  <1>1. CASE RecoveryMethod = "reload"
    <2>1. RecordedInit => ReloadsCovered
      BY DEF RecordedInit, Init, ReloadsCovered, Reloading, One, Metric
    <2>2. MetricsType /\ KnowsWhy /\ ReloadsCovered
            /\ [RecordedNext]_<<vars, metrics>> => ReloadsCovered'
      <3> SUFFICES ASSUME MetricsType, KnowsWhy, ReloadsCovered,
                          [RecordedNext]_<<vars, metrics>>
                   PROVE  ReloadsCovered'
        OBVIOUS
      <3>1. CASE UNCHANGED <<vars, metrics>>
        BY <3>1 DEF ReloadsCovered, Reloading, One, vars, locals
      <3> QED
        BY <1>1, <3>1, NextCovered, RecordedSteps
    <2>3. MetricsType /\ ReloadsCovered => RebootsFollowReloads
      BY DEF MetricsType, Metric, ReloadsCovered, RebootsFollowReloads, One
    <2> QED
      BY <2>1, <2>2, <2>3, RecordedKnows, PTL DEF RecordedSpec
  <1>2. CASE RecoveryMethod # "reload"
    <2>1. RebootsFollowReloads
      BY <1>2 DEF RebootsFollowReloads
    <2> QED
      BY <2>1, PTL
  <1> QED
    BY <1>1, <1>2

(* Recording is passive: whatever a theorem says of every behaviour of the  *)
(* monitor it says of those with the counters, CooldownKept and the others  *)
(* among them.                                                             *)
THEOREM RecordingIsPassive == RecordedSpec => Spec
  <1>1. [RecordedNext]_<<vars, metrics>> => [Next]_vars
    BY DEF RecordedNext, vars
  <1> QED
    BY <1>1, PTL DEF RecordedSpec, RecordedInit, Spec

-----------------------------------------------------------------------------
(* Service.                                                                *)

(* What makes DownOnRequestOnly inductive: a run that is on its way out    *)
(* has been interrupted.                                                   *)
EndsOnRequest ==
    unit = "running" /\ pc \in {"logout"} \cup Halted => ctrlc # "none"

ServiceInv ==
    /\ ServiceTypeOK /\ OriginalRead
    /\ DownOnRequestOnly /\ EndsOnRequest

-----------------------------------------------------------------------------
(* The monitor's steps inside the service.                                 *)

LEMMA RunIsNext == Run \/ AdminAct => Next /\ UNCHANGED service
  BY DEF Run, AdminAct, Next, Task, Environment

(* No result of a check or a recovery ends the run.                        *)
LEMMA GoesOn ==
    ASSUME \/ RecoverySucceeds \/ RecoveryFails \/ FallBackToReboot
           \/ InternetHealthy \/ InternetDegraded
           \/ SignalHealthy \/ SignalDegraded \/ SignalError
    PROVE  pc' \notin {"logout"} \cup Halted
  BY DEF RecoverySucceeds, RecoveryFails, EndRecovery, FallBackToReboot,
         InternetHealthy, InternetDegraded, SignalHealthy, SignalDegraded,
         SignalError, ConnectivityPassed, ConnectivityFailed,
         ConnectivityVerified, SignalPassed, SignalFailed, SignalUnknown,
         StartRecovery, Return, AfterHandler, Halted

(* Of the task's steps, only those of the interrupted loop do.             *)
LEMMA TaskEndsOnRequest ==
    ASSUME Task, pc' \in {"logout"} \cup Halted
    PROVE  ctrlc' # "none" \/ (pc = "logout" /\ ctrlc' = ctrlc)
  <1>1. CASE TickInternet \/ TickSignal \/ Park \/ Wait \/ Collect
    BY <1>1 DEF TickInternet, TickSignal, Park, Wait, Collect, Halted
  <1>2. CASE Shutdown \/ Logout
    BY <1>2 DEF Shutdown, Logout, interrupt
  <1>3. CASE InternetCheck \/ FetchSignal \/ RefreshForSignal
    BY <1>3, GoesOn DEF InternetCheck, FetchSignal, RefreshForSignal, Halted
  <1>4. CASE Authenticate \/ GetBand
    BY <1>4, GoesOn DEF Authenticate, GetBand, Halted
  <1>5. CASE Switch \/ Restore
    BY <1>5, GoesOn DEF Switch, Restore, SetBand, Halted
  <1>6. CASE Reboot
    BY <1>6, GoesOn DEF Reboot
  <1> QED
    BY <1>1, <1>2, <1>3, <1>4, <1>5, <1>6 DEF Task

LEMMA RunKeeps == ServiceInv /\ (Run \/ AdminAct) => ServiceInv'
  <1> SUFFICES ASSUME ServiceInv, Run \/ AdminAct
               PROVE  ServiceInv'
    OBVIOUS
  <1>1. UNCHANGED <<unit, asked>>
    BY RunIsNext DEF service
  <1>2. ServiceTypeOK' /\ OriginalRead'
    BY <1>1, RunIsNext, NextType, NextOriginal
    DEF ServiceInv, ServiceTypeOK
  <1>3. EndsOnRequest'
    <2>1. CASE Run /\ Task
      BY <1>1, <2>1, TaskEndsOnRequest
      DEF ServiceInv, EndsOnRequest, Halted
    <2>2. CASE Run /\ CtrlC
      BY <2>2 DEF CtrlC, EndsOnRequest
    <2>3. CASE (Run /\ SessionExpires) \/ AdminAct
      BY <1>1, <2>3
      DEF SessionExpires, AdminAct, AdminSets, ServiceInv, EndsOnRequest,
          interrupt
    <2> QED
      BY <2>1, <2>2, <2>3 DEF Run
  <1> QED
    BY <1>1, <1>2, <1>3 DEF ServiceInv, DownOnRequestOnly

-----------------------------------------------------------------------------
(* The ends of a run and its beginnings.                                   *)

LEMMA Zeroes ==
    /\ 0 \in 0..InternetMaxRetries /\ 0 \in 0..SignalMaxRetries
    /\ 0 \in -InternetInterval..MaxLag /\ 0 \in -SignalInterval..MaxLag
  BY MonitorAssumption

LEMMA StartUpKeeps == ServiceInv /\ StartUp => ServiceInv'
  <1> SUFFICES ASSUME ServiceInv, StartUp
               PROVE  ServiceInv'
    OBVIOUS
  <1>1. uptime' \in Ages
    BY AgedType, RequestTimeType
    DEF StartUp, ServiceInv, ServiceTypeOK, TypeOK
  <1>2. TypeOK'
    BY <1>1, Zeroes
    DEF StartUp, ServiceInv, ServiceTypeOK, TypeOK, SessionState, Control,
        Loop, Ages, Never, router, preference
  <1> QED
    BY <1>2
    DEF StartUp, ServiceInv, ServiceTypeOK, OriginalRead, DownOnRequestOnly,
        EndsOnRequest, UnitState, Halted

(* A step of systemd or of a start that fails leaves the monitor as it is. *)
LEMMA ProgramKeeps ==
    ASSUME ServiceInv, UNCHANGED <<program, router>>, uptime' \in Ages,
           unit' \in UnitState \ {"running"}, asked' \in BOOLEAN,
           unit' = "inactive" => asked'
    PROVE  ServiceInv'
  <1>1. TypeOK' /\ OriginalRead'
    BY DEF ServiceInv, ServiceTypeOK, TypeOK, OriginalRead, program, locals,
           counters, interrupt, router, preference
  <1> QED
    BY <1>1
    DEF ServiceInv, ServiceTypeOK, DownOnRequestOnly, EndsOnRequest

LEMMA WaitingKeeps ==
    ServiceInv /\ (StartFails \/ RestartUnit \/ StartUnit) => ServiceInv'
  <1> SUFFICES ASSUME ServiceInv, StartFails \/ RestartUnit \/ StartUnit
               PROVE  ServiceInv'
    OBVIOUS
  <1>1. uptime' \in Ages
    <2>1. uptime \in Ages
      BY DEF ServiceInv, ServiceTypeOK, TypeOK
    <2>2. RestartSec \in Nat /\ 0..MinInterval \subseteq Nat
      BY ServiceAssumption, MonitorAssumption
    <2> QED
      BY <2>1, <2>2, AgedType, RequestTimeType
      DEF StartFails, RestartUnit, StartUnit
  <1>2. /\ unit' \in UnitState \ {"running", "inactive"}
        /\ asked' \in BOOLEAN
    <2>1. CASE StartFails
      <3>1. unit' = "waiting"
        BY <2>1 DEF StartFails, Disposition, ExitStatus
      <3> QED
        BY <2>1, <3>1 DEF StartFails, UnitState, ServiceInv, ServiceTypeOK
    <2>2. CASE RestartUnit \/ StartUnit
      BY <2>2
      DEF RestartUnit, StartUnit, UnitState, ServiceInv, ServiceTypeOK
    <2> QED
      BY <2>1, <2>2
  <1> QED
    BY <1>1, <1>2, ProgramKeeps DEF StartFails, RestartUnit, StartUnit

(* The process is gone: what it knew is of no consequence.                 *)
LEMMA GoneKeeps ==
    ASSUME ServiceInv, pc' \in Halted, session' = "none",
           UNCHANGED <<locals, counters, clock, interrupt, router,
                       last_internet>>,
           unit' \in UnitState \ {"running"}, asked' \in BOOLEAN,
           unit' = "inactive" => asked'
    PROVE  ServiceInv'
  <1>1. TypeOK' /\ OriginalRead'
    BY DEF ServiceInv, ServiceTypeOK, TypeOK, OriginalRead, locals, counters,
           clock, interrupt, router, preference, Halted, Control,
           SessionState
  <1> QED
    BY <1>1
    DEF ServiceInv, ServiceTypeOK, DownOnRequestOnly, EndsOnRequest

LEMMA EndKeeps == ServiceInv /\ (Exit \/ Terminate \/ Crash) => ServiceInv'
  <1> SUFFICES ASSUME ServiceInv, Exit \/ Terminate \/ Crash
               PROVE  ServiceInv'
    OBVIOUS
  <1>1. CASE Exit
    <2>1. asked' = TRUE
      BY <1>1 DEF Exit, ServiceInv, EndsOnRequest, ServiceTypeOK
    <2>2. unit' \in {"inactive", "waiting"}
      BY <1>1 DEF Exit, Disposition
    <2> QED
      BY <1>1, <2>1, <2>2, GoneKeeps DEF Exit, Gone, UnitState, Halted
  <1>2. CASE Terminate
    BY <1>2, GoneKeeps DEF Terminate, Dies, Gone, UnitState, Halted
  <1>3. CASE Crash
    BY <1>3, GoneKeeps
    DEF Crash, Dies, Gone, UnitState, Halted, ServiceInv, ServiceTypeOK
  <1> QED
    BY <1>1, <1>2, <1>3

-----------------------------------------------------------------------------
LEMMA ServiceInvInit == ServiceInit => ServiceInv
  <1> SUFFICES ASSUME ServiceInit
               PROVE  ServiceInv
    OBVIOUS
  <1>1. TypeOK
    BY Zeroes
    DEF ServiceInit, TypeOK, SessionState, Control, Halted, Ages, Never
  <1> QED
    BY <1>1
    DEF ServiceInit, ServiceInv, ServiceTypeOK, OriginalRead, UnitState,
        DownOnRequestOnly, EndsOnRequest

LEMMA ServiceInvNext ==
    ServiceInv /\ [ServiceNext]_<<vars, service>> => ServiceInv'
  <1> SUFFICES ASSUME ServiceInv, [ServiceNext]_<<vars, service>>
               PROVE  ServiceInv'
    OBVIOUS
  <1>1. CASE UNCHANGED <<vars, service>>
    BY <1>1
    DEF ServiceInv, ServiceTypeOK, TypeOK, OriginalRead, DownOnRequestOnly,
        EndsOnRequest, vars, service, locals, counters, clock, interrupt,
        router, preference
  <1> QED
    BY <1>1, RunKeeps, StartUpKeeps, WaitingKeeps, EndKeeps
    DEF ServiceNext, Systemd

LEMMA ServiceInvariant == ServiceSpec => []ServiceInv
  BY ServiceInvInit, ServiceInvNext, PTL DEF ServiceSpec

(* Type correctness of the program as a service, through any number of     *)
(* crashes, failed starts, stops and starts.                               *)
THEOREM ServiceTypes == ServiceSpec => []ServiceTypeOK
  <1>1. ServiceInv => ServiceTypeOK
    BY DEF ServiceInv
  <1> QED
    BY <1>1, ServiceInvariant, PTL

(* The service is down only because it was asked to be: a start that       *)
(* failed, a crash and a run that ended by itself are followed by another. *)
THEOREM ServiceStaysUp == ServiceSpec => []DownOnRequestOnly
  <1>1. ServiceInv => DownOnRequestOnly
    BY DEF ServiceInv
  <1> QED
    BY <1>1, ServiceInvariant, PTL

-----------------------------------------------------------------------------
(* What the monitor knows of a recovery does not survive it.               *)

(* Only the start changes the program and goes on with it; what ends the   *)
(* process keeps all but the session.                                      *)
LEMMA ServiceStep ==
    ASSUME [ServiceNext]_<<vars, service>>
    PROVE  \/ [Next]_vars
           \/ /\ pc' = "select" /\ trigger' = "none"
              /\ failure_count' = 0 /\ last_internet' = "healthy"
           \/ UNCHANGED <<pc, trigger, session, doubt, failure_count,
                          last_internet>>
           \/ /\ pc' \in Halted
              /\ UNCHANGED <<trigger, failure_count, last_internet>>
  <1>1. CASE Run \/ AdminAct
    BY <1>1, RunIsNext
  <1>2. CASE StartUp
    BY <1>2 DEF StartUp
  <1>3. CASE StartFails \/ RestartUnit \/ StartUnit
    BY <1>3
    DEF StartFails, RestartUnit, StartUnit, program, locals, counters, router
  <1>4. CASE Exit \/ Terminate \/ Crash
    BY <1>4
    DEF Exit, Terminate, Crash, Dies, locals, counters, Halted
  <1>5. CASE UNCHANGED <<vars, service>>
    BY <1>5
  <1> QED
    BY <1>1, <1>2, <1>3, <1>4, <1>5 DEF ServiceNext, Systemd

LEMMA ServiceKnowsWhy == ServiceSpec => []KnowsWhy
  <1>1. ServiceInit => KnowsWhy
    BY DEF ServiceInit, KnowsWhy, TriggerFits, EvidenceFits, Loop, Recovery,
           Reload, Signal
  <1>2. KnowsWhy /\ [ServiceNext]_<<vars, service>> => KnowsWhy'
    <2> SUFFICES ASSUME KnowsWhy, [ServiceNext]_<<vars, service>>
                 PROVE  KnowsWhy'
      OBVIOUS
    <2>1. CASE [Next]_vars
      BY <2>1, NextFits
    <2>2. CASE pc' = "select" /\ trigger' = "none"
      BY <2>2
      DEF KnowsWhy, TriggerFits, EvidenceFits, Loop, Recovery, Reload, Signal
    <2>3. CASE UNCHANGED <<pc, trigger, last_internet>>
      BY <2>3 DEF KnowsWhy, TriggerFits, EvidenceFits
    <2>4. CASE pc' \in Halted
      BY <2>4
      DEF KnowsWhy, TriggerFits, EvidenceFits, Halted, Loop, Recovery,
          Reload, Signal
    <2> QED
      BY <2>1, <2>2, <2>3, <2>4, ServiceStep
  <1> QED
    BY <1>1, <1>2, PTL DEF ServiceSpec

(* Through any number of runs, a recovery for connectivity that reaches    *)
(* the reboot does so on the strength of a check of this run.              *)
THEOREM ServiceRebootsNeedOutages == ServiceSpec => []RebootsAreForOutages
  <1>1. KnowsWhy => RebootsAreForOutages
    BY DEF KnowsWhy, EvidenceFits, RebootsAreForOutages, Recovery
  <1> QED
    BY <1>1, ServiceKnowsWhy, PTL

(* The requests of recovery carry a key that the router accepts, in every  *)
(* run of the service and for every router that does not mislead it: a run *)
(* begins with a key, and a recovery that was cut off is not taken up      *)
(* again without one.                                                      *)
THEOREM ServiceRecoveryAuthenticated ==
    ServiceSpec => []RecoveryIsAuthenticated
  <1>1. ServiceInit => KeyAccepted
    BY DEF ServiceInit, KeyAccepted, Reload
  <1>2. KnowsWhy /\ KeyAccepted /\ [ServiceNext]_<<vars, service>>
          => KeyAccepted'
    <2> SUFFICES ASSUME KnowsWhy, KeyAccepted,
                        [ServiceNext]_<<vars, service>>
                 PROVE  KeyAccepted'
      OBVIOUS
    <2>1. CASE [Next]_vars
      BY <2>1, NextAccepted
    <2>2. CASE pc' = "select" \/ pc' \in Halted
      BY <2>2 DEF KeyAccepted, Reload, Halted
    <2>3. CASE UNCHANGED <<pc, trigger, session, doubt>>
      BY <2>3 DEF KeyAccepted
    <2> QED
      BY <2>1, <2>2, <2>3, ServiceStep
  <1>3. KeyAccepted => RecoveryIsAuthenticated
    BY DEF KeyAccepted, RecoveryIsAuthenticated
  <1> QED
    BY <1>1, <1>2, <1>3, ServiceKnowsWhy, PTL DEF ServiceSpec

(* The count of failed checks is given up only on evidence, or with the    *)
(* run that made it: a new run takes connectivity for granted until its    *)
(* first check.                                                            *)
THEOREM ServiceEvidenceForResets ==
    ASSUME "refused_in_body" \notin LiveReplies \cup DeadReplies
    PROVE  ServiceSpec => ResetsNeedEvidence
  <1>1. TypeOK /\ KnowsWhy /\ [ServiceNext]_<<vars, service>> =>
          [failure_count' < failure_count =>
              \/ last_internet' = "healthy"
              \/ pc = "reboot" /\ uptime' \in 0..(WaitAfter + CallTimeout)]_vars
    <2> SUFFICES ASSUME TypeOK, KnowsWhy, [ServiceNext]_<<vars, service>>,
                        failure_count' < failure_count,
                        last_internet' # "healthy"
                 PROVE  pc = "reboot" /\ uptime' \in 0..(WaitAfter + CallTimeout)
      OBVIOUS
    <2>1. failure_count' # failure_count
      BY DEF TypeOK
    <2>2. [Next]_vars
      BY <2>1, ServiceStep
    <2>3. Reboot
      BY <2>2, ResetStep
    <2>4. ~UNCHANGED counters
      BY <2>1 DEF counters
    <2> QED
      BY <2>3, <2>4, HonestReboot DEF Reboot
  <1>2. ServiceTypeOK => TypeOK
    BY DEF ServiceTypeOK
  <1> QED
    BY <1>1, <1>2, ServiceTypes, ServiceKnowsWhy, PTL
    DEF ServiceSpec, ResetsNeedEvidence
=============================================================================
