---------------------------- MODULE WatchdogProofs --------------------------
(* The monitor implements Watchdog, for every value of its constants, with *)
(* a router that does what it is asked.                                    *)
EXTENDS RecoveryProofs, MonitorWatchdog

Reliable ==
    /\ LiveReplies = {"ok"} /\ DeadReplies = {"refused"}
    /\ "keyless" \notin LoginReplies
    /\ SessionsExpire = FALSE
    /\ AdminChoices = {}

Dependable == Reliable /\ LoginReplies = {"ok"}

-----------------------------------------------------------------------------
(* Three more invariants.  Inside recovery, once it has renewed the        *)
(* session, no request is refused, so that the preference does not get out *)
(* of hand; and run() remembers no restart that never was.                 *)
Authenticated ==
    trigger # "none" /\ pc \notin Halted \cup {"authenticate"}
        => session = "live"

Unspoiled == ~spoiled

NoneImagined == last_reboot # Never => uptime # Never

(* With a dependable router every renewal of the session succeeds.         *)
LEMMA RenewalSucceeds ==
    ASSUME Dependable, NEW ok, NEW misled, Renews(ok, misled)
    PROVE  session' = "live" /\ ok
  <1>1. CASE /\ \E r \in Reply : Answer(r) /\ ProbePasses(r)
             /\ ok /\ UNCHANGED session
    BY <1>1 DEF Dependable, Reliable, Answer, Replies, ProbePasses
  <1>2. CASE \E key \in KeysAfterLogout(session), r \in LoginReplies :
                ok = LoginSucceeds(key, r) /\ session' = KeyAfterLogin(key, r)
    BY <1>2 DEF Dependable, LoginSucceeds, KeyAfterLogin
  <1> QED
    BY <1>1, <1>2 DEF Renews

(* The renewals of the two callers.                                        *)
LEMMA CallersRenew ==
    ASSUME Dependable, Authenticate \/ RefreshForSignal
    PROVE  /\ session' = "live"
           /\ Authenticate =>
                 \/ pc' = "get_band" /\ UNCHANGED locals
                 \/ FallBackToReboot
           /\ RefreshForSignal => pc' = "signal_refetch" /\ UNCHANGED locals
  <1>1. CASE Authenticate
    <2>1. ~RefreshForSignal
      BY <1>1 DEF Authenticate, RefreshForSignal
    <2> QED
      BY <1>1, <2>1, RenewalSucceeds DEF Authenticate
  <1>2. CASE RefreshForSignal
    <2>1. ~Authenticate
      BY <1>2 DEF Authenticate, RefreshForSignal
    <2> QED
      BY <1>2, <2>1, RenewalSucceeds DEF RefreshForSignal, EnsureAuthenticated
  <1> QED
    BY <1>1, <1>2

LEMMA NextAuthenticated ==
    ASSUME Dependable
    PROVE  KnowsWhy /\ Authenticated /\ [Next]_vars => Authenticated'
  <1> SUFFICES ASSUME KnowsWhy, Authenticated, [Next]_vars,
                      trigger' # "none",
                      pc' \notin Halted \cup {"authenticate"}
               PROVE  session' = "live"
    BY DEF Authenticated
  <1>1. CASE UNCHANGED <<trigger, session>> /\ pc \notin Halted \cup {"authenticate"}
    BY <1>1 DEF Authenticated
  <1>2. CASE RefreshForSignal \/ Authenticate
    BY <1>2, CallersRenew
  <1>3. CASE InternetCheck \/ FetchSignal
    <2>1. UNCHANGED session /\ pc \notin Halted \cup {"authenticate"}
      BY <1>3 DEF InternetCheck, FetchSignal, Halted
    <2>2. UNCHANGED trigger
      BY <1>3
      DEF InternetCheck, FetchSignal, InternetHealthy, InternetDegraded,
          SignalHealthy, SignalDegraded, SignalError, ConnectivityPassed,
          ConnectivityFailed, ConnectivityVerified, SignalPassed,
          SignalFailed, SignalUnknown, StartRecovery, Return,
          RecoverySucceeds, RecoveryFails, EndRecovery, FallBackToReboot,
          locals
    <2> QED
      BY <2>1, <2>2, <1>1
  <1>4. CASE GetBand \/ Switch \/ Restore
    <2>1. UNCHANGED session /\ pc \notin Halted \cup {"authenticate"}
      BY <1>4 DEF GetBand, Switch, Restore, SetBand, Halted
    <2>2. UNCHANGED trigger
      BY <1>4
      DEF GetBand, Switch, Restore, SetBand, FallBackToReboot,
          RecoveryFails, EndRecovery, locals
    <2> QED
      BY <2>1, <2>2, <1>1
  <1>5. CASE Reboot
    BY <1>5 DEF Reboot, RecoverySucceeds, RecoveryFails, EndRecovery
  <1>6. CASE TickInternet \/ TickSignal \/ Park \/ Wait \/ Shutdown \/ Collect
    BY <1>6
    DEF TickInternet, TickSignal, Park, Wait, Shutdown, Collect, KnowsWhy,
        TriggerFits, Loop, locals
  <1>7. CASE Logout
    BY <1>7 DEF Logout, Halted
  <1>8. CASE CtrlC
    BY <1>8, <1>1 DEF CtrlC, locals, Halted
  <1>9. CASE SessionExpires \/ \E t \in AdminChoices : AdminSets(t)
    BY <1>9 DEF SessionExpires, Expire, Dependable, Reliable
  <1>10. CASE UNCHANGED vars
    BY <1>10, <1>1 DEF vars, locals
  <1> QED
    BY <1>2, <1>3, <1>4, <1>5, <1>6, <1>7, <1>8, <1>9, <1>10
    DEF Next, Task, Environment, Terminated

LEMMA NextUnspoiled ==
    ASSUME Dependable
    PROVE  KnowsWhy /\ Authenticated /\ Unspoiled /\ [Next]_vars => Unspoiled'
  <1> SUFFICES ASSUME KnowsWhy, Authenticated, Unspoiled, [Next]_vars
               PROVE  Unspoiled'
    OBVIOUS
  <1>1. CASE Switch \/ Restore
    <2>1. session = "live"
      BY <1>1
      DEF Switch, Restore, Authenticated, KnowsWhy, TriggerFits, Recovery,
          Reload, Halted
    <2>2. \A r \in Reply : Answer(r) => r = "ok"
      BY <2>1 DEF Answer, Replies, Dependable, Reliable
    <2>3. spoiled' = (spoiled \/ FALSE)
      BY <1>1, <2>2 DEF Switch, Restore, SetBand, LeavesTemporary
    <2> QED
      BY <2>3, Zenon DEF Unspoiled
  <1>2. CASE \E t \in AdminChoices : AdminSets(t)
    BY <1>2 DEF Dependable, Reliable
  <1>3. CASE UNCHANGED spoiled
    BY <1>3 DEF Unspoiled
  <1> QED
    BY <1>1, <1>2, <1>3
    DEF Next, Task, Environment, Terminated, vars, router, TickInternet,
        TickSignal, Park, Wait, Shutdown, Logout, InternetCheck, FetchSignal,
        RefreshForSignal, Authenticate, GetBand, Reboot, Collect, CtrlC,
        SessionExpires

(* In a recovery that has its session the reboot is done as it is asked.   *)
LEMMA RebootRestarts ==
    ASSUME Dependable, KnowsWhy, Authenticated, Reboot
    PROVE  /\ RecoverySucceeds /\ last_reboot' = Remembered
           /\ uptime' \in 0..(WaitAfter + CallTimeout)
           /\ UNCHANGED <<preference, last_internet>>
  <1>1. session = "live"
    BY DEF Reboot, Authenticated, KnowsWhy, TriggerFits, Recovery, Halted
  <1>2. \A r \in Reply : Answer(r) => r = "ok"
    BY <1>1 DEF Answer, Replies, Dependable, Reliable
  <1>3. PICK d \in RequestTime(1) : \E e \in 0..d : Restart(e + WaitAfter)
    BY <1>2 DEF Reboot
  <1>4. PICK e \in 0..d : Restart(e + WaitAfter)
    BY <1>3
  <1>5. d \in 0..CallTimeout
    BY MonitorAssumption DEF RequestTime
  <1>6. uptime' \in 0..(WaitAfter + CallTimeout)
    BY <1>4, <1>5, MonitorAssumption DEF Restart, Lesser
  <1> QED
    BY <1>2, <1>6 DEF Reboot, router

LEMMA NextNoneImagined ==
    ASSUME Dependable
    PROVE  TypeOK /\ KnowsWhy /\ Authenticated /\ NoneImagined /\ [Next]_vars
           => NoneImagined'
  <1> SUFFICES ASSUME TypeOK, KnowsWhy, Authenticated, NoneImagined,
                      [Next]_vars
               PROVE  NoneImagined'
    OBVIOUS
  <1>c. ASSUME UNCHANGED <<last_reboot, uptime>>
        PROVE  NoneImagined'
    BY <1>c DEF NoneImagined
  <1>e. ASSUME NEW d \in Nat, Elapse(d)
        PROVE  NoneImagined'
    <2>1. last_reboot \in Ages /\ uptime \in Ages
      BY DEF TypeOK
    <2> QED
      BY <1>e, <2>1, MonitorAssumption
      DEF Elapse, Aged, Ages, Never, Lesser, NoneImagined
  <1>d. /\ 0..CheckTimeout \subseteq Nat /\ RequestTime(1) \subseteq Nat
        /\ RequestTime(3) \subseteq Nat /\ RequestTime(4) \subseteq Nat
    BY RequestTimeType
  <1>1. CASE TickInternet \/ TickSignal \/ Park \/ Shutdown \/ Environment
    BY <1>1, <1>c
    DEF TickInternet, TickSignal, Park, Shutdown, Environment, CtrlC,
        SessionExpires, AdminSets, clock
  <1>2. CASE \/ Wait \/ Logout \/ Collect \/ InternetCheck \/ FetchSignal
             \/ RefreshForSignal \/ Authenticate \/ GetBand
    <2>1. \E d \in Nat : Elapse(d)
      BY <1>2, <1>d
      DEF Wait, Logout, Collect, InternetCheck, FetchSignal,
          RefreshForSignal, Authenticate, GetBand
    <2> QED
      BY <2>1, <1>e
  <1>3. CASE Switch \/ Restore
    <2>1. PICK d \in RequestTime(1) :
             Elapse(d + SwitchWait) \/ Elapse(d + RestoreWait) \/ Elapse(d)
      BY <1>3 DEF Switch, Restore, SetBand
    <2>2. d \in Nat /\ d + SwitchWait \in Nat /\ d + RestoreWait \in Nat
      BY <1>d, MonitorAssumption
    <2> QED
      BY <2>1, <2>2, <1>e
  <1>4. CASE Reboot
    BY <1>4, RebootRestarts, MonitorAssumption DEF NoneImagined, Never
  <1>5. CASE UNCHANGED vars
    BY <1>5, <1>c DEF vars, clock
  <1> QED
    BY <1>1, <1>2, <1>3, <1>4, <1>5 DEF Next, Task, Terminated

-----------------------------------------------------------------------------
(* What a step has to do to be one of Watchdog's.                          *)

LEMMA ElapseIsLater ==
    ASSUME TypeOK, NEW d \in Nat, Elapse(d)
    PROVE  uptime' \in W!Later(uptime)
  <1>1. uptime \in Ages
    BY DEF TypeOK
  <1> QED
    BY <1>1, MonitorAssumption
    DEF Elapse, Aged, Ages, Never, Lesser, W!Later, W!Never

LEMMA WatchStep ==
    ASSUME pc \notin Halted, pc' \notin Halted, trigger = "none",
           uptime' \in W!Later(uptime),
           UNCHANGED <<trigger, reboot_allowed, preference>>
    PROVE  W!Next
  BY DEF W!Next, W!Watch, W!Ages, preference

LEMMA DetectStep ==
    ASSUME TypeOK', RestartsAreRemembered', NoneImagined',
           pc \notin Halted, pc' \notin Halted, trigger = "none",
           uptime' \in W!Later(uptime),
           NEW t \in {"Connectivity", "SignalQuality"}, StartRecovery(t),
           t = "Connectivity" => last_internet' = "degraded",
           UNCHANGED preference
    PROVE  W!Next
  <1>1. trigger' = t /\ reboot_allowed' = Cooled(last_reboot')
    BY DEF StartRecovery
  <1>2. /\ Cooled(last_reboot') => W!Rested(uptime')
        /\ uptime' = Never => Cooled(last_reboot')
    BY MonitorAssumption
    DEF TypeOK, RestartsAreRemembered, NoneImagined, Cooled, W!Rested,
        W!Never, Never, Ages
  <1>3. reboot_allowed' \in BOOLEAN
    BY DEF TypeOK
  <1>4. W!Detect(t)
    BY <1>1, <1>2, <1>3 DEF W!Detect, W!Ages, W!Never, Never, preference
  <1> QED
    BY <1>4 DEF W!Next, W!Cause

LEMMA VerifyStep ==
    ASSUME pc \notin Halted, pc' \notin Halted, trigger # "none",
           preferred = configured,
           uptime' \in W!Later(uptime),
           UNCHANGED <<trigger, reboot_allowed, preference>>
    PROVE  W!Next
  BY DEF W!Next, W!Verify, W!Ages, preference

LEMMA EndStep ==
    ASSUME pc \notin Halted, trigger # "none",
           preferred = configured,
           uptime' \in W!Later(uptime), EndRecovery,
           last_internet' = "healthy" \/ ~reboot_allowed,
           UNCHANGED preference
    PROVE  W!Next
  BY DEF W!Next, W!EndWithoutRestart, W!Ages, preference, EndRecovery,
         AfterHandler, Halted

LEMMA FallBackStep ==
    ASSUME pc \notin Halted, trigger # "none", preferred = configured,
           uptime' \in W!Later(uptime), FallBackToReboot,
           UNCHANGED preference
    PROVE  W!Next
  <1>1. CASE pc' = "reboot" /\ UNCHANGED locals
    BY <1>1, VerifyStep DEF locals, Halted
  <1>2. CASE ~reboot_allowed /\ RecoveryFails
    BY <1>2, EndStep DEF RecoveryFails
  <1> QED
    BY <1>1, <1>2 DEF FallBackToReboot

-----------------------------------------------------------------------------
(* Every step of the monitor is a step of Watchdog, or changes nothing     *)
(* that Watchdog knows of.                                                 *)
Inv == /\ TypeOK /\ PermissionHolds /\ RestartsAreRemembered /\ NoneImagined
       /\ KnowsWhy /\ PreferenceInv /\ Authenticated /\ Unspoiled

LEMMA CheckStep ==
    ASSUME Dependable, Inv, Inv', InternetCheck
    PROVE  W!Next
  <1>1. /\ pc = "internet_check" /\ pc \notin Halted
        /\ preferred = configured /\ UNCHANGED preference
    BY DEF InternetCheck, Inv, PreferenceInv, PreferenceIsRestored, Unspoiled,
           Halted, router
  <1>2. uptime' \in W!Later(uptime)
    <2>1. PICK d \in 0..CheckTimeout : Elapse(d)
      BY DEF InternetCheck
    <2> QED
      BY <2>1, ElapseIsLater, MonitorAssumption DEF Inv
  <1>3. CASE trigger = "none"
    <2>1. CASE Return("Connectivity")
      BY <1>1, <1>2, <1>3, <2>1, WatchStep
      DEF Return, AfterHandler, Halted, locals
    <2>2. CASE StartRecovery("Connectivity") /\ last_internet' = "degraded"
      BY <1>1, <1>2, <1>3, <2>2, DetectStep DEF StartRecovery, Halted, Inv
    <2> QED
      BY <1>3, <2>1, <2>2
      DEF InternetCheck, InternetHealthy, InternetDegraded,
          ConnectivityPassed, ConnectivityFailed
  <1>4. CASE trigger # "none"
    <2>1. CASE InternetHealthy /\ last_internet' = "healthy"
      <3>1. CASE RecoverySucceeds
        BY <1>1, <1>2, <1>4, <2>1, <3>1, EndStep DEF RecoverySucceeds
      <3>2. CASE pc' = "signal_check" /\ UNCHANGED locals
        BY <1>1, <1>2, <1>4, <3>2, VerifyStep DEF locals, Halted
      <3> QED
        BY <1>4, <2>1, <3>1, <3>2 DEF InternetHealthy, ConnectivityVerified
    <2>2. CASE InternetDegraded
      BY <1>1, <1>2, <1>4, <2>2, FallBackStep DEF InternetDegraded
    <2> QED
      BY <2>1, <2>2 DEF InternetCheck
  <1> QED
    BY <1>3, <1>4

LEMMA SignalStep ==
    ASSUME Dependable, Inv, Inv', FetchSignal \/ RefreshForSignal
    PROVE  W!Next
  <1>1. /\ pc \in Signal /\ pc \notin Halted
        /\ preferred = configured /\ UNCHANGED <<preference, last_internet>>
    BY DEF FetchSignal, RefreshForSignal, Inv, PreferenceInv,
           PreferenceIsRestored, Unspoiled, Halted, Signal, router
  <1>2. uptime' \in W!Later(uptime)
    <2>1. PICK d \in RequestTime(1) \cup RequestTime(3) : Elapse(d)
      BY DEF FetchSignal, RefreshForSignal
    <2> QED
      BY <2>1, ElapseIsLater, RequestTimeType DEF Inv
  <1>3. CASE trigger = "none"
    <2>1. CASE Return("SignalQuality")
      BY <1>1, <1>2, <1>3, <2>1, WatchStep
      DEF Return, AfterHandler, Halted, locals
    <2>2. CASE StartRecovery("SignalQuality")
      BY <1>1, <1>2, <1>3, <2>2, DetectStep DEF StartRecovery, Halted, Inv
    <2>3. CASE pc' \in Signal /\ UNCHANGED locals
      BY <1>1, <1>2, <1>3, <2>3, WatchStep DEF Halted, locals, Signal
    <2> QED
      BY <1>3, <2>1, <2>2, <2>3
      DEF FetchSignal, RefreshForSignal, SignalHealthy, SignalDegraded,
          SignalError, SignalPassed, SignalFailed, SignalUnknown, Signal
  <1>4. CASE trigger # "none"
    <2>1. session = "live"
      BY <1>1, <1>4 DEF Inv, Authenticated, Signal, Halted
    <2>2. last_internet' = "healthy"
      BY <1>1, <1>4
      DEF Inv, KnowsWhy, EvidenceFits, TriggerFits, TypeOK
    <2>3. CASE FetchSignal
      <3>1. SignalHealthy \/ SignalDegraded
        BY <2>1, <2>3
        DEF FetchSignal, Answer, Replies, Dependable, Reliable
      <3>2. CASE RecoverySucceeds
        BY <1>1, <1>2, <1>4, <2>2, <3>2, EndStep DEF RecoverySucceeds
      <3>3. CASE FallBackToReboot
        BY <1>1, <1>2, <1>4, <3>3, FallBackStep
      <3> QED
        BY <1>4, <3>1, <3>2, <3>3 DEF SignalHealthy, SignalDegraded
    <2>4. CASE RefreshForSignal
      <3>1. pc' = "signal_refetch" /\ UNCHANGED locals
        BY <2>4, CallersRenew
      <3> QED
        BY <1>1, <1>2, <1>4, <3>1, VerifyStep DEF locals, Halted
    <2> QED
      BY <2>3, <2>4
  <1> QED
    BY <1>3, <1>4

LEMMA TreatStep ==
    ASSUME Dependable, Inv, Inv', Authenticate \/ GetBand
    PROVE  W!Next
  <1>1. /\ pc \in Recovery /\ pc \notin Halted /\ trigger # "none"
        /\ preferred = configured /\ UNCHANGED preference
    BY DEF Authenticate, GetBand, Inv, KnowsWhy, TriggerFits, PreferenceInv,
           PreferenceIsRestored, Unspoiled, Halted, Recovery, Reload, router
  <1>2. uptime' \in W!Later(uptime)
    <2>1. PICK d \in RequestTime(1) \cup RequestTime(3) : Elapse(d)
      BY DEF Authenticate, GetBand
    <2> QED
      BY <2>1, ElapseIsLater, RequestTimeType DEF Inv
  <1>3. CASE FallBackToReboot
    BY <1>1, <1>2, <1>3, FallBackStep
  <1>4. CASE /\ pc' \in {"get_band", "switch"}
             /\ UNCHANGED <<trigger, reboot_allowed>>
    BY <1>1, <1>2, <1>4, VerifyStep DEF Halted
  <1> QED
    BY <1>3, <1>4, CallersRenew DEF GetBand, locals

LEMMA WriteStep ==
    ASSUME Dependable, Inv, Inv', Switch \/ Restore
    PROVE  W!Next
  <1>1. /\ pc \in {"switch", "restore"} /\ pc \notin Halted
        /\ trigger # "none" /\ session = "live" /\ original = configured
    BY DEF Switch, Restore, Inv, KnowsWhy, TriggerFits, PreferenceInv,
           ReloadRemembers, Unspoiled, Authenticated, Halted, Recovery,
           Reload
  <1>2. \A r \in Reply : Answer(r) => r = "ok"
    BY <1>1 DEF Answer, Replies, Dependable, Reliable
  <1>3. /\ pc' \in {"restore", "internet_check"}
        /\ UNCHANGED <<trigger, reboot_allowed, configured, last_internet>>
    BY <1>2 DEF Switch, Restore, SetBand, locals
  <1>4. uptime' \in W!Later(uptime)
    <2>1. PICK d \in RequestTime(1) :
             Elapse(d + SwitchWait) \/ Elapse(d + RestoreWait)
      BY <1>2 DEF Switch, Restore, SetBand
    <2>2. d + SwitchWait \in Nat /\ d + RestoreWait \in Nat
      BY RequestTimeType, MonitorAssumption
    <2> QED
      BY <2>1, <2>2, ElapseIsLater DEF Inv
  <1>5. CASE (preferred # configured)' = ~(preferred # configured)
    BY <1>1, <1>3, <1>4, <1>5 DEF W!Next, W!Lend, W!Ages, Halted
  <1>6. CASE Switch
    <2>1. preferred = configured
      BY <1>6 DEF Switch, Inv, PreferenceInv, PreferenceIsRestored,
                     Unspoiled
    <2>2. preferred' = Temporary(original) /\ configured' = original
      BY <1>1, <1>2, <1>6 DEF Switch, SetBand
    <2> QED
      BY <1>5, <2>1, <2>2 DEF Temporary
  <1>7. CASE Restore
    <2>1. preferred' = configured'
      BY <1>1, <1>2, <1>7 DEF Restore, SetBand
    <2>2. CASE preferred = configured
      BY <1>1, <1>3, <1>4, <2>1, <2>2, VerifyStep DEF Halted, preference
    <2> QED
      BY <1>5, <2>1, <2>2
  <1> QED
    BY <1>6, <1>7

LEMMA RestartStep ==
    ASSUME Dependable, Inv, Inv', Reboot
    PROVE  W!Next
  <1>1. /\ pc = "reboot" /\ pc \notin Halted /\ trigger # "none"
        /\ preferred = configured
    BY DEF Reboot, Inv, KnowsWhy, TriggerFits, PreferenceInv,
           PreferenceIsRestored, Unspoiled,
           Halted, Recovery
  <1>2. reboot_allowed /\ W!Rested(uptime)
    BY <1>1, MonitorAssumption
    DEF Inv, TypeOK, PermissionHolds, RestartsAreRemembered, Cooled,
        W!Rested, W!Never, Never, Ages
  <1>3. trigger = "Connectivity" => last_internet # "healthy"
    BY <1>1 DEF Inv, KnowsWhy, EvidenceFits, Recovery
  <1>4. /\ uptime' \in 0..(WaitAfter + CallTimeout)
        /\ trigger' = "none" /\ reboot_allowed' = FALSE
        /\ pc' \notin Halted /\ UNCHANGED <<preference, last_internet>>
    BY RebootRestarts
    DEF Inv, RecoverySucceeds, EndRecovery, AfterHandler, Halted
  <1> QED
    BY <1>1, <1>2, <1>3, <1>4 DEF W!Next, W!Restart, preference

LEMMA LoopStep ==
    ASSUME Dependable, Inv, Inv',
           \/ TickInternet \/ TickSignal \/ Park \/ Wait \/ Shutdown
           \/ Logout \/ Collect
    PROVE  [W!Next]_(W!vars)
  <1>1. CASE TickInternet \/ TickSignal \/ Park \/ Shutdown
    BY <1>1
    DEF TickInternet, TickSignal, Park, Shutdown, W!vars, Loop, Halted,
        locals, clock, router, preference
  <1>2. CASE Wait \/ Collect
    <2>1. PICK d \in RequestTime(4) \cup {1} : Elapse(d)
      BY <1>2 DEF Wait, Collect
    <2>2. uptime' \in W!Later(uptime)
      BY <2>1, ElapseIsLater, RequestTimeType DEF Inv
    <2> QED
      BY <1>2, <2>2, WatchStep
      DEF Wait, Collect, Inv, KnowsWhy, TriggerFits, Loop, Halted, locals,
          router
  <1>3. CASE Logout
    <2>1. PICK d \in RequestTime(1) : Elapse(d)
      BY <1>3 DEF Logout
    <2>2. uptime' \in W!Later(uptime)
      BY <2>1, ElapseIsLater, RequestTimeType DEF Inv
    <2> QED
      BY <1>3, <2>2
      DEF Logout, W!Next, W!Stop, W!Ages, Halted, locals, router,
          preference
  <1> QED
    BY <1>1, <1>2, <1>3

LEMMA InterruptStep ==
    ASSUME Inv, CtrlC
    PROVE  [W!Next]_(W!vars)
  <1>1. CASE pc' = pc
    BY <1>1 DEF CtrlC, W!vars, Halted, locals, clock, router,
        preference
  <1>2. CASE pc' = "killed"
    <2>1. uptime' \in W!Later(uptime)
      BY MonitorAssumption
      DEF CtrlC, clock, Inv, TypeOK, Ages, Never, W!Later, W!Never
    <2> QED
      BY <1>2, <2>1
      DEF CtrlC, W!Next, W!Stop, W!Ages, Halted, locals, router,
          preference
  <1> QED
    BY <1>1, <1>2 DEF CtrlC

LEMMA Simulation ==
    ASSUME Dependable, Inv, Inv', [Next]_vars
    PROVE  [W!Next]_(W!vars)
  <1>1. CASE SessionExpires \/ \E t \in AdminChoices : AdminSets(t)
    BY <1>1 DEF SessionExpires, Expire, Dependable, Reliable
  <1>2. CASE UNCHANGED vars
    BY <1>2 DEF vars, W!vars, locals, clock, router, preference
  <1> QED
    BY <1>1, <1>2, CheckStep, SignalStep, TreatStep, WriteStep, RestartStep,
       LoopStep, InterruptStep
    DEF Next, Task, Environment, Terminated

(* With a router that does what it is asked, the monitor is a watchdog:    *)
(* it restarts the router only when run() may, checks with the router's    *)
(* own preference, and gives a recovery up only when connectivity is seen  *)
(* again or the router must not be restarted.                              *)
THEOREM PromiseKept ==
    ASSUME Dependable
    PROVE  Spec => KeepsThePromise
  <1>1. Init => /\ RestartsAreRemembered /\ NoneImagined /\ Authenticated
                /\ Unspoiled /\ PreferenceInv /\ W!Init
    BY DEF Init, RestartsAreRemembered, NoneImagined, Authenticated,
           Unspoiled, PreferenceInv, PreferenceIsRestored, ReloadRemembers,
           W!Init, W!Never, Never, Halted
  <1>2. TypeOK /\ RestartsAreRemembered /\ [Next]_vars
        => RestartsAreRemembered'
    <2>1. "lost" \notin LiveReplies
      BY DEF Dependable, Reliable
    <2> QED
      BY <2>1, NextRemembered
  <1>3. PreferenceInv /\ [Next]_vars => PreferenceInv'
    BY NextPreference
  <1>4. KnowsWhy /\ Authenticated /\ [Next]_vars => Authenticated'
    BY NextAuthenticated
  <1>5. TypeOK /\ KnowsWhy /\ Authenticated /\ NoneImagined /\ [Next]_vars
        => NoneImagined'
    BY NextNoneImagined
  <1>u. KnowsWhy /\ Authenticated /\ Unspoiled /\ [Next]_vars => Unspoiled'
    BY NextUnspoiled
  <1>6. /\ TypeOK /\ PermissionHolds /\ RestartsAreRemembered /\ NoneImagined
        /\ KnowsWhy /\ PreferenceInv /\ Authenticated /\ Unspoiled
        <=> Inv
    BY DEF Inv
  <1>7. Inv /\ Inv' /\ [Next]_vars => [W!Next]_(W!vars)
    BY Simulation
  <1> QED
    BY <1>1, <1>2, <1>3, <1>4, <1>5, <1>u, <1>6, <1>7, PermissionIsInvariant,
       KnowsWhyIsInvariant, PTL
    DEF Spec, KeepsThePromise, W!Spec
=============================================================================
