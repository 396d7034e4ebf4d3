---------------------------- MODULE MonitorProofs ----------------------------
(* Proofs about Monitor, for every value of its constants.                 *)
EXTENDS Monitor, TLAPS

-----------------------------------------------------------------------------
(* Time.                                                                   *)

(* Letting time pass keeps an age an age, and a reboot that never happened *)
(* does not acquire one.                                                   *)
LEMMA AgedType ==
    ASSUME NEW age \in Ages, NEW d \in Nat
    PROVE  Aged(age, d) \in Ages
  BY MonitorAssumption DEF Aged, Ages, Never, Lesser

(* Letting time pass keeps every clock of the monitor in its range.        *)
LEMMA TickersType ==
    ASSUME TypeOK, NEW d \in Nat, TickersElapse(d)
    PROVE  /\ internet_lag' \in -InternetInterval..MaxLag
           /\ signal_lag' \in -SignalInterval..MaxLag
  BY MonitorAssumption DEF TypeOK, TickersElapse, Lesser

LEMMA ElapseType ==
    ASSUME TypeOK, NEW d \in Nat, Elapse(d)
    PROVE  /\ internet_lag' \in -InternetInterval..MaxLag
           /\ signal_lag' \in -SignalInterval..MaxLag
           /\ last_reboot' \in Ages
           /\ uptime' \in Ages
  <1>1. last_reboot \in Ages /\ uptime \in Ages
    BY DEF TypeOK
  <1> QED
    BY <1>1, TickersType, AgedType DEF Elapse

(* A counter of failed checks stays within its bound.                      *)
LEMMA CountUpType ==
    ASSUME NEW max \in Nat, NEW n \in 0..max
    PROVE  CountUp(n, max) \in 0..max
  BY DEF CountUp, Lesser

LEMMA RequestTimeType ==
    ASSUME NEW n \in Nat
    PROVE  RequestTime(n) \subseteq Nat
  <1>1. n * CallTimeout \in Nat
    BY MonitorAssumption
  <1> QED
    BY <1>1 DEF RequestTime

-----------------------------------------------------------------------------
(* Type correctness.                                                       *)

(* Everything but the session, the clocks and the router's preference is   *)
(* in its type; what the sub-steps of a handler establish.                 *)
ControlType ==
    /\ pc \in Control
    /\ trigger \in {"none", "Connectivity", "SignalQuality"}
    /\ reboot_allowed \in BOOLEAN
    /\ original \in Technology \cup {"none"}
    /\ failure_count \in 0..InternetMaxRetries
    /\ signal_failure_count \in 0..SignalMaxRetries

LEMMA TypeOKControl == TypeOK => ControlType
  BY DEF TypeOK, ControlType

LEMMA RecoverySucceedsType ==
    ASSUME ControlType, RecoverySucceeds
    PROVE  ControlType'
  <1>1. 0 \in 0..InternetMaxRetries /\ 0 \in 0..SignalMaxRetries
    BY MonitorAssumption
  <1>2. pc' \in {"select", "collect"}
    BY DEF RecoverySucceeds, EndRecovery, AfterHandler
  <1> QED
    BY <1>1, <1>2 DEF ControlType, RecoverySucceeds, EndRecovery, Control, Loop

LEMMA FallBackType ==
    ASSUME ControlType, FallBackToReboot
    PROVE  ControlType'
  BY DEF ControlType, FallBackToReboot, RecoveryFails, EndRecovery,
         AfterHandler, counters, locals, Control, Loop, Signal, Recovery,
         Reload, Halted

LEMMA RecoveryFailsType ==
    ASSUME ControlType, RecoveryFails
    PROVE  ControlType'
  BY DEF ControlType, RecoveryFails, EndRecovery, AfterHandler, counters,
         Control, Loop, Signal, Recovery, Reload, Halted

LEMMA StartRecoveryType ==
    ASSUME ControlType, NEW t \in {"Connectivity", "SignalQuality"},
           StartRecovery(t)
    PROVE  /\ pc' \in Control /\ trigger' \in {"Connectivity", "SignalQuality"}
           /\ reboot_allowed' \in BOOLEAN
           /\ original' \in Technology \cup {"none"}
  BY Z3 DEF ControlType, StartRecovery, Cooled, Control, Recovery

LEMMA ReturnType ==
    ASSUME ControlType, NEW t, Return(t)
    PROVE  /\ pc' \in Control
           /\ trigger' \in {"none", "Connectivity", "SignalQuality"}
           /\ reboot_allowed' \in BOOLEAN
           /\ original' \in Technology \cup {"none"}
  BY DEF ControlType, Return, AfterHandler, locals, Control, Loop

LEMMA InternetResultType ==
    ASSUME ControlType, InternetHealthy \/ InternetDegraded
    PROVE  ControlType'
  <1>1. CountUp(failure_count, InternetMaxRetries) \in 0..InternetMaxRetries
    BY CountUpType, MonitorAssumption DEF ControlType
  <1>2. CASE InternetHealthy
    <2>1. CASE trigger = "none"
      BY <1>2, <2>1, ReturnType, MonitorAssumption
      DEF InternetHealthy, ConnectivityPassed, ControlType
    <2>2. CASE trigger = "Connectivity"
      BY <1>2, <2>2, RecoverySucceedsType
      DEF InternetHealthy, ConnectivityVerified
    <2>3. CASE trigger = "SignalQuality"
      BY <1>2, <2>3
      DEF InternetHealthy, ConnectivityVerified, ControlType, locals,
          counters, Control, Signal
    <2> QED
      BY <2>1, <2>2, <2>3 DEF ControlType
  <1>3. CASE InternetDegraded
    <2>1. CASE trigger = "none"
      BY <1>1, <1>3, <2>1, ReturnType, StartRecoveryType, MonitorAssumption
      DEF InternetDegraded, ConnectivityFailed, ControlType
    <2>2. CASE trigger # "none"
      BY <1>3, <2>2, FallBackType DEF InternetDegraded
    <2> QED
      BY <2>1, <2>2
  <1> QED
    BY <1>2, <1>3

LEMMA SignalResultType ==
    ASSUME ControlType, SignalHealthy \/ SignalDegraded \/ SignalError
    PROVE  ControlType'
  <1>1. CountUp(signal_failure_count, SignalMaxRetries) \in 0..SignalMaxRetries
    BY CountUpType, MonitorAssumption DEF ControlType
  <1>2. CASE trigger = "none" /\ SignalHealthy
    BY <1>2, ReturnType, MonitorAssumption DEF SignalHealthy, SignalPassed,
        ControlType
  <1>3. CASE trigger = "none" /\ SignalDegraded
    BY <1>1, <1>3, ReturnType, StartRecoveryType, MonitorAssumption
    DEF SignalDegraded, SignalFailed, ControlType
  <1>4. CASE trigger = "none" /\ SignalError
    BY <1>4, ReturnType DEF SignalError, SignalUnknown,
        ControlType, counters
  <1>5. CASE trigger # "none"
    BY <1>5, RecoverySucceedsType, FallBackType
    DEF SignalHealthy, SignalDegraded, SignalError
  <1> QED
    BY <1>2, <1>3, <1>4, <1>5

-----------------------------------------------------------------------------
(* The session and the clocks; what is left of TypeOK.                     *)
LEMMA EnsureAuthenticatedType ==
    ASSUME session \in SessionState, NEW ok, NEW misled, Renews(ok, misled)
    PROVE  session' \in SessionState
  BY DEF Renews, SessionState, KeysAfterLogout, KeyAfterLogin

ClockType ==
    /\ internet_lag \in -InternetInterval..MaxLag
    /\ signal_lag \in -SignalInterval..MaxLag
    /\ last_reboot \in Ages
    /\ uptime \in Ages

RestType ==
    /\ session \in SessionState
    /\ ctrlc \in {"none", "noticed", "ignored"} /\ handler \in BOOLEAN
    /\ preferred \in Technology /\ configured \in Technology
    /\ spoiled \in BOOLEAN /\ doubt \in BOOLEAN
    /\ last_internet \in {"healthy", "degraded"}

LEMMA ElapseUpTo ==
    ASSUME TypeOK, NEW D \in SUBSET Nat, \E d \in D : Elapse(d)
    PROVE  ClockType'
  BY ElapseType DEF ClockType

(* The initial states are of their type.                                   *)
LEMMA InitType == Init => TypeOK
  <1>1. /\ 0 \in 0..InternetMaxRetries /\ 0 \in 0..SignalMaxRetries
        /\ 0 \in -InternetInterval..MaxLag /\ 0 \in -SignalInterval..MaxLag
    BY MonitorAssumption
  <1> QED
    BY <1>1
    DEF Init, TypeOK, SessionState, Control, Loop, Ages, Never

LEMMA SetBandType ==
    ASSUME TypeOK, NEW technology \in Technology, NEW wait \in Nat,
           NEW next \in Control, SetBand(technology, wait, next)
    PROVE  TypeOK'
  <1> PICK r \in Reply, d \in RequestTime(1) :
          /\ preferred' = IF r \in {"ok", "lost"} THEN technology
                                                  ELSE preferred
          /\ \/ /\ pc' = next
                /\ Elapse(d + wait)
                /\ UNCHANGED <<locals, counters>>
             \/ FallBackToReboot /\ Elapse(d)
    BY DEF SetBand
  <1>1. ControlType /\ d \in Nat /\ d + wait \in Nat
    BY TypeOKControl, RequestTimeType
  <1>2. ControlType'
    BY <1>1, FallBackType DEF ControlType, locals, counters
  <1>3. ClockType'
    BY <1>1, ElapseType DEF ClockType
  <1>4. RestType'
    BY DEF TypeOK, RestType, SetBand, interrupt
  <1> QED
    BY <1>2, <1>3, <1>4 DEF TypeOK, ControlType, ClockType, RestType

LEMMA RebootType == TypeOK /\ Reboot => TypeOK'
  <1> SUFFICES ASSUME TypeOK, Reboot
               PROVE  TypeOK'
    OBVIOUS
  <1> PICK r \in Reply, d \in RequestTime(1) :
          \/ /\ TickersElapse(d + WaitAfter)
             /\ last_reboot' = Remembered
             /\ IF r = "ok"
                  THEN \E e \in 0..d : Restart(e + WaitAfter)
                  ELSE /\ uptime' = Aged(uptime, d + WaitAfter)
                       /\ UNCHANGED session
             /\ RecoverySucceeds
          \/ /\ TickersElapse(d)
             /\ last_reboot' = Aged(last_reboot, d)
             /\ IF r = "lost"
                  THEN \E e \in 0..d : Restart(e)
                  ELSE uptime' = Aged(uptime, d) /\ UNCHANGED session
             /\ RecoveryFails
    BY DEF Reboot
  <1>1. d \in Nat /\ d + WaitAfter \in Nat /\ WaitAfter \in Nat /\ ControlType
    BY RequestTimeType, MonitorAssumption, TypeOKControl
  <1>2. ControlType'
    BY <1>1, RecoverySucceedsType, RecoveryFailsType
  <1>3. last_reboot \in Ages /\ uptime \in Ages /\ session \in SessionState
    BY DEF TypeOK
  <1>4. ASSUME NEW e \in Nat, Restart(e)
        PROVE  uptime' \in Ages /\ session' \in SessionState
    BY <1>3, <1>4, MonitorAssumption
    DEF Restart, Lesser, Ages, SessionState
  <1>5. uptime' \in Ages /\ session' \in SessionState
    <2>1. \A e \in 0..d : e \in Nat /\ e + WaitAfter \in Nat
      BY <1>1
    <2> QED
      BY <1>1, <1>3, <1>4, <2>1, AgedType
  <1>6. last_reboot' \in Ages
    <2>1. Remembered \in Ages
      BY <1>1, AgedType, MonitorAssumption DEF Remembered, Ages
    <2> QED
      BY <1>1, <1>3, <2>1, AgedType
  <1>7. ClockType'
    BY <1>1, <1>5, <1>6, TickersType DEF ClockType
  <1>8. RestType'
    BY <1>5 DEF Reboot, TypeOK, RestType, interrupt, router, preference
  <1> QED
    BY <1>2, <1>7, <1>8 DEF TypeOK, ControlType, ClockType, RestType

(* TypeOK is not inductive: Restore writes original to the router, so what *)
(* try_reload_recovery has read must be known to be there.                 *)
OriginalRead == pc \in {"switch", "restore"} => original # "none"

(* Every step preserves the types.                                         *)
LEMMA NextType == TypeOK /\ OriginalRead /\ [Next]_vars => TypeOK'
  <1> SUFFICES ASSUME TypeOK, OriginalRead, [Next]_vars
               PROVE  TypeOK'
    OBVIOUS
  <1> USE DEF interrupt, router, preference
  <1>c. ControlType
    BY TypeOKControl
  <1>d. /\ 0..CheckTimeout \subseteq Nat /\ RequestTime(1) \subseteq Nat
        /\ RequestTime(3) \subseteq Nat /\ RequestTime(4) \subseteq Nat
    BY RequestTimeType
  <1>e. /\ Temporary(original) \in Technology
        /\ SwitchWait \in Nat /\ RestoreWait \in Nat
    BY MonitorAssumption DEF Temporary
  <1>1. CASE TickInternet
    <2>1. internet_lag - InternetInterval \in -InternetInterval..MaxLag
      BY <1>1, MonitorAssumption DEF TickInternet, TypeOK
    <2> QED
      BY <1>1, <2>1
      DEF TickInternet, Dropped, TypeOK, locals, counters, Control
  <1>2. CASE TickSignal
    <2>1. signal_lag - SignalInterval \in -SignalInterval..MaxLag
      BY <1>2, MonitorAssumption DEF TickSignal, TypeOK
    <2> QED
      BY <1>2, <2>1
      DEF TickSignal, Dropped, TypeOK, locals, counters, Control, Signal
  <1>3. CASE Park
    BY <1>3 DEF Park, TypeOK, locals, counters, clock, Control, Loop
  <1>4. CASE Wait
    <2>1. ClockType'
      BY <1>4, ElapseType DEF Wait, ClockType
    <2> QED
      BY <1>4, <2>1 DEF Wait, TypeOK, ClockType, locals, counters
  <1>5. CASE Shutdown
    BY <1>5 DEF Shutdown, TypeOK, locals, counters, clock, Control
  <1>6. CASE Logout
    <2>1. ClockType'
      BY <1>6, <1>d, ElapseUpTo DEF Logout
    <2>2. session' \in SessionState
      BY <1>6 DEF Logout, KeysAfterLogout, SessionState, TypeOK
    <2> QED
      BY <1>6, <2>1, <2>2
      DEF Logout, TypeOK, ClockType, locals, counters, Control, Halted
  <1>7. CASE InternetCheck
    <2>1. ClockType'
      BY <1>7, <1>d, ElapseUpTo DEF InternetCheck
    <2>2. ControlType'
      BY <1>7, <1>c, InternetResultType DEF InternetCheck
    <2>3. RestType'
      BY <1>7 DEF InternetCheck, TypeOK, RestType
    <2> QED
      BY <2>1, <2>2, <2>3 DEF TypeOK, ControlType, ClockType, RestType
  <1>8. CASE FetchSignal
    <2>1. ClockType'
      BY <1>8, <1>d, ElapseUpTo DEF FetchSignal
    <2>2. ControlType'
      <3>1. CASE SignalHealthy \/ SignalDegraded \/ SignalError
        BY <3>1, <1>c, SignalResultType
      <3>2. CASE pc' = "signal_refresh" /\ UNCHANGED <<locals, counters>>
        BY <3>2, <1>c DEF ControlType, locals, counters, Control, Signal
      <3> QED
        BY <1>8, <3>1, <3>2 DEF FetchSignal
    <2>3. RestType'
      BY <1>8 DEF FetchSignal, TypeOK, RestType
    <2> QED
      BY <2>1, <2>2, <2>3 DEF TypeOK, ControlType, ClockType, RestType
  <1>9. CASE RefreshForSignal
    <2>1. ClockType'
      BY <1>9, <1>d, ElapseUpTo DEF RefreshForSignal
    <2>2. ControlType'
      <3>1. CASE SignalError
        BY <3>1, <1>c, SignalResultType
      <3>2. CASE pc' = "signal_refetch" /\ UNCHANGED <<locals, counters>>
        BY <3>2, <1>c DEF ControlType, locals, counters, Control, Signal
      <3> QED
        BY <1>9, <3>1, <3>2 DEF RefreshForSignal
    <2>3. RestType'
      BY <1>9, EnsureAuthenticatedType
      DEF RefreshForSignal, EnsureAuthenticated, TypeOK, RestType
    <2> QED
      BY <2>1, <2>2, <2>3 DEF TypeOK, ControlType, ClockType, RestType
  <1>10. CASE Authenticate
    <2>1. ClockType'
      BY <1>10, <1>d, ElapseUpTo DEF Authenticate
    <2>2. ControlType'
      <3>1. CASE FallBackToReboot \/ RecoveryFails
        BY <3>1, <1>c, FallBackType, RecoveryFailsType
      <3>2. CASE pc' = "get_band" /\ UNCHANGED <<locals, counters>>
        BY <3>2, <1>c
        DEF ControlType, locals, counters, Control, Recovery, Reload
      <3> QED
        BY <1>10, <3>1, <3>2 DEF Authenticate
    <2>3. RestType'
      BY <1>10, EnsureAuthenticatedType DEF Authenticate, TypeOK, RestType
    <2> QED
      BY <2>1, <2>2, <2>3 DEF TypeOK, ControlType, ClockType, RestType
  <1>11. CASE GetBand
    <2>1. ClockType'
      BY <1>11, <1>d, ElapseUpTo DEF GetBand
    <2>2. ControlType'
      <3>1. CASE FallBackToReboot
        BY <3>1, <1>c, FallBackType
      <3>2. CASE /\ original' = preferred /\ pc' = "switch"
                 /\ UNCHANGED <<trigger, reboot_allowed, counters>>
        BY <3>2, <1>c
        DEF TypeOK, ControlType, counters, Control, Recovery, Reload
      <3> QED
        BY <1>11, <3>1, <3>2 DEF GetBand
    <2>3. RestType'
      BY <1>11 DEF GetBand, TypeOK, RestType
    <2> QED
      BY <2>1, <2>2, <2>3 DEF TypeOK, ControlType, ClockType, RestType
  <1>12. CASE Switch
    <2>1. "restore" \in Control
      BY DEF Control, Recovery, Reload
    <2> QED
      BY <1>12, <1>e, <2>1, SetBandType DEF Switch
  <1>13. CASE Restore
    <2>1. "internet_check" \in Control
      BY DEF Control
    <2>2. original \in Technology
      BY <1>13 DEF Restore, OriginalRead, TypeOK
    <2> QED
      BY <1>13, <1>e, <2>1, <2>2, SetBandType DEF Restore
  <1>14. CASE Reboot
    BY <1>14, RebootType
  <1>15. CASE Collect
    <2>1. ClockType'
      BY <1>15, <1>d, ElapseUpTo DEF Collect
    <2> QED
      BY <1>15, <2>1
      DEF Collect, TypeOK, ClockType, locals, counters, Control, Loop
  <1>16. CASE CtrlC
    BY <1>16 DEF CtrlC, TypeOK, locals, counters, clock, Control, Halted
  <1>17. CASE SessionExpires
    BY <1>17
    DEF SessionExpires, Expire, TypeOK, locals, counters, clock, SessionState
  <1>18. CASE \E technology \in AdminChoices : AdminSets(technology)
    BY <1>18, MonitorAssumption
    DEF AdminSets, TypeOK, locals, counters, clock
  <1>19. CASE UNCHANGED vars
    BY <1>19 DEF vars, TypeOK, locals, counters, clock
  <1> QED
    BY <1>1, <1>2, <1>3, <1>4, <1>5, <1>6, <1>7, <1>8, <1>9, <1>10, <1>11,
       <1>12, <1>13, <1>14, <1>15, <1>16, <1>17, <1>18, <1>19
    DEF Next, Task, Environment, Terminated

(* Where a handler's sub-step can leave the task: never between the two    *)
(* writes of a reload.                                                     *)
LEMMA AwayFromReload ==
    ASSUME \/ RecoverySucceeds \/ RecoveryFails
           \/ FallBackToReboot
           \/ InternetHealthy \/ InternetDegraded
           \/ SignalHealthy \/ SignalDegraded \/ SignalError
    PROVE  pc' \notin {"switch", "restore"}
  BY DEF RecoverySucceeds, RecoveryFails, EndRecovery, FallBackToReboot,
         InternetHealthy, InternetDegraded, SignalHealthy, SignalDegraded,
         SignalError, ConnectivityPassed, ConnectivityFailed,
         ConnectivityVerified, SignalPassed, SignalFailed, SignalUnknown,
         StartRecovery, Return, AfterHandler

LEMMA NextOriginal == TypeOK /\ OriginalRead /\ [Next]_vars => OriginalRead'
  <1> SUFFICES ASSUME TypeOK, OriginalRead, [Next]_vars,
                      pc' \in {"switch", "restore"}
               PROVE  original' # "none"
    BY DEF OriginalRead
  <1>1. CASE GetBand
    BY <1>1, AwayFromReload, MonitorAssumption DEF GetBand, TypeOK
  <1>2. CASE Switch
    BY <1>2, AwayFromReload DEF Switch, SetBand, OriginalRead, locals
  <1>3. CASE UNCHANGED <<pc, original>>
    BY <1>3 DEF OriginalRead
  <1>4. CASE pc' \notin {"switch", "restore"}
    BY <1>4
  <1>5. CASE Task
    <2>1. CASE \/ TickInternet \/ TickSignal \/ Park \/ Shutdown \/ Logout
               \/ Collect
      BY <2>1, <1>4
      DEF TickInternet, TickSignal, Park, Shutdown, Logout, Collect
    <2>2. CASE Wait
      BY <2>2, <1>3 DEF Wait, locals
    <2>3. CASE InternetCheck \/ FetchSignal \/ RefreshForSignal
      BY <2>3, <1>4, AwayFromReload
      DEF InternetCheck, FetchSignal, RefreshForSignal
    <2>4. CASE Authenticate \/ Restore \/ Reboot
      BY <2>4, <1>4, AwayFromReload
      DEF Authenticate, Restore, SetBand, Reboot
    <2> QED
      BY <1>1, <1>2, <1>5, <2>1, <2>2, <2>3, <2>4 DEF Task
  <1>6. CASE Environment
    BY <1>6, <1>3, <1>4
    DEF Environment, CtrlC, SessionExpires, AdminSets, locals
  <1>7. CASE UNCHANGED vars
    BY <1>7, <1>3 DEF vars, locals
  <1> QED
    BY <1>5, <1>6, <1>7 DEF Next, Terminated

LEMMA InitOriginal == Init => OriginalRead
  BY DEF Init, OriginalRead

(* Every variable keeps to its type, for every value of the constants.     *)
THEOREM TypeCorrect == Spec => []TypeOK
  <1>1. Init => TypeOK /\ OriginalRead
    BY InitType, InitOriginal
  <1>2. TypeOK /\ OriginalRead /\ [Next]_vars => (TypeOK /\ OriginalRead)'
    BY NextType, NextOriginal
  <1> QED
    BY <1>1, <1>2, PTL DEF Spec

-----------------------------------------------------------------------------
(* The cooldown.                                                           *)

(* reboot_allowed is computed once and used much later.  It stays true of  *)
(* last_reboot meanwhile, because last_reboot only ages inside recovery.   *)
PermissionHolds ==
    /\ reboot_allowed => Cooled(last_reboot)
    /\ pc = "reboot" => reboot_allowed

LEMMA CooledStays ==
    ASSUME NEW age \in Ages, NEW d \in Nat, Cooled(age)
    PROVE  Cooled(Aged(age, d))
  BY MonitorAssumption DEF Cooled, Aged, Ages, Never, Lesser

LEMMA ElapseKeepsCooled ==
    ASSUME TypeOK, PermissionHolds,
           NEW D \in SUBSET Nat, \E d \in D : Elapse(d)
    PROVE  reboot_allowed => Cooled(last_reboot')
  <1>1. last_reboot \in Ages
    BY DEF TypeOK
  <1> QED
    BY <1>1, CooledStays DEF PermissionHolds, Elapse

(* Any end of a handler's sub-step keeps it, if time kept it.              *)
LEMMA ResultKeepsPermission ==
    ASSUME TypeOK, PermissionHolds, reboot_allowed => Cooled(last_reboot'),
           \/ RecoverySucceeds \/ RecoveryFails \/ FallBackToReboot
           \/ InternetHealthy \/ InternetDegraded
           \/ SignalHealthy \/ SignalDegraded \/ SignalError
           \/ UNCHANGED locals /\ pc' # "reboot"
    PROVE  PermissionHolds'
  <1>1. CASE RecoverySucceeds \/ RecoveryFails \/ FallBackToReboot
    BY <1>1
    DEF PermissionHolds, RecoverySucceeds, RecoveryFails, EndRecovery,
        FallBackToReboot, locals, AfterHandler
  <1>2. CASE UNCHANGED locals /\ pc' # "reboot"
    BY <1>2 DEF PermissionHolds, locals
  <1>3. ASSUME NEW t, Return(t)
        PROVE  PermissionHolds'
    BY <1>2, <1>3 DEF Return, AfterHandler
  <1>4. ASSUME NEW t, StartRecovery(t)
        PROVE  PermissionHolds'
    BY <1>4 DEF StartRecovery, PermissionHolds
  <1>5. CASE InternetHealthy \/ InternetDegraded
    BY <1>1, <1>2, <1>3, <1>4, <1>5
    DEF InternetHealthy, InternetDegraded, ConnectivityPassed,
        ConnectivityFailed, ConnectivityVerified
  <1>6. CASE SignalHealthy \/ SignalDegraded \/ SignalError
    BY <1>1, <1>2, <1>3, <1>4, <1>6
    DEF SignalHealthy, SignalDegraded, SignalError, SignalPassed,
        SignalFailed, SignalUnknown
  <1> QED
    BY <1>1, <1>2, <1>5, <1>6

LEMMA SetBandKeepsPermission ==
    ASSUME TypeOK, PermissionHolds, NEW technology, NEW wait \in Nat,
           NEW next, next # "reboot", SetBand(technology, wait, next)
    PROVE  PermissionHolds'
  <1> PICK r \in Reply, d \in RequestTime(1) :
          \/ pc' = next /\ Elapse(d + wait) /\ UNCHANGED <<locals, counters>>
          \/ FallBackToReboot /\ Elapse(d)
    BY DEF SetBand
  <1>1. d \in Nat /\ d + wait \in Nat
    BY RequestTimeType
  <1>2. reboot_allowed => Cooled(last_reboot')
    BY <1>1, ElapseKeepsCooled
  <1> QED
    BY <1>2, ResultKeepsPermission

LEMMA NextPermission ==
    TypeOK /\ PermissionHolds /\ [Next]_vars => PermissionHolds'
  <1> SUFFICES ASSUME TypeOK, PermissionHolds, [Next]_vars
               PROVE  PermissionHolds'
    OBVIOUS
  <1>c. ASSUME UNCHANGED <<locals, last_reboot>>, pc' # "reboot" \/ pc' = pc
        PROVE  PermissionHolds'
    BY <1>c DEF PermissionHolds, locals
  <1>d. /\ 0..CheckTimeout \subseteq Nat /\ RequestTime(1) \subseteq Nat
        /\ RequestTime(3) \subseteq Nat /\ RequestTime(4) \subseteq Nat
    BY RequestTimeType
  <1>1. CASE TickInternet \/ TickSignal \/ Park \/ Shutdown
    BY <1>1, <1>c DEF TickInternet, TickSignal, Park, Shutdown, clock
  <1>2. CASE Wait
    <2>1. reboot_allowed => Cooled(last_reboot')
      BY <1>2, ElapseKeepsCooled DEF Wait
    <2> QED
      BY <1>2, <2>1, ResultKeepsPermission DEF Wait
  <1>3. CASE Logout \/ Collect
    <2>1. reboot_allowed => Cooled(last_reboot')
      BY <1>3, <1>d, ElapseKeepsCooled DEF Logout, Collect
    <2> QED
      BY <1>3, <2>1, ResultKeepsPermission DEF Logout, Collect
  <1>4. CASE InternetCheck
    <2>1. reboot_allowed => Cooled(last_reboot')
      BY <1>4, <1>d, ElapseKeepsCooled DEF InternetCheck
    <2> QED
      BY <1>4, <2>1, ResultKeepsPermission DEF InternetCheck
  <1>5. CASE FetchSignal \/ RefreshForSignal
    <2>1. reboot_allowed => Cooled(last_reboot')
      BY <1>5, <1>d, ElapseKeepsCooled DEF FetchSignal, RefreshForSignal
    <2> QED
      BY <1>5, <2>1, ResultKeepsPermission DEF FetchSignal, RefreshForSignal
  <1>6. CASE Authenticate
    <2>1. reboot_allowed => Cooled(last_reboot')
      BY <1>6, <1>d, ElapseKeepsCooled DEF Authenticate
    <2> QED
      BY <1>6, <2>1, ResultKeepsPermission DEF Authenticate
  <1>7. CASE GetBand
    <2>1. reboot_allowed => Cooled(last_reboot')
      BY <1>7, <1>d, ElapseKeepsCooled DEF GetBand
    <2>2. CASE FallBackToReboot
      BY <2>1, <2>2, ResultKeepsPermission
    <2>3. CASE pc' = "switch" /\ UNCHANGED reboot_allowed
      BY <2>1, <2>3 DEF PermissionHolds
    <2> QED
      BY <1>7, <2>2, <2>3 DEF GetBand
  <1>8. CASE Switch \/ Restore
    BY <1>8, SetBandKeepsPermission, MonitorAssumption DEF Switch, Restore
  <1>9. CASE Reboot
    BY <1>9
    DEF Reboot, RecoverySucceeds, RecoveryFails, EndRecovery, AfterHandler,
        PermissionHolds
  <1>10. CASE Environment
    BY <1>10, <1>c
    DEF Environment, CtrlC, SessionExpires, AdminSets, clock
  <1>11. CASE UNCHANGED vars
    BY <1>11, <1>c DEF vars, clock
  <1> QED
    BY <1>1, <1>2, <1>3, <1>4, <1>5, <1>6, <1>7, <1>8, <1>9, <1>10, <1>11
    DEF Next, Task, Terminated

LEMMA InitPermission == Init => PermissionHolds
  BY DEF Init, PermissionHolds

LEMMA PermissionIsInvariant ==
    Spec => [](TypeOK /\ OriginalRead /\ PermissionHolds)
  <1>1. Init => TypeOK /\ OriginalRead /\ PermissionHolds
    BY InitType, InitOriginal, InitPermission
  <1>2. TypeOK /\ OriginalRead /\ PermissionHolds /\ [Next]_vars
        => (TypeOK /\ OriginalRead /\ PermissionHolds)'
    BY NextType, NextOriginal, NextPermission
  <1> QED
    BY <1>1, <1>2, PTL DEF Spec

(* No reboot request is sent before the cooldown that run() knows of has   *)
(* elapsed, although it was looked at before recovery began.               *)
THEOREM CooldownIsKept == Spec => []CooldownKept
  <1>1. PermissionHolds => CooldownKept
    BY DEF PermissionHolds, CooldownKept, Cooled
  <1> QED
    BY <1>1, PermissionIsInvariant, PTL

-----------------------------------------------------------------------------
(* The spacing of reboots, as long as no answer to a request is lost.      *)

(* run() remembers every restart of the router, and takes none to be older *)
(* than it is.                                                             *)
RestartsAreRemembered ==
    uptime # Never => last_reboot # Never /\ last_reboot <= uptime

LEMMA AgedKeepsOrder ==
    ASSUME NEW a \in Ages, NEW b \in Ages, NEW d \in Nat,
           b # Never => a # Never /\ a <= b
    PROVE  Aged(b, d) # Never => Aged(a, d) # Never /\ Aged(a, d) <= Aged(b, d)
  BY MonitorAssumption DEF Aged, Ages, Never, Lesser

LEMMA ElapseKeepsOrder ==
    ASSUME TypeOK, RestartsAreRemembered,
           NEW D \in SUBSET Nat, \E d \in D : Elapse(d)
    PROVE  RestartsAreRemembered'
  <1>1. last_reboot \in Ages /\ uptime \in Ages
    BY DEF TypeOK
  <1> QED
    BY <1>1, AgedKeepsOrder DEF Elapse, RestartsAreRemembered

LEMMA SetBandKeepsOrder ==
    ASSUME TypeOK, RestartsAreRemembered, NEW technology, NEW wait \in Nat,
           NEW next, SetBand(technology, wait, next)
    PROVE  RestartsAreRemembered'
  <1> PICK r \in Reply, d \in RequestTime(1) : Elapse(d + wait) \/ Elapse(d)
    BY DEF SetBand
  <1>1. d \in Nat /\ d + wait \in Nat
    BY RequestTimeType
  <1> QED
    BY <1>1, ElapseKeepsOrder

LEMMA NextRemembered ==
    ASSUME "lost" \notin LiveReplies
    PROVE  TypeOK /\ RestartsAreRemembered /\ [Next]_vars
           => RestartsAreRemembered'
  <1> SUFFICES ASSUME TypeOK, RestartsAreRemembered, [Next]_vars
               PROVE  RestartsAreRemembered'
    OBVIOUS
  <1>c. ASSUME UNCHANGED <<last_reboot, uptime>>
        PROVE  RestartsAreRemembered'
    BY <1>c DEF RestartsAreRemembered
  <1>d. /\ 0..CheckTimeout \subseteq Nat /\ RequestTime(1) \subseteq Nat
        /\ RequestTime(3) \subseteq Nat /\ RequestTime(4) \subseteq Nat
    BY RequestTimeType
  <1>1. CASE TickInternet \/ TickSignal \/ Park \/ Shutdown \/ Environment
    BY <1>1, <1>c
    DEF TickInternet, TickSignal, Park, Shutdown, Environment, CtrlC,
        SessionExpires, AdminSets, clock
  <1>2. CASE \/ Wait \/ Logout \/ Collect \/ InternetCheck \/ FetchSignal
             \/ RefreshForSignal \/ Authenticate \/ GetBand
    <2>1. \E D \in SUBSET Nat : \E d \in D : Elapse(d)
      BY <1>2, <1>d
      DEF Wait, Logout, Collect, InternetCheck, FetchSignal,
          RefreshForSignal, Authenticate, GetBand
    <2> QED
      BY <2>1, ElapseKeepsOrder
  <1>3. CASE Switch \/ Restore
    BY <1>3, SetBandKeepsOrder, MonitorAssumption DEF Switch, Restore
  <1>4. CASE Reboot
    <2> PICK r \in Reply, d \in RequestTime(1) :
            /\ Answer(r)
            /\ \/ /\ last_reboot' = Remembered
                  /\ IF r = "ok"
                       THEN \E e \in 0..d : Restart(e + WaitAfter)
                       ELSE uptime' = Aged(uptime, d + WaitAfter)
               \/ /\ last_reboot' = Aged(last_reboot, d)
                  /\ IF r = "lost"
                       THEN \E e \in 0..d : Restart(e)
                       ELSE uptime' = Aged(uptime, d)
      BY <1>4 DEF Reboot
    <2>1. r # "lost"
      BY SessionAssumption DEF Answer, Replies
    <2>2. d \in Nat /\ WaitAfter \in Nat /\ MinInterval \in Nat
      BY RequestTimeType, MonitorAssumption
    <2>3. last_reboot \in Ages /\ uptime \in Ages
      BY DEF TypeOK
    <2>4. CASE /\ last_reboot' = Remembered
               /\ \E e \in 0..d : Restart(e + WaitAfter)
      <3>1. PICK e \in 0..d : uptime' = Lesser(e + WaitAfter, MinInterval)
        BY <2>4 DEF Restart
      <3> QED
        BY <2>2, <2>4, <3>1
        DEF Remembered, Aged, Never, Lesser, RestartsAreRemembered
    <2>5. CASE /\ last_reboot' = Remembered
               /\ uptime' = Aged(uptime, d + WaitAfter)
      BY <2>2, <2>3, <2>5
      DEF Remembered, Aged, Ages, Never, Lesser, RestartsAreRemembered
    <2>6. CASE /\ last_reboot' = Aged(last_reboot, d)
               /\ uptime' = Aged(uptime, d)
      BY <2>2, <2>3, <2>6, AgedKeepsOrder DEF RestartsAreRemembered
    <2> QED
      BY <2>1, <2>4, <2>5, <2>6
  <1>5. CASE UNCHANGED vars
    BY <1>5, <1>c DEF vars, clock
  <1> QED
    BY <1>1, <1>2, <1>3, <1>4, <1>5 DEF Next, Task, Terminated

(* As long as the answer to a reboot request is not lost, the router is    *)
(* never rebooted within min_interval of its last restart.                 *)
THEOREM RebootSpacing ==
    ASSUME "lost" \notin LiveReplies
    PROVE  Spec => []RebootsAreSpaced
  <1>1. Init => RestartsAreRemembered
    BY DEF Init, RestartsAreRemembered
  <1>2. TypeOK /\ RestartsAreRemembered /\ [Next]_vars
        => RestartsAreRemembered'
    BY NextRemembered
  <1>3. TypeOK /\ PermissionHolds /\ RestartsAreRemembered
        => RebootsAreSpaced
    BY MonitorAssumption
    DEF TypeOK, PermissionHolds, RestartsAreRemembered, RebootsAreSpaced,
        Cooled, Ages, Never
  <1> QED
    BY <1>1, <1>2, <1>3, PermissionIsInvariant, PTL DEF Spec
=============================================================================
