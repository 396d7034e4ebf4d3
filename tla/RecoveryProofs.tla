---------------------------- MODULE RecoveryProofs ---------------------------
(* Proofs about what recovery does and what it leaves behind: the reboot   *)
(* it sends, the counters it clears and the preference it restores.        *)
EXTENDS MonitorProofs

-----------------------------------------------------------------------------
(* What the task knows at each await: in which recovery it is, and what    *)
(* the last internet check said.                                           *)
TriggerFits ==
    /\ pc \in Loop \cup {"collect"} => trigger = "none"
    /\ pc \in Recovery => trigger # "none"
    /\ pc \in Signal => trigger # "Connectivity"

EvidenceFits ==
    /\ pc \in Recovery /\ trigger = "Connectivity" => last_internet = "degraded"
    /\ pc \in Signal /\ trigger = "SignalQuality" => last_internet = "healthy"

KnowsWhy == TriggerFits /\ EvidenceFits

(* The ends of recovery lead out of it.                                    *)
LEMMA EndFits ==
    ASSUME RecoverySucceeds \/ RecoveryFails
    PROVE  KnowsWhy'
  <1>1. pc' \in {"select", "collect"} /\ trigger' = "none"
    BY DEF RecoverySucceeds, RecoveryFails, EndRecovery, AfterHandler
  <1> QED
    BY <1>1
    DEF KnowsWhy, TriggerFits, EvidenceFits, Loop, Recovery, Reload, Signal

LEMMA ReturnFits ==
    ASSUME trigger = "none", NEW t, Return(t)
    PROVE  KnowsWhy'
  <1>1. pc' \in {"select", "collect"} /\ trigger' = "none"
    BY DEF Return, AfterHandler, locals
  <1> QED
    BY <1>1
    DEF KnowsWhy, TriggerFits, EvidenceFits, Loop, Recovery, Reload, Signal

(* Falling back to the reboot keeps the reason recovery was started for,   *)
(* if the last check is still what it was or has failed again.             *)
LEMMA FallBackFits ==
    ASSUME FallBackToReboot, trigger # "none",
           trigger = "Connectivity" => last_internet' = "degraded"
    PROVE  KnowsWhy'
  <1>1. CASE RecoveryFails
    BY <1>1, EndFits
  <1>2. CASE pc' = "reboot" /\ UNCHANGED locals
    BY <1>2
    DEF KnowsWhy, TriggerFits, EvidenceFits, Loop, Recovery, Reload, Signal,
        locals
  <1> QED
    BY <1>1, <1>2 DEF FallBackToReboot

LEMMA StartFits ==
    ASSUME NEW t \in {"Connectivity", "SignalQuality"}, StartRecovery(t),
           t = "Connectivity" => last_internet' = "degraded"
    PROVE  KnowsWhy'
  BY DEF StartRecovery, KnowsWhy, TriggerFits, EvidenceFits, Loop, Recovery,
         Reload, Signal

(* Moving on inside recovery, and inside the signal check.                 *)
LEMMA StepFits ==
    ASSUME KnowsWhy, UNCHANGED <<trigger, last_internet>>,
           \/ pc \in Recovery /\ pc' \in Recovery \cup {"internet_check"}
           \/ pc \in Signal /\ pc' \in Signal
    PROVE  KnowsWhy'
  BY DEF KnowsWhy, TriggerFits, EvidenceFits, Loop, Recovery, Reload, Signal

LEMMA SetBandFits ==
    ASSUME KnowsWhy, pc \in Recovery, NEW technology, NEW wait,
           NEW next \in Recovery \cup {"internet_check"},
           SetBand(technology, wait, next)
    PROVE  KnowsWhy'
  <1>1. CASE pc' = next /\ UNCHANGED locals
    BY <1>1, StepFits DEF SetBand, locals
  <1>2. CASE FallBackToReboot
    BY <1>2, FallBackFits DEF SetBand, KnowsWhy, TriggerFits, EvidenceFits
  <1> QED
    BY <1>1, <1>2 DEF SetBand

LEMMA InternetCheckFits == KnowsWhy /\ InternetCheck => KnowsWhy'
  <1> SUFFICES ASSUME KnowsWhy, InternetCheck
               PROVE  KnowsWhy'
    OBVIOUS
  <1>1. CASE InternetHealthy /\ last_internet' = "healthy"
    <2>1. CASE trigger = "none"
      BY <1>1, <2>1, ReturnFits DEF InternetHealthy, ConnectivityPassed
    <2>2. CASE RecoverySucceeds
      BY <2>2, EndFits
    <2>3. CASE /\ trigger = "SignalQuality" /\ pc' = "signal_check"
               /\ UNCHANGED locals
      BY <1>1, <2>3
      DEF KnowsWhy, TriggerFits, EvidenceFits, Loop, Recovery, Reload,
          Signal, locals
    <2> QED
      BY <1>1, <2>1, <2>2, <2>3 DEF InternetHealthy, ConnectivityVerified
  <1>2. CASE InternetDegraded /\ last_internet' = "degraded"
    BY <1>2, ReturnFits, StartFits, FallBackFits
    DEF InternetDegraded, ConnectivityFailed
  <1> QED
    BY <1>1, <1>2 DEF InternetCheck

LEMMA SignalResultFits ==
    ASSUME KnowsWhy, pc \in Signal,
           SignalHealthy \/ SignalDegraded \/ SignalError
    PROVE  KnowsWhy'
  <1>1. trigger # "Connectivity"
    BY DEF KnowsWhy, TriggerFits
  <1>2. CASE trigger = "none"
    BY <1>1, <1>2, ReturnFits, StartFits
    DEF SignalHealthy, SignalDegraded, SignalError, SignalPassed,
        SignalFailed, SignalUnknown
  <1>3. CASE trigger # "none"
    BY <1>1, <1>3, EndFits, FallBackFits
    DEF SignalHealthy, SignalDegraded, SignalError
  <1> QED
    BY <1>2, <1>3

LEMMA NextFits == KnowsWhy /\ [Next]_vars => KnowsWhy'
  <1> SUFFICES ASSUME KnowsWhy, [Next]_vars
               PROVE  KnowsWhy'
    OBVIOUS
  <1>c. ASSUME UNCHANGED <<pc, trigger, last_internet>>
        PROVE  KnowsWhy'
    BY <1>c DEF KnowsWhy, TriggerFits, EvidenceFits
  <1>d. ASSUME pc' \notin Recovery \cup Signal, trigger' = "none"
        PROVE  KnowsWhy'
    BY <1>d DEF KnowsWhy, TriggerFits, EvidenceFits
  <1>1. CASE TickInternet \/ TickSignal \/ Park \/ Wait
    <2>1. trigger = "none" /\ trigger' = "none"
      BY <1>1
      DEF TickInternet, TickSignal, Park, Wait, KnowsWhy, TriggerFits, Loop,
          locals
    <2>2. pc' \notin Recovery
      BY <1>1
      DEF TickInternet, TickSignal, Park, Wait, Recovery, Reload
    <2> QED
      BY <2>1, <2>2 DEF KnowsWhy, TriggerFits, EvidenceFits
  <1>2. CASE Shutdown \/ Logout
    <2>1. pc' \in {"logout", "stopped"}
      BY <1>2 DEF Shutdown, Logout
    <2> QED
      BY <2>1
      DEF KnowsWhy, TriggerFits, EvidenceFits, Loop, Recovery, Reload, Signal
  <1>3. CASE Collect
    BY <1>3, <1>d
    DEF Collect, KnowsWhy, TriggerFits, locals, Recovery, Reload, Signal
  <1>4. CASE InternetCheck
    BY <1>4, InternetCheckFits
  <1>5. CASE FetchSignal
    <2>1. pc \in Signal
      BY <1>5 DEF FetchSignal, Signal
    <2>2. CASE SignalHealthy \/ SignalDegraded \/ SignalError
      BY <2>1, <2>2, SignalResultFits
    <2>3. CASE pc' = "signal_refresh" /\ UNCHANGED locals
      BY <1>5, <2>1, <2>3, StepFits DEF FetchSignal, Signal, locals
    <2> QED
      BY <1>5, <2>2, <2>3 DEF FetchSignal
  <1>6. CASE RefreshForSignal
    <2>1. pc \in Signal
      BY <1>6 DEF RefreshForSignal, Signal
    <2>2. CASE SignalError
      BY <2>1, <2>2, SignalResultFits
    <2>3. CASE pc' = "signal_refetch" /\ UNCHANGED locals
      BY <1>6, <2>1, <2>3, StepFits DEF RefreshForSignal, Signal, locals
    <2> QED
      BY <1>6, <2>2, <2>3 DEF RefreshForSignal
  <1>7. CASE Authenticate \/ GetBand
    <2>1. pc \in Recovery /\ UNCHANGED last_internet
      BY <1>7 DEF Authenticate, GetBand, Recovery, Reload
    <2>2. CASE FallBackToReboot \/ RecoveryFails
      BY <2>1, <2>2, EndFits, FallBackFits
      DEF KnowsWhy, TriggerFits, EvidenceFits
    <2>3. CASE pc' \in {"get_band", "switch"} /\ UNCHANGED trigger
      BY <2>1, <2>3, StepFits DEF Recovery, Reload
    <2> QED
      BY <1>7, <2>2, <2>3 DEF Authenticate, GetBand, locals
  <1>8. CASE Switch \/ Restore
    BY <1>8, SetBandFits DEF Switch, Restore, Recovery, Reload
  <1>9. CASE Reboot
    BY <1>9, EndFits DEF Reboot
  <1>10. CASE CtrlC
    <2>1. CASE pc' = pc
      BY <1>10, <2>1, <1>c DEF CtrlC, locals
    <2>2. CASE pc' = "killed"
      BY <2>2
      DEF KnowsWhy, TriggerFits, EvidenceFits, Loop, Recovery, Reload, Signal
    <2> QED
      BY <1>10, <2>1, <2>2 DEF CtrlC
  <1>11. CASE \/ SessionExpires
              \/ \E technology \in AdminChoices : AdminSets(technology)
    BY <1>11, <1>c DEF SessionExpires, AdminSets, locals
  <1>12. CASE UNCHANGED vars
    BY <1>12, <1>c DEF vars, locals
  <1> QED
    BY <1>1, <1>2, <1>3, <1>4, <1>5, <1>6, <1>7, <1>8, <1>9, <1>10, <1>11,
       <1>12
    DEF Next, Task, Environment, Terminated

LEMMA KnowsWhyIsInvariant == Spec => []KnowsWhy
  <1>1. Init => KnowsWhy
    BY DEF Init, KnowsWhy, TriggerFits, EvidenceFits, Loop, Recovery, Reload,
           Signal
  <1> QED
    BY <1>1, NextFits, PTL DEF Spec

(* A recovery for connectivity that reaches the reboot does so on the      *)
(* strength of the last check made, be it the verification of a reload.    *)
THEOREM RebootsNeedOutages == Spec => []RebootsAreForOutages
  <1>1. KnowsWhy => RebootsAreForOutages
    BY DEF KnowsWhy, EvidenceFits, RebootsAreForOutages, Recovery
  <1> QED
    BY <1>1, KnowsWhyIsInvariant, PTL

-----------------------------------------------------------------------------
(* The counters, as long as no refusal hides in a 200 body.                *)

LEMMA CountUpGrows ==
    ASSUME NEW max \in Nat, NEW n \in 0..max
    PROVE  ~(CountUp(n, max) < n)
  BY DEF CountUp, Lesser

(* The only steps that lower the count of failures without a healthy check *)
(* are those of reboot_router.                                             *)
LEMMA ResetStep ==
    ASSUME TypeOK, KnowsWhy, [Next]_vars, failure_count' < failure_count
    PROVE  last_internet' = "healthy" \/ Reboot
  <1>1. failure_count \in 0..InternetMaxRetries
    BY DEF TypeOK
  <1>2. ~(failure_count < failure_count)
    BY <1>1
  <1>3. ~UNCHANGED counters
    BY <1>2 DEF counters
  <1>4. ~RecoveryFails
    BY <1>3 DEF RecoveryFails
  <1>5. CASE InternetCheck
    <2>1. CASE InternetDegraded
      <3>1. CASE ConnectivityFailed
        BY <1>1, <3>1, CountUpGrows, MonitorAssumption
        DEF ConnectivityFailed
      <3> QED
        BY <1>3, <1>4, <2>1, <3>1 DEF InternetDegraded, FallBackToReboot
    <2> QED
      BY <1>5, <2>1 DEF InternetCheck
  <1>6. CASE FetchSignal \/ RefreshForSignal
    <2>1. pc \in Signal /\ UNCHANGED last_internet
      BY <1>6 DEF FetchSignal, RefreshForSignal, Signal
    <2>2. CASE trigger # "none"
      BY <2>1, <2>2 DEF KnowsWhy, TriggerFits, EvidenceFits, TypeOK
    <2>3. CASE trigger = "none"
      BY <1>2, <1>3, <1>6, <2>3
      DEF FetchSignal, RefreshForSignal, SignalHealthy, SignalDegraded,
          SignalError, SignalPassed, SignalFailed, SignalUnknown, counters
    <2> QED
      BY <2>2, <2>3
  <1>7. CASE Authenticate \/ GetBand \/ Switch \/ Restore
    BY <1>3, <1>4, <1>7
    DEF Authenticate, GetBand, Switch, Restore, SetBand, FallBackToReboot
  <1>8. CASE \/ TickInternet \/ TickSignal \/ Park \/ Wait \/ Shutdown
             \/ Logout \/ Collect \/ Environment \/ UNCHANGED vars
    BY <1>3, <1>8
    DEF TickInternet, TickSignal, Park, Wait, Shutdown, Logout, Collect,
        Environment, CtrlC, SessionExpires, AdminSets, vars
  <1> QED
    BY <1>5, <1>6, <1>7, <1>8 DEF Next, Task, Terminated

LEMMA HonestReboot ==
    ASSUME "refused_in_body" \notin LiveReplies \cup DeadReplies,
           Reboot, ~UNCHANGED counters
    PROVE  uptime' \in 0..(WaitAfter + CallTimeout)
  <1>1. PICK d \in RequestTime(1) : \E e \in 0..d : Restart(e + WaitAfter)
    BY DEF Reboot, Answer, Replies, RecoveryFails
  <1>2. PICK e \in 0..d : Restart(e + WaitAfter)
    BY <1>1
  <1>3. d \in 0..CallTimeout
    BY MonitorAssumption DEF RequestTime
  <1> QED
    BY <1>2, <1>3, MonitorAssumption DEF Restart, Lesser

(* As long as a router that refuses says so in the status of its answer,   *)
(* the count of failed checks is given up only on evidence: connectivity   *)
(* seen by a check, or a restart of the router in that very step.          *)
THEOREM EvidenceForResets ==
    ASSUME "refused_in_body" \notin LiveReplies \cup DeadReplies
    PROVE  Spec => ResetsNeedEvidence
  <1>1. TypeOK /\ KnowsWhy /\ [Next]_vars =>
          [failure_count' < failure_count =>
              \/ last_internet' = "healthy"
              \/ pc = "reboot" /\ uptime' \in 0..(WaitAfter + CallTimeout)]_vars
    <2> SUFFICES ASSUME TypeOK, KnowsWhy, [Next]_vars,
                        failure_count' < failure_count,
                        last_internet' # "healthy"
                 PROVE  pc = "reboot" /\ uptime' \in 0..(WaitAfter + CallTimeout)
      OBVIOUS
    <2>1. Reboot
      BY ResetStep
    <2>2. ~UNCHANGED counters
      BY DEF TypeOK, counters
    <2> QED
      BY <2>1, <2>2, HonestReboot DEF Reboot
  <1> QED
    BY <1>1, TypeCorrect, KnowsWhyIsInvariant, PTL
    DEF Spec, ResetsNeedEvidence

-----------------------------------------------------------------------------
(* The session.                                                            *)

(* What makes RecoveryIsAuthenticated inductive: the check that verifies a *)
(* reload comes between its requests and the reboot.                       *)
KeyAccepted ==
    \/ pc \in Reload
    \/ trigger = "Connectivity" /\ pc \in {"reboot", "internet_check"}
    => session = "live" \/ doubt

(* After ensure_authenticated succeeds the key is one the router accepts,  *)
(* unless the router's answer misled it.                                   *)
LEMMA AuthenticatedIsLive ==
    ASSUME NEW misled \in BOOLEAN, Renews(TRUE, misled)
    PROVE  session' = "live" \/ misled
  <1>1. CASE \E r \in Reply : /\ Answer(r) /\ ProbePasses(r)
                              /\ misled = (r = "refused_in_body")
                              /\ UNCHANGED session
    BY <1>1, SessionAssumption DEF Answer, Replies, ProbePasses
  <1>2. CASE \E key \in KeysAfterLogout(session), r \in LoginReplies :
                /\ LoginSucceeds(key, r) /\ misled = (r = "keyless")
                /\ session' = KeyAfterLogin(key, r)
    BY <1>2 DEF LoginSucceeds, KeyAfterLogin
  <1> QED
    BY <1>1, <1>2 DEF Renews

LEMMA LeavesReload ==
    ASSUME \/ RecoverySucceeds \/ RecoveryFails \/ FallBackToReboot
           \/ InternetHealthy \/ InternetDegraded
           \/ SignalHealthy \/ SignalDegraded \/ SignalError
    PROVE  pc' \notin Reload
  BY DEF RecoverySucceeds, RecoveryFails, EndRecovery, FallBackToReboot,
         InternetHealthy, InternetDegraded, SignalHealthy, SignalDegraded,
         SignalError, ConnectivityPassed, ConnectivityFailed,
         ConnectivityVerified, SignalPassed, SignalFailed, SignalUnknown,
         StartRecovery, Return, AfterHandler, Reload

(* Outside recovery, and in one for the signal, nothing is claimed but of  *)
(* the requests of a reload.                                               *)
LEMMA NothingClaimed ==
    ASSUME pc' \notin Reload,
           trigger' # "Connectivity" \/ pc' \notin {"reboot", "internet_check"}
    PROVE  KeyAccepted'
  BY DEF KeyAccepted

LEMMA NextAccepted == KnowsWhy /\ KeyAccepted /\ [Next]_vars => KeyAccepted'
  <1> SUFFICES ASSUME KnowsWhy, KeyAccepted, [Next]_vars
               PROVE  KeyAccepted'
    OBVIOUS
  <1>e. ASSUME RecoverySucceeds \/ RecoveryFails
        PROVE  KeyAccepted'
    <2>1. trigger' = "none"
      BY <1>e DEF RecoverySucceeds, RecoveryFails, EndRecovery
    <2> QED
      BY <1>e, <2>1, LeavesReload, NothingClaimed
  <1>c. ASSUME UNCHANGED <<pc, trigger, session, doubt>>
        PROVE  KeyAccepted'
    BY <1>c DEF KeyAccepted
  <1>1. CASE TickInternet \/ TickSignal \/ Park \/ Wait \/ Collect
    <2>1. trigger' = "none" /\ pc' \notin Reload
      BY <1>1
      DEF TickInternet, TickSignal, Park, Wait, Collect, KnowsWhy,
          TriggerFits, Loop, Reload, locals
    <2> QED
      BY <2>1, NothingClaimed
  <1>2. CASE Shutdown \/ Logout
    BY <1>2, NothingClaimed DEF Shutdown, Logout, Reload
  <1>3. CASE InternetCheck
    <2>1. /\ UNCHANGED <<session, doubt>>
          /\ pc = "internet_check" /\ pc' \notin Reload
      BY <1>3, LeavesReload DEF InternetCheck, router
    <2>2. CASE trigger' = "Connectivity" /\ pc' \in {"reboot", "internet_check"}
      <3>1. trigger = "Connectivity"
        BY <1>3, <2>2
        DEF InternetCheck, InternetHealthy, InternetDegraded,
            ConnectivityPassed, ConnectivityFailed, ConnectivityVerified,
            FallBackToReboot, RecoverySucceeds, RecoveryFails, EndRecovery,
            StartRecovery, Return, AfterHandler, locals
      <3> QED
        BY <2>1, <3>1 DEF KeyAccepted
    <2> QED
      BY <2>1, <2>2, NothingClaimed
  <1>4. CASE FetchSignal \/ RefreshForSignal
    <2>1. pc' \notin Reload
      BY <1>4, LeavesReload DEF FetchSignal, RefreshForSignal, Reload
    <2>2. trigger # "Connectivity"
      BY <1>4
      DEF FetchSignal, RefreshForSignal, Signal, KnowsWhy, TriggerFits
    <2>3. trigger' # "Connectivity"
      BY <1>4, <2>2
      DEF FetchSignal, RefreshForSignal, SignalHealthy, SignalDegraded,
          SignalError, SignalPassed, SignalFailed, SignalUnknown,
          FallBackToReboot, RecoverySucceeds, RecoveryFails, EndRecovery,
          StartRecovery, Return, locals
    <2> QED
      BY <2>1, <2>3, NothingClaimed
  <1>5. CASE Authenticate
    <2>1. CASE \E misled \in BOOLEAN : Renews(TRUE, misled) /\ doubt' = misled
      <3> PICK misled \in BOOLEAN : Renews(TRUE, misled) /\ doubt' = misled
        BY <2>1
      <3>1. session' = "live" \/ misled
        BY AuthenticatedIsLive
      <3>2. session' = "live" \/ doubt'
        BY <3>1, Zenon
      <3> QED
        BY <3>2, Zenon DEF KeyAccepted
    <2> QED
      BY <1>5, <1>e, <2>1 DEF Authenticate
  <1>6. CASE GetBand \/ Switch \/ Restore
    <2>1. pc \in Reload /\ UNCHANGED <<session, doubt>>
      BY <1>6 DEF GetBand, Switch, Restore, SetBand, Reload, router
    <2> QED
      BY <2>1 DEF KeyAccepted
  <1>7. CASE Reboot
    BY <1>7, <1>e DEF Reboot
  <1>8. CASE CtrlC
    <2>1. CASE pc' = "killed"
      BY <2>1, NothingClaimed DEF Reload
    <2> QED
      BY <1>8, <1>c, <2>1 DEF CtrlC, locals, router
  <1>9. CASE SessionExpires
    BY <1>9 DEF SessionExpires, KeyAccepted
  <1>10. CASE \/ UNCHANGED vars
              \/ \E technology \in AdminChoices : AdminSets(technology)
    BY <1>10, <1>c DEF vars, locals, router, AdminSets
  <1> QED
    BY <1>1, <1>2, <1>3, <1>4, <1>5, <1>6, <1>7, <1>8, <1>9, <1>10
    DEF Next, Task, Environment, Terminated

(* The requests of recovery carry a key that the router accepts, whatever  *)
(* answers are lost or refused on the way, unless the router itself has    *)
(* misled the renewal or dropped the session since; but for a reboot after *)
(* the verification of a signal.                                           *)
THEOREM RecoveryAuthenticated == Spec => []RecoveryIsAuthenticated
  <1>1. Init => KeyAccepted
    BY DEF Init, KeyAccepted, Reload
  <1>2. KnowsWhy /\ KeyAccepted /\ [Next]_vars => KeyAccepted'
    BY NextAccepted
  <1>3. KeyAccepted => RecoveryIsAuthenticated
    BY DEF KeyAccepted, RecoveryIsAuthenticated
  <1> QED
    BY <1>1, <1>2, <1>3, KnowsWhyIsInvariant, PTL DEF Spec

-----------------------------------------------------------------------------
(* The preference.                                                         *)

(* What makes PreferenceIsRestored inductive: the reload knows what to     *)
(* restore, unless what it read was out of hand or has been replaced.      *)
ReloadRemembers ==
    pc \in {"switch", "restore"} => original = configured \/ spoiled

PreferenceInv == PreferenceIsRestored /\ ReloadRemembers

(* A step that leaves the preference alone and is not one of a reload.     *)
LEMMA OutsideReload ==
    ASSUME PreferenceInv, UNCHANGED router, pc # "restore", pc # "killed",
           pc' \notin {"switch", "restore"}
    PROVE  PreferenceInv'
  BY DEF PreferenceInv, PreferenceIsRestored, ReloadRemembers, router,
         preference

LEMMA SetBandPreference ==
    ASSUME PreferenceInv, pc \in {"switch", "restore"},
           NEW technology, NEW wait, NEW next, next # "switch",
           pc = "switch" => next = "restore",
           pc = "restore" => technology = original /\ next # "restore",
           SetBand(technology, wait, next)
    PROVE  PreferenceInv'
  <1>1. PICK r \in Reply :
           /\ preferred' = IF r \in {"ok", "lost"} THEN technology
                                                   ELSE preferred
           /\ spoiled' = (spoiled \/ LeavesTemporary(r))
           /\ r = "ok" => pc' = next /\ UNCHANGED original
           /\ r # "ok" => FallBackToReboot
    BY DEF SetBand, locals
  <1>2. configured' = configured
    BY DEF SetBand
  <1>3. CASE r # "ok"
    <2>1. pc' \notin {"switch", "restore"}
      BY <1>1, <1>3, AwayFromReload
    <2>2. preferred' = configured' \/ spoiled'
      BY <1>1, <1>2, <1>3
      DEF PreferenceInv, PreferenceIsRestored, ReloadRemembers,
          LeavesTemporary, Reply
    <2> QED
      BY <2>1, <2>2
      DEF PreferenceInv, PreferenceIsRestored, ReloadRemembers
  <1>4. CASE r = "ok"
    BY <1>1, <1>2, <1>4
    DEF PreferenceInv, PreferenceIsRestored, ReloadRemembers
  <1> QED
    BY <1>3, <1>4

LEMMA NextPreference == PreferenceInv /\ [Next]_vars => PreferenceInv'
  <1> SUFFICES ASSUME PreferenceInv, [Next]_vars
               PROVE  PreferenceInv'
    OBVIOUS
  <1>c. ASSUME UNCHANGED <<pc, preference, spoiled, original>>
        PROVE  PreferenceInv'
    BY <1>c
    DEF PreferenceInv, PreferenceIsRestored, ReloadRemembers, preference
  <1>1. CASE \/ TickInternet \/ TickSignal \/ Park \/ Wait \/ Shutdown
             \/ Logout \/ Collect
    <2>1. /\ UNCHANGED router /\ pc \notin {"restore", "killed"}
          /\ pc' \notin {"switch", "restore"}
      BY <1>1
      DEF TickInternet, TickSignal, Park, Wait, Shutdown, Logout, Collect,
          Loop
    <2> QED
      BY <2>1, OutsideReload
  <1>2. CASE InternetCheck \/ FetchSignal \/ RefreshForSignal \/ Reboot
    <2>1. UNCHANGED router /\ pc \notin {"restore", "killed"}
      BY <1>2 DEF InternetCheck, FetchSignal, RefreshForSignal, Reboot
    <2>2. pc' \notin {"switch", "restore"}
      BY <1>2, AwayFromReload
      DEF InternetCheck, FetchSignal, RefreshForSignal, Reboot
    <2> QED
      BY <2>1, <2>2, OutsideReload
  <1>3. CASE Authenticate
    <2>1. /\ UNCHANGED <<preference, spoiled>>
          /\ pc \notin {"restore", "killed"} /\ pc' \notin {"switch", "restore"}
      BY <1>3, AwayFromReload DEF Authenticate
    <2> QED
      BY <2>1
      DEF PreferenceInv, PreferenceIsRestored, ReloadRemembers, preference
  <1>4. CASE GetBand
    <2>1. preferred = configured \/ spoiled
      BY <1>4 DEF GetBand, PreferenceInv, PreferenceIsRestored
    <2>2. \/ pc' \notin {"switch", "restore"}
          \/ pc' = "switch" /\ original' = preferred
      BY <1>4, AwayFromReload DEF GetBand
    <2> QED
      BY <1>4, <2>1, <2>2
      DEF GetBand, PreferenceInv, PreferenceIsRestored, ReloadRemembers,
          router, preference
  <1>5. CASE Switch \/ Restore
    BY <1>5, SetBandPreference DEF Switch, Restore
  <1>6. CASE CtrlC
    <2>1. CASE pc' = pc
      BY <1>6, <2>1, <1>c DEF CtrlC, locals, router
    <2>2. CASE pc' = "killed"
      BY <2>2 DEF PreferenceInv, PreferenceIsRestored, ReloadRemembers
    <2> QED
      BY <1>6, <2>1, <2>2 DEF CtrlC
  <1>7. CASE SessionExpires \/ UNCHANGED vars
    BY <1>7, <1>c DEF SessionExpires, vars, router, locals
  <1>8. CASE \E technology \in AdminChoices : AdminSets(technology)
    BY <1>8
    DEF AdminSets, PreferenceInv, PreferenceIsRestored, ReloadRemembers
  <1> QED
    BY <1>1, <1>2, <1>3, <1>4, <1>5, <1>6, <1>7, <1>8
    DEF Next, Task, Environment, Terminated

(* Whatever the router answers and the administrator does, the temporary   *)
(* technology is in force only between the two writes of a reload, unless  *)
(* the program was killed there, the first write's answer was lost or the  *)
(* second was refused, or the administrator chose in the middle of it.     *)
THEOREM PreferenceRestored == Spec => []PreferenceIsRestored
  <1>1. Init => PreferenceInv
    BY DEF Init, PreferenceInv, PreferenceIsRestored, ReloadRemembers
  <1>2. PreferenceInv /\ [Next]_vars => PreferenceInv'
    BY NextPreference
  <1>3. PreferenceInv => PreferenceIsRestored
    BY DEF PreferenceInv
  <1> QED
    BY <1>1, <1>2, <1>3, PTL DEF Spec

-----------------------------------------------------------------------------
(* Time.  The longest a handler can take from each of its awaits on, with  *)
(* every request as slow as the client's timeout allows.                   *)

AfterTime(t) ==
    IF t # "SignalQuality" /\ MetricsEnabled THEN 4 * CallTimeout ELSE 0

RebootTime(t)  == CallTimeout + WaitAfter + AfterTime(t)
VerifyTime(t)  ==
    CheckTimeout + RebootTime(t)
      + (IF t = "SignalQuality" THEN 5 * CallTimeout ELSE 0)
RestoreTime(t) == CallTimeout + RestoreWait + VerifyTime(t)
SwitchTime(t)  == CallTimeout + SwitchWait + RestoreTime(t)

RecoveryTime(t) ==
    3 * CallTimeout + (IF RecoveryMethod = "reload"
                         THEN CallTimeout + SwitchTime(t)
                         ELSE RebootTime(t))

InternetTime == CheckTimeout + RecoveryTime("Connectivity")
SignalTime   == 5 * CallTimeout + RecoveryTime("SignalQuality")

(* An interval is roomy if no handler outlasts it.                         *)
Roomy ==
    /\ InternetTime <= InternetInterval
    /\ SignalEnabled => SignalTime <= InternetInterval

(* A signal check decides about a recovery, or about the end of one.       *)
DecisionTime(t) ==
    IF t = "none" THEN RecoveryTime("SignalQuality") ELSE RebootTime(t)

(* The task will be back in the loop before two internet ticks are due.    *)
Within(time) == internet_lag + time < InternetInterval

InTime ==
    /\ pc \in Loop             => Within(0)
    /\ pc = "collect"          => Within(4 * CallTimeout)
    /\ pc = "reboot"           => Within(RebootTime(trigger))
    /\ pc = "signal_refetch"   =>
          Within(CallTimeout + DecisionTime(trigger))
    /\ pc = "signal_refresh"   =>
          Within(4 * CallTimeout + DecisionTime(trigger))
    /\ pc = "signal_check"     =>
          Within(5 * CallTimeout + DecisionTime(trigger))
    /\ pc = "internet_check"   =>
          Within(IF trigger = "none" THEN InternetTime ELSE VerifyTime(trigger))
    /\ pc = "restore"          => Within(RestoreTime(trigger))
    /\ pc = "switch"           => Within(SwitchTime(trigger))
    /\ pc = "get_band"         => Within(CallTimeout + SwitchTime(trigger))
    /\ pc = "authenticate"     => Within(RecoveryTime(trigger))

LEMMA TimesAreNat ==
    ASSUME NEW t
    PROVE  /\ AfterTime(t) \in Nat /\ RebootTime(t) \in Nat
           /\ VerifyTime(t) \in Nat /\ RestoreTime(t) \in Nat
           /\ SwitchTime(t) \in Nat /\ RecoveryTime(t) \in Nat
           /\ DecisionTime(t) \in Nat
           /\ AfterTime(t) <= RebootTime(t)
           /\ RebootTime(t) <= RecoveryTime(t)
           /\ RebootTime(t) <= VerifyTime(t)
           /\ VerifyTime(t) <= RestoreTime(t)
           /\ RestoreTime(t) <= SwitchTime(t)
  <1>1. AfterTime(t) \in Nat
    BY MonitorAssumption DEF AfterTime
  <1>2. RebootTime(t) \in Nat /\ AfterTime(t) <= RebootTime(t)
    BY <1>1, MonitorAssumption DEF RebootTime
  <1>3. VerifyTime(t) \in Nat /\ RebootTime(t) <= VerifyTime(t)
    BY <1>2, MonitorAssumption DEF VerifyTime
  <1>4. RestoreTime(t) \in Nat /\ VerifyTime(t) <= RestoreTime(t)
    BY <1>3, MonitorAssumption DEF RestoreTime
  <1>5. SwitchTime(t) \in Nat /\ RestoreTime(t) <= SwitchTime(t)
    BY <1>4, MonitorAssumption DEF SwitchTime
  <1>6. RecoveryTime(t) \in Nat /\ RebootTime(t) <= RecoveryTime(t)
    BY <1>2, <1>3, <1>4, <1>5, MonitorAssumption DEF RecoveryTime
  <1>7. RecoveryTime("SignalQuality") \in Nat
    <2>1. AfterTime("SignalQuality") \in Nat
      BY DEF AfterTime
    <2>2. RebootTime("SignalQuality") \in Nat
      BY <2>1, MonitorAssumption DEF RebootTime
    <2>3. SwitchTime("SignalQuality") \in Nat
      BY <2>2, MonitorAssumption DEF SwitchTime, RestoreTime, VerifyTime
    <2> QED
      BY <2>2, <2>3, MonitorAssumption DEF RecoveryTime
  <1> QED
    BY <1>1, <1>2, <1>3, <1>4, <1>5, <1>6, <1>7 DEF DecisionTime

(* Time set aside for what is not done is left over.                       *)
LEMMA LeftOver ==
    ASSUME NEW lag \in Int, NEW more \in Nat, NEW rest \in Nat,
           lag + (more + rest) < InternetInterval
    PROVE  lag + rest < InternetInterval
  BY MonitorAssumption

LEMMA Less ==
    ASSUME NEW lag \in Int, NEW less \in Nat, NEW rest \in Nat, less <= rest,
           lag + rest < InternetInterval
    PROVE  lag + less < InternetInterval
  BY MonitorAssumption

(* What a step spends of the time that was left, the next has less.        *)
LEMMA Spend ==
    ASSUME TypeOK, NEW spent \in Nat, NEW most \in Nat, spent <= most,
           NEW rest \in Nat, Within(most + rest), TickersElapse(spent)
    PROVE  internet_lag' \in Int /\ internet_lag' + rest < InternetInterval
  BY MonitorAssumption DEF TypeOK, Within, TickersElapse, Lesser

LEMMA SpendRequests ==
    ASSUME TypeOK, NEW n \in {1, 3, 4}, NEW spent \in RequestTime(n),
           NEW rest \in Nat, Within(n * CallTimeout + rest),
           TickersElapse(spent)
    PROVE  internet_lag' \in Int /\ internet_lag' + rest < InternetInterval
  <1>1. n * CallTimeout \in Nat
    BY MonitorAssumption
  <1>2. spent \in Nat /\ spent <= n * CallTimeout
    BY <1>1 DEF RequestTime
  <1> QED
    BY <1>1, <1>2, Spend

(* The ends of a handler.                                                  *)
LEMMA AfterInTime ==
    ASSUME NEW t, pc' = AfterHandler(t), internet_lag' \in Int,
           internet_lag' + AfterTime(t) < InternetInterval
    PROVE  InTime'
  BY DEF AfterHandler, AfterTime, InTime, Within, Loop

LEMMA EndInTime ==
    ASSUME RecoverySucceeds \/ RecoveryFails, internet_lag' \in Int,
           internet_lag' + AfterTime(trigger) < InternetInterval
    PROVE  InTime'
  BY AfterInTime DEF RecoverySucceeds, RecoveryFails, EndRecovery

LEMMA FallBackInTime ==
    ASSUME FallBackToReboot, internet_lag' \in Int,
           internet_lag' + RebootTime(trigger) < InternetInterval
    PROVE  InTime'
  <1>1. CASE RecoveryFails
    BY <1>1, EndInTime, TimesAreNat, MonitorAssumption
  <1>2. CASE pc' = "reboot" /\ UNCHANGED locals
    BY <1>2 DEF InTime, Within, Loop, locals
  <1> QED
    BY <1>1, <1>2 DEF FallBackToReboot

LEMMA StartInTime ==
    ASSUME NEW t, StartRecovery(t),
           internet_lag' + RecoveryTime(t) < InternetInterval
    PROVE  InTime'
  BY DEF StartRecovery, InTime, Within, Loop

LEMMA SignalResultInTime ==
    ASSUME SignalHealthy \/ SignalDegraded \/ SignalError,
           internet_lag' \in Int,
           internet_lag' + DecisionTime(trigger) < InternetInterval
    PROVE  InTime'
  <1>1. CASE trigger = "none"
    <2>1. internet_lag' + RecoveryTime("SignalQuality") < InternetInterval
      BY <1>1 DEF DecisionTime
    <2>2. internet_lag' + AfterTime("SignalQuality") < InternetInterval
      BY <2>1, TimesAreNat, MonitorAssumption
    <2> QED
      BY <1>1, <2>1, <2>2, AfterInTime, StartInTime
      DEF SignalHealthy, SignalDegraded, SignalError, SignalPassed,
          SignalFailed, SignalUnknown, Return
  <1>2. CASE trigger # "none"
    <2>1. internet_lag' + RebootTime(trigger) < InternetInterval
      BY <1>2 DEF DecisionTime
    <2>2. internet_lag' + AfterTime(trigger) < InternetInterval
      BY <2>1, TimesAreNat, MonitorAssumption
    <2> QED
      BY <1>2, <2>1, <2>2, EndInTime, FallBackInTime
      DEF SignalHealthy, SignalDegraded, SignalError
  <1> QED
    BY <1>1, <1>2

LEMMA InternetCheckInTime ==
    ASSUME TypeOK, InTime, InternetCheck
    PROVE  InTime'
  <1> PICK d \in 0..CheckTimeout : Elapse(d)
    BY DEF InternetCheck
  <1>1. d \in Nat /\ d <= CheckTimeout /\ TickersElapse(d)
    BY MonitorAssumption DEF Elapse
  <1>2. CASE trigger = "none"
    <2>1. /\ internet_lag' \in Int
          /\ internet_lag' + RecoveryTime("Connectivity") < InternetInterval
      BY <1>1, <1>2, Spend, TimesAreNat, MonitorAssumption
      DEF InternetCheck, InTime, InternetTime
    <2>2. internet_lag' + AfterTime("Connectivity") < InternetInterval
      BY <2>1, TimesAreNat, MonitorAssumption
    <2> QED
      BY <1>2, <2>1, <2>2, AfterInTime, StartInTime
      DEF InternetCheck, InternetHealthy, InternetDegraded,
          ConnectivityPassed, ConnectivityFailed, Return
  <1>3. CASE trigger # "none"
    <2>0. 5 * CallTimeout \in Nat
      BY MonitorAssumption
    <2>1. DEFINE rest == RebootTime(trigger)
                           + (IF trigger = "SignalQuality"
                                THEN 5 * CallTimeout ELSE 0)
    <2>2. rest \in Nat /\ Within(CheckTimeout + rest)
      BY <1>3, <2>0, TimesAreNat, MonitorAssumption
      DEF InternetCheck, InTime, VerifyTime, Within
    <2>3. internet_lag' \in Int /\ internet_lag' + rest < InternetInterval
      BY <1>1, <2>2, Spend, MonitorAssumption
    <2>4. internet_lag' + RebootTime(trigger) < InternetInterval
      BY <2>0, <2>3, TimesAreNat, MonitorAssumption
    <2>5. internet_lag' + AfterTime(trigger) < InternetInterval
      BY <2>3, <2>4, TimesAreNat, MonitorAssumption
    <2>6. CASE /\ trigger = "SignalQuality" /\ pc' = "signal_check"
               /\ UNCHANGED locals
      <3>1. internet_lag' + (5 * CallTimeout + DecisionTime(trigger'))
               < InternetInterval
        BY <2>3, <2>6, TimesAreNat, MonitorAssumption
        DEF DecisionTime, locals
      <3> QED
        BY <2>6, <3>1 DEF InTime, Within, Loop
    <2> QED
      BY <1>3, <2>3, <2>4, <2>5, <2>6, EndInTime, FallBackInTime
      DEF InternetCheck, InternetHealthy, InternetDegraded,
          ConnectivityVerified
  <1> QED
    BY <1>2, <1>3

LEMMA SignalCheckInTime ==
    ASSUME TypeOK, InTime, FetchSignal \/ RefreshForSignal
    PROVE  InTime'
  <1> DEFINE rest == DecisionTime(trigger)
  <1>0. rest \in Nat /\ CallTimeout \in Nat
    BY TimesAreNat, MonitorAssumption
  <1> HIDE DEF rest
  <1>1. CASE FetchSignal /\ pc = "signal_check"
    <2>1. PICK d \in RequestTime(1) : Elapse(d)
      BY <1>1 DEF FetchSignal
    <2>2. Within(1 * CallTimeout + (4 * CallTimeout + rest))
      BY <1>0, <1>1, MonitorAssumption DEF InTime, Within, TypeOK, rest
    <2>3. /\ internet_lag' \in Int
          /\ internet_lag' + (4 * CallTimeout + rest) < InternetInterval
      BY <1>0, <2>1, <2>2, SpendRequests DEF Elapse
    <2>4. CASE pc' = "signal_refresh" /\ UNCHANGED locals
      BY <2>3, <2>4 DEF InTime, Within, Loop, locals, rest
    <2>5. internet_lag' + rest < InternetInterval
      <3>1. 4 * CallTimeout \in Nat
        BY <1>0
      <3> QED
        BY <1>0, <2>3, <3>1, LeftOver
    <2> QED
      BY <1>1, <2>3, <2>4, <2>5, SignalResultInTime DEF FetchSignal, rest
  <1>2. CASE FetchSignal /\ pc = "signal_refetch"
    <2>1. PICK d \in RequestTime(1) : Elapse(d)
      BY <1>2 DEF FetchSignal
    <2>2. Within(1 * CallTimeout + rest)
      BY <1>0, <1>2 DEF InTime, Within, rest
    <2>3. internet_lag' \in Int /\ internet_lag' + rest < InternetInterval
      BY <1>0, <2>1, <2>2, SpendRequests DEF Elapse
    <2> QED
      BY <1>2, <2>3, SignalResultInTime DEF FetchSignal, rest
  <1>3. CASE RefreshForSignal
    <2>1. PICK d \in RequestTime(3) : Elapse(d)
      BY <1>3 DEF RefreshForSignal
    <2>2. Within(3 * CallTimeout + (CallTimeout + rest))
      BY <1>0, <1>3, MonitorAssumption
      DEF RefreshForSignal, InTime, Within, TypeOK, rest
    <2>3. /\ internet_lag' \in Int
          /\ internet_lag' + (CallTimeout + rest) < InternetInterval
      BY <1>0, <2>1, <2>2, SpendRequests DEF Elapse
    <2>4. CASE pc' = "signal_refetch" /\ UNCHANGED locals
      BY <2>3, <2>4 DEF InTime, Within, Loop, locals, rest
    <2>5. internet_lag' + rest < InternetInterval
      BY <1>0, <2>3, LeftOver
    <2> QED
      BY <1>3, <2>3, <2>4, <2>5, SignalResultInTime
      DEF RefreshForSignal, rest
  <1> QED
    BY <1>1, <1>2, <1>3 DEF FetchSignal

LEMMA AuthenticateInTime ==
    ASSUME TypeOK, InTime, Authenticate
    PROVE  InTime'
  <1> PICK d \in RequestTime(3) : Elapse(d)
    BY DEF Authenticate
  <1>1. CASE RecoveryMethod = "reload"
    <2>1. CallTimeout + SwitchTime(trigger) \in Nat
      BY TimesAreNat, MonitorAssumption
    <2>2. /\ internet_lag' \in Int
          /\ internet_lag' + (CallTimeout + SwitchTime(trigger))
               < InternetInterval
      BY <1>1, <2>1, SpendRequests
      DEF Authenticate, InTime, RecoveryTime, Elapse
    <2>3. internet_lag' + AfterTime(trigger) < InternetInterval
      <3>1. AfterTime(trigger) <= CallTimeout + SwitchTime(trigger)
        BY TimesAreNat, MonitorAssumption
      <3> QED
        BY <2>1, <2>2, <3>1, TimesAreNat, MonitorAssumption
    <2>4. CASE pc' = "get_band" /\ UNCHANGED locals
      BY <2>2, <2>4 DEF InTime, Within, Loop, locals
    <2> QED
      BY <1>1, <2>2, <2>3, <2>4, EndInTime DEF Authenticate
  <1>2. CASE RecoveryMethod # "reload"
    <2>1. /\ internet_lag' \in Int
          /\ internet_lag' + RebootTime(trigger) < InternetInterval
      BY <1>2, TimesAreNat, SpendRequests
      DEF Authenticate, InTime, RecoveryTime, Elapse
    <2>2. internet_lag' + AfterTime(trigger) < InternetInterval
      BY <2>1, TimesAreNat, MonitorAssumption
    <2> QED
      BY <1>2, <2>1, <2>2, EndInTime, FallBackInTime DEF Authenticate
  <1> QED
    BY <1>1, <1>2

LEMMA GetBandInTime ==
    ASSUME TypeOK, InTime, GetBand
    PROVE  InTime'
  <1> PICK d \in RequestTime(1) : Elapse(d)
    BY DEF GetBand
  <1>1. Within(1 * CallTimeout + SwitchTime(trigger))
    BY MonitorAssumption DEF GetBand, InTime, Within
  <1>2. /\ internet_lag' \in Int
        /\ internet_lag' + SwitchTime(trigger) < InternetInterval
    BY <1>1, TimesAreNat, SpendRequests DEF Elapse
  <1>3. internet_lag' + RebootTime(trigger) < InternetInterval
    <2>1. RebootTime(trigger) <= SwitchTime(trigger)
      BY TimesAreNat, MonitorAssumption
    <2> QED
      BY <1>2, <2>1, TimesAreNat, MonitorAssumption
  <1>4. CASE pc' = "switch" /\ UNCHANGED trigger
    BY <1>2, <1>4 DEF InTime, Within, Loop
  <1> QED
    BY <1>2, <1>3, <1>4, FallBackInTime DEF GetBand

LEMMA SetBandInTime ==
    ASSUME TypeOK, NEW technology, NEW wait \in Nat, NEW next,
           NEW rest \in Nat, Within(CallTimeout + wait + rest),
           RebootTime(trigger) <= rest,
           SetBand(technology, wait, next)
    PROVE  \/ /\ pc' = next /\ UNCHANGED locals
              /\ internet_lag' + rest < InternetInterval
           \/ InTime'
  <1> PICK d \in RequestTime(1) :
             \/ /\ pc' = next /\ Elapse(d + wait)
                /\ UNCHANGED <<locals, counters>>
             \/ FallBackToReboot /\ Elapse(d)
    BY DEF SetBand
  <1>1. /\ d \in Nat /\ d <= CallTimeout + wait
        /\ d + wait \in Nat /\ d + wait <= CallTimeout + wait
        /\ CallTimeout + wait \in Nat
    BY MonitorAssumption DEF RequestTime
  <1>2. CASE FallBackToReboot /\ Elapse(d)
    <2>1. internet_lag' \in Int /\ internet_lag' + rest < InternetInterval
      BY <1>1, <1>2, Spend DEF Elapse
    <2>2. RebootTime(trigger) \in Nat
      BY TimesAreNat
    <2>3. internet_lag' + RebootTime(trigger) < InternetInterval
      BY <2>1, <2>2, Less
    <2> QED
      BY <1>2, <2>1, <2>3, FallBackInTime
  <1>3. CASE pc' = next /\ Elapse(d + wait) /\ UNCHANGED locals
    BY <1>1, <1>3, Spend DEF Elapse
  <1> QED
    BY <1>2, <1>3

LEMMA WritesInTime ==
    ASSUME TypeOK, TriggerFits, InTime, Switch \/ Restore
    PROVE  InTime'
  <1>0. /\ RestoreTime(trigger) \in Nat /\ VerifyTime(trigger) \in Nat
        /\ RebootTime(trigger) <= VerifyTime(trigger)
        /\ RebootTime(trigger) <= RestoreTime(trigger)
        /\ SwitchWait \in Nat /\ RestoreWait \in Nat
    BY TimesAreNat, MonitorAssumption
  <1>1. CASE Switch
    <2>1. Within(CallTimeout + SwitchWait + RestoreTime(trigger))
      BY <1>1 DEF Switch, InTime, SwitchTime
    <2>2. CASE /\ pc' = "restore" /\ UNCHANGED locals
               /\ internet_lag' + RestoreTime(trigger) < InternetInterval
      BY <2>2 DEF InTime, Within, Loop, locals
    <2> QED
      BY <1>0, <1>1, <2>1, <2>2, SetBandInTime DEF Switch
  <1>2. CASE Restore
    <2>1. Within(CallTimeout + RestoreWait + VerifyTime(trigger))
      BY <1>2 DEF Restore, InTime, RestoreTime
    <2>2. trigger # "none"
      BY <1>2 DEF Restore, TriggerFits, Recovery, Reload
    <2>3. CASE /\ pc' = "internet_check" /\ UNCHANGED locals
               /\ internet_lag' + VerifyTime(trigger) < InternetInterval
      BY <2>2, <2>3 DEF InTime, Within, Loop, locals
    <2> QED
      BY <1>0, <1>2, <2>1, <2>3, SetBandInTime DEF Restore
  <1> QED
    BY <1>1, <1>2

LEMMA RebootInTime ==
    ASSUME TypeOK, InTime, Reboot
    PROVE  InTime'
  <1> PICK d \in RequestTime(1) :
             \/ TickersElapse(d + WaitAfter) /\ RecoverySucceeds
             \/ TickersElapse(d) /\ RecoveryFails
    BY DEF Reboot
  <1>1. /\ d \in Nat /\ d <= CallTimeout + WaitAfter
        /\ d + WaitAfter \in Nat /\ d + WaitAfter <= CallTimeout + WaitAfter
        /\ CallTimeout + WaitAfter \in Nat
    BY MonitorAssumption DEF RequestTime
  <1>2. /\ Within(CallTimeout + WaitAfter + AfterTime(trigger))
        /\ AfterTime(trigger) \in Nat
    BY TimesAreNat DEF Reboot, InTime, RebootTime
  <1>3. /\ internet_lag' \in Int
        /\ internet_lag' + AfterTime(trigger) < InternetInterval
    BY <1>1, <1>2, Spend
  <1> QED
    BY <1>3, EndInTime

LEMMA LoopInTime ==
    ASSUME TypeOK, TriggerFits, InTime, Roomy,
           TickInternet \/ TickSignal \/ Park \/ Wait \/ Collect
    PROVE  InTime'
  <1>1. CASE TickInternet
    <2>1. trigger' = "none" /\ pc' = "internet_check"
      BY <1>1 DEF TickInternet, TriggerFits, locals
    <2>2. InternetTime \in Nat
      BY TimesAreNat, MonitorAssumption DEF InternetTime
    <2>3. internet_lag \in Int /\ internet_lag < InternetInterval
          /\ internet_lag' = internet_lag - InternetInterval
      BY <1>1, MonitorAssumption DEF TickInternet, InTime, Within, TypeOK
    <2>4. internet_lag' + InternetTime < InternetInterval
      BY <2>2, <2>3, MonitorAssumption DEF Roomy
    <2> QED
      BY <2>1, <2>4 DEF InTime, Within, Loop
  <1>2. CASE TickSignal
    <2>1. trigger' = "none" /\ pc' = "signal_check"
      BY <1>2 DEF TickSignal, TriggerFits, locals
    <2>2. SignalTime \in Nat /\ 5 * CallTimeout \in Nat
      BY TimesAreNat, MonitorAssumption DEF SignalTime
    <2>3. internet_lag' + SignalTime < InternetInterval
      BY <1>2, <2>2, MonitorAssumption DEF TickSignal, Roomy, TypeOK
    <2>4. internet_lag' + (5 * CallTimeout + DecisionTime("none"))
             < InternetInterval
      BY <2>3 DEF SignalTime, DecisionTime
    <2> QED
      BY <2>1, <2>4 DEF InTime, Within, Loop
  <1>3. CASE Park
    BY <1>3 DEF Park, InTime, Within, Loop, clock
  <1>4. CASE Wait
    <2>1. internet_lag \in Int /\ internet_lag < 0
      BY <1>4, MonitorAssumption DEF Wait, Due, TypeOK
    <2>2. internet_lag' + 0 < InternetInterval
      BY <1>4, <2>1, MonitorAssumption DEF Wait, Elapse, TickersElapse, Lesser
    <2>3. pc' = "parked"
      BY <1>4 DEF Wait
    <2> QED
      BY <2>2, <2>3 DEF InTime, Within, Loop
  <1>5. CASE Collect
    <2>1. PICK d \in RequestTime(4) : Elapse(d)
      BY <1>5 DEF Collect
    <2>2. Within(4 * CallTimeout + 0)
      BY <1>5, MonitorAssumption DEF Collect, InTime
    <2>3. internet_lag' \in Int /\ internet_lag' + 0 < InternetInterval
      BY <2>1, <2>2, SpendRequests DEF Elapse
    <2> QED
      BY <1>5, <2>3 DEF Collect, InTime, Within, Loop
  <1> QED
    BY <1>1, <1>2, <1>3, <1>4, <1>5

LEMMA NextInTime ==
    ASSUME Roomy, TypeOK, KnowsWhy, InTime, [Next]_vars
    PROVE  InTime'
  <1>1. CASE UNCHANGED <<pc, trigger, internet_lag>>
    BY <1>1
    DEF InTime, Within, InternetTime, RecoveryTime, SwitchTime, RestoreTime,
        VerifyTime, RebootTime, AfterTime, DecisionTime
  <1>2. CASE pc' \in {"logout"} \cup Halted
    BY <1>2 DEF InTime, Loop, Halted
  <1>3. CASE SessionExpires \/ CtrlC
             \/ \E technology \in AdminChoices : AdminSets(technology)
    BY <1>1, <1>2, <1>3 DEF SessionExpires, CtrlC, AdminSets, locals, clock,
                            Halted
  <1>4. CASE UNCHANGED vars
    BY <1>1, <1>4 DEF vars, locals, clock
  <1> QED
    BY <1>2, <1>3, <1>4, LoopInTime, InternetCheckInTime, SignalCheckInTime,
       AuthenticateInTime, GetBandInTime, WritesInTime, RebootInTime
    DEF Next, Task, Environment, Terminated, KnowsWhy, Shutdown, Logout,
        Halted

(* The only step to a check in the loop is the tick, which takes an        *)
(* interval off a lag of less than two.                                    *)
LEMMA NextKeepsTheInterval ==
    ASSUME TypeOK, KnowsWhy, InTime, ChecksKeepTheInterval, [Next]_vars
    PROVE  ChecksKeepTheInterval'
  <1>1. CASE pc' # "internet_check"
    BY <1>1 DEF ChecksKeepTheInterval
  <1>2. CASE UNCHANGED <<pc, trigger, internet_lag>>
    BY <1>2 DEF ChecksKeepTheInterval
  <1>3. CASE TickInternet
    BY <1>3, MonitorAssumption
    DEF TickInternet, InTime, Within, TypeOK, ChecksKeepTheInterval
  <1>4. CASE Restore
    <2>1. trigger # "none"
      BY <1>4 DEF Restore, KnowsWhy, TriggerFits, Recovery, Reload
    <2>2. pc' # "internet_check" \/ UNCHANGED trigger
      BY <1>4
      DEF Restore, SetBand, FallBackToReboot, RecoveryFails, EndRecovery,
          AfterHandler, locals
    <2> QED
      BY <2>1, <2>2 DEF ChecksKeepTheInterval
  <1>5. CASE InternetCheck
    BY <1>1, <1>5
    DEF InternetCheck, InternetHealthy, InternetDegraded, ConnectivityPassed,
        ConnectivityFailed, ConnectivityVerified, Return, StartRecovery,
        FallBackToReboot, RecoverySucceeds, RecoveryFails, EndRecovery,
        AfterHandler
  <1>6. CASE FetchSignal \/ RefreshForSignal
    BY <1>1, <1>6
    DEF FetchSignal, RefreshForSignal, SignalHealthy, SignalDegraded,
        SignalError, SignalPassed, SignalFailed, SignalUnknown, Return,
        StartRecovery, FallBackToReboot, RecoverySucceeds, RecoveryFails,
        EndRecovery, AfterHandler
  <1>7. CASE Authenticate \/ GetBand \/ Switch \/ Reboot
    BY <1>1, <1>7
    DEF Authenticate, GetBand, Switch, SetBand, Reboot, FallBackToReboot,
        RecoverySucceeds, RecoveryFails, EndRecovery, AfterHandler
  <1>8. CASE Environment \/ Terminated \/ UNCHANGED vars
    BY <1>1, <1>2, <1>8
    DEF Environment, CtrlC, SessionExpires, AdminSets, Terminated, vars,
        locals, clock
  <1> QED
    BY <1>1, <1>3, <1>4, <1>5, <1>6, <1>7, <1>8
    DEF Next, Task, TickSignal, Park, Wait, Shutdown, Logout, Collect

(* If the interval of the internet checks is not outlasted by a handler of *)
(* either ticker, a check is never followed at once by one already due:    *)
(* no burst of failures in a row spends max_retries at one moment.         *)
THEOREM IntervalIsKept ==
    ASSUME Roomy
    PROVE  Spec => []ChecksKeepTheInterval
  <1>1. Init => InTime /\ ChecksKeepTheInterval
    BY MonitorAssumption DEF Init, InTime, Within, Loop, ChecksKeepTheInterval
  <1>2. /\ TypeOK /\ KnowsWhy /\ InTime /\ ChecksKeepTheInterval
        /\ [Next]_vars
        => InTime' /\ ChecksKeepTheInterval'
    BY NextInTime, NextKeepsTheInterval
  <1> QED
    BY <1>1, <1>2, TypeCorrect, KnowsWhyIsInvariant, PTL DEF Spec

=============================================================================
