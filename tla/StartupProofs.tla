----------------------------- MODULE StartupProofs ---------------------------
(* main reports what failed and stops what it started, whatever the files  *)
(* say and whichever of its steps fail.                                    *)
EXTENDS Startup, WellFoundedInduction, TLAPS

Ready   == {"subscriber", "connect", "login", "info", "monitor", "tickers",
            "loop", "logout"}
Before  == {"load", "build_metrics", "build_traces", "build_logs"} \cup Ready
Closing == {"stop_logs", "stop_metrics", "stop_traces", "return"}

(* Where main is while a provider that is enabled is up, and down.         *)
MetricsUp   == {"build_traces", "build_logs", "stop_logs", "stop_metrics"}
                  \cup Ready
TracesUp    == {"build_logs", "stop_logs", "stop_metrics", "stop_traces"}
                  \cup Ready
LogsUp      == {"stop_logs"} \cup Ready
MetricsDown == {"stop_traces", "return"}
TracesDown  == {"return"}
LogsDown    == {"stop_metrics", "stop_traces", "return"}

Fits(s, up, down) ==
    s \in telemetry.enabled => /\ at \in up => providers[s] = "up"
                               /\ at \in down => providers[s] = "down"

(* What has failed is known: nothing before the monitor's result is there, *)
(* then the result and the errors of the shutdown.                         *)
FailureKnown ==
    /\ at \in Before => result = "none" /\ errors = {} /\ failed = {}
    /\ at \in Closing => /\ result \in {"ok", "error"}
                         /\ failed \ {"logout"} # {}
                               <=> result = "error" \/ errors # {}

ProvidersFit ==
    /\ telemetry.enabled \subseteq Signal
    /\ providers \in [Signal -> {"none", "up", "down", "dropped"}]
    /\ Fits("metrics", MetricsUp, MetricsDown)
    /\ Fits("traces", TracesUp, TracesDown)
    /\ Fits("logs", LogsUp, LogsDown)
    /\ at = "load" => telemetry.enabled = {}
    /\ at \in Before => \A s \in Signal : providers[s] \in {"none", "up"}

Inv ==
    /\ at \in Places
    /\ FailureKnown /\ ProvidersFit
    /\ FailuresAreReported /\ ProvidersAreStopped

-----------------------------------------------------------------------------
LEMMA InvInit == Init => Inv
  <1> SUFFICES ASSUME Init
               PROVE  Inv
    OBVIOUS
  <1>1. FailureKnown
    BY DEF Init, FailureKnown, Before, Closing, Ready
  <1>2. telemetry.enabled = {}
    BY DEF Init
  <1>3. providers \in [Signal -> {"none", "up", "down", "dropped"}]
    BY DEF Init
  <1>4. ProvidersFit
    BY <1>2, <1>3 DEF Init, ProvidersFit, Fits
  <1> QED
    BY <1>1, <1>4
    DEF Init, Inv, Places, FailuresAreReported, ProvidersAreStopped

LEMMA DroppedType ==
    ASSUME NEW ps \in [Signal -> {"none", "up", "down", "dropped"}]
    PROVE  Dropped(ps) \in [Signal -> {"none", "up", "down", "dropped"}]
  BY DEF Dropped

LEMMA AbortKeeps ==
    ASSUME Inv, at \in Unflushed \cup {"load"}, NEW code \in {1, 101},
           Abort(code)
    PROVE  Inv'
  <1>1. /\ at' = "ended" /\ failed' = {at} /\ status' # 0 /\ at # "logout"
        /\ result' = "none" /\ telemetry' = telemetry /\ at \in Before
    BY DEF Abort, Inv, FailureKnown, config, Unflushed, Before, Ready
  <1>2. FailureKnown'
    BY <1>1 DEF FailureKnown, Before, Closing, Ready
  <1>3. ProvidersFit'
    BY <1>1, DroppedType
    DEF Abort, Inv, ProvidersFit, Fits, MetricsUp, MetricsDown, TracesUp,
        TracesDown, LogsUp, LogsDown, Before, Ready, Signal
  <1>4. \A s \in Signal : providers'[s] \in {"none", "dropped"}
    BY <1>1 DEF Abort, Dropped, Inv, ProvidersFit
  <1>5. FailuresAreReported'
    BY <1>1 DEF FailuresAreReported
  <1>6. ProvidersAreStopped'
    BY <1>1, <1>4 DEF ProvidersAreStopped, Inv, ProvidersFit
  <1> QED
    BY <1>1, <1>2, <1>3, <1>5, <1>6 DEF Inv, Places

(* Moving on with nothing changed but what a step says of the providers.   *)
LEMMA OnwardKeeps ==
    ASSUME Inv, at \in Before, UNCHANGED ends, at' \in Before, ProvidersFit'
    PROVE  Inv'
  <1>1. FailureKnown'
    BY DEF Inv, FailureKnown, ends, Before, Closing, Ready
  <1> QED
    BY <1>1
    DEF Inv, FailuresAreReported, ProvidersAreStopped,
        Places, Before, Ready

LEMMA LoadKeeps == Inv /\ (Load \/ LoadFails) => Inv'
  <1> SUFFICES ASSUME Inv, Load \/ LoadFails
               PROVE  Inv'
    OBVIOUS
  <1>1. CASE Load
    <2>1. telemetry'.enabled \subseteq Signal /\ at' = "build_metrics"
      BY <1>1 DEF Load, Enabled
    <2>2. ProvidersFit'
      BY <1>1, <2>1 DEF Load, Inv, ProvidersFit, Fits, MetricsUp, MetricsDown,
                        TracesUp, TracesDown, LogsUp, LogsDown, Before, Ready,
                        Signal
    <2>3. FailureKnown'
      BY <1>1 DEF Load, Inv, FailureKnown, ends, Before, Closing, Ready
    <2> QED
      BY <2>1, <2>2, <2>3
      DEF Inv, FailuresAreReported, ProvidersAreStopped, Places
  <1>2. CASE LoadFails
    BY <1>2, AbortKeeps DEF LoadFails
  <1> QED
    BY <1>1, <1>2

LEMMA BuildKeeps == Inv /\ BuildTelemetry => Inv'
  <1> SUFFICES ASSUME Inv, BuildTelemetry
               PROVE  Inv'
    OBVIOUS
  <1>1. PICK s \in Signal :
             \/ /\ s = "metrics"
                /\ Build(s, "build_metrics", "build_traces")
             \/ s = "traces" /\ Build(s, "build_traces", "build_logs")
             \/ s = "logs" /\ Build(s, "build_logs", "subscriber")
    BY DEF BuildTelemetry, Signal
  <1>2. at \in Before /\ at \in Unflushed
    BY <1>1 DEF Build, Before, Unflushed
  <1>3. CASE Abort(1)
    BY <1>2, <1>3, AbortKeeps
  <1>4. CASE ~Abort(1)
    <2>1. /\ UNCHANGED <<config, ends>> /\ at' \in Before /\ at' # "load"
          /\ \/ s \notin telemetry.enabled /\ UNCHANGED providers
             \/ providers' = [providers EXCEPT ![s] = "up"]
      BY <1>1, <1>4 DEF Build, Before, Ready
    <2>2. ProvidersFit'
      BY <1>1, <1>2, <1>4, <2>1
      DEF Build, Inv, ProvidersFit, config, Fits, MetricsUp, MetricsDown,
          TracesUp, TracesDown, LogsUp, LogsDown, Before, Ready, Signal
    <2> QED
      BY <1>2, <2>1, <2>2, OnwardKeeps DEF config
  <1> QED
    BY <1>3, <1>4

(* The monitor's result, of whatever step.                                 *)
LEMMA DoneKeeps ==
    ASSUME Inv, at \in Ready, NEW r \in {"ok", "error"}, Done(r),
           r = "error" => at # "logout"
    PROVE  Inv'
  <1>1. /\ at' = "stop_logs" /\ result' = r /\ errors' = {}
        /\ failed' = IF r = "ok" THEN {} ELSE {at}
    BY DEF Done, Inv, FailureKnown, Before
  <1>2. FailureKnown'
    BY <1>1 DEF FailureKnown, Before, Closing, Ready
  <1>3. ProvidersFit'
    BY <1>1 DEF Done, Inv, ProvidersFit, config, Fits, MetricsUp, MetricsDown,
                TracesUp, TracesDown, LogsUp, LogsDown, Before, Ready, Signal
  <1> QED
    BY <1>1, <1>2, <1>3
    DEF Inv, FailuresAreReported, ProvidersAreStopped, Places

LEMMA RunKeeps ==
    Inv /\ (\/ InstallSubscriber \/ Connect \/ Login \/ Info \/ Monitor
            \/ StartTickers \/ Run) => Inv'
  <1> SUFFICES ASSUME Inv,
                      \/ InstallSubscriber \/ Connect \/ Login \/ Info
                      \/ Monitor \/ StartTickers \/ Run
               PROVE  Inv'
    OBVIOUS
  <1>1. at \in Ready
    BY DEF InstallSubscriber, Connect, Login, Info, Monitor, StartTickers,
           Run, Step, Ready
  <1>2. CASE Done("ok") \/ (Done("error") /\ at # "logout")
    BY <1>1, <1>2, DoneKeeps
  <1>3. CASE at \in Unflushed /\ (Abort(1) \/ Abort(101))
    BY <1>3, AbortKeeps
  <1>4. CASE /\ at' \in Ready
             /\ UNCHANGED <<config, providers, ends>>
    <2>1. ProvidersFit'
      BY <1>1, <1>4
      DEF Inv, ProvidersFit, config, Fits, MetricsUp, MetricsDown, TracesUp,
          TracesDown, LogsUp, LogsDown, Before, Ready, Signal
    <2> QED
      BY <1>1, <1>4, <2>1, OnwardKeeps DEF Before, Ready
  <1>5. CASE /\ at = "logout" /\ at' = "stop_logs"
             /\ result' = "ok" /\ failed' = failed \cup {at}
             /\ UNCHANGED <<config, providers, errors, status>>
    <2>1. ProvidersFit'
      BY <1>5
      DEF Inv, ProvidersFit, config, Fits, MetricsUp, MetricsDown, TracesUp,
          TracesDown, LogsUp, LogsDown, Before, Ready, Signal
    <2>2. FailureKnown'
      BY <1>5 DEF Inv, FailureKnown, Before, Closing, Ready
    <2> QED
      BY <1>5, <2>1, <2>2
      DEF Inv, FailuresAreReported, ProvidersAreStopped, Places
  <1> QED
    BY <1>2, <1>3, <1>4, <1>5
    DEF InstallSubscriber, Connect, Login, Info, Monitor, StartTickers, Run,
        Step, Ready, Unflushed

-----------------------------------------------------------------------------
LEMMA StopKeeps == Inv /\ ShutdownTelemetry => Inv'
  <1> SUFFICES ASSUME Inv, ShutdownTelemetry
               PROVE  Inv'
    OBVIOUS
  <1>1. PICK s \in Signal :
             \/ s = "logs" /\ Stop(s, "stop_logs", "stop_metrics")
             \/ s = "metrics" /\ Stop(s, "stop_metrics", "stop_traces")
             \/ s = "traces" /\ Stop(s, "stop_traces", "return")
    BY DEF ShutdownTelemetry, Signal
  <1>2. at \in Closing /\ at' \in Closing /\ UNCHANGED <<config, result>>
    BY <1>1 DEF Stop, AfterShutdown, Closing, ends
  <1>3. FailureKnown'
    <2>1. CASE UNCHANGED ends
      BY <1>2, <2>1 DEF Inv, FailureKnown, ends, Before, Closing, Ready
    <2>2. CASE \E r \in {"ok", "error"} :
                  /\ errors' = IF r = "ok" THEN errors ELSE errors \cup {s}
                  /\ failed' = IF r = "ok" THEN failed ELSE failed \cup {at}
      BY <1>2, <2>2 DEF Inv, FailureKnown, Before, Closing, Ready
    <2> QED
      BY <1>1, <2>1, <2>2 DEF Stop
  <1>4. ProvidersFit'
    <2>1. s \in telemetry.enabled => providers[s] = "up"
      BY <1>1
      DEF Stop, Inv, ProvidersFit, Fits, MetricsUp, TracesUp, LogsUp
    <2>2. \/ s \notin telemetry.enabled /\ UNCHANGED providers
          \/ providers' = [providers EXCEPT ![s] = "down"]
      BY <1>1, <2>1 DEF Stop
    <2>3. \/ s = "logs" /\ at = "stop_logs" /\ at' = "stop_metrics"
          \/ s = "metrics" /\ at = "stop_metrics" /\ at' = "stop_traces"
          \/ s = "traces" /\ at = "stop_traces" /\ at' = "return"
      BY <1>1 DEF Stop, AfterShutdown
    <2> QED
      BY <1>2, <2>2, <2>3
      DEF Inv, ProvidersFit, config, Fits, MetricsUp, MetricsDown, TracesUp,
          TracesDown, LogsUp, LogsDown, Before, Closing, Ready, Signal
  <1> QED
    BY <1>2, <1>3, <1>4
    DEF Inv, FailuresAreReported, ProvidersAreStopped, Places, Closing

LEMMA ReturnKeeps == Inv /\ Return => Inv'
  <1> SUFFICES ASSUME Inv, Return
               PROVE  Inv'
    OBVIOUS
  <1>1. at = "return" /\ at' = "ended" /\ status' = Status
        /\ UNCHANGED <<telemetry, providers, result, errors, failed>>
    BY DEF Return, config
  <1>2. FailureKnown'
    BY <1>1 DEF Inv, FailureKnown, Before, Closing, Ready
  <1>3. ProvidersFit'
    BY <1>1 DEF Inv, ProvidersFit, Fits, MetricsUp, MetricsDown, TracesUp,
                TracesDown, LogsUp, LogsDown, Before, Ready, Signal
  <1>4. FailuresAreReported'
    BY <1>1
    DEF Inv, FailureKnown, FailuresAreReported, Status, Closing
  <1>5. ProvidersAreStopped'
    BY <1>1 DEF Inv, ProvidersFit, ProvidersAreStopped, Fits, MetricsDown,
                TracesDown, LogsDown, Signal
  <1> QED
    BY <1>1, <1>2, <1>3, <1>4, <1>5 DEF Inv, Places

LEMMA InvNext == Inv /\ [Next]_vars => Inv'
  <1> SUFFICES ASSUME Inv, [Next]_vars
               PROVE  Inv'
    OBVIOUS
  <1>1. CASE UNCHANGED vars
    BY <1>1
    DEF Inv, FailureKnown, ProvidersFit, FailuresAreReported,
        ProvidersAreStopped, Fits, vars, config, ends
  <1> QED
    BY <1>1, LoadKeeps, BuildKeeps, RunKeeps, StopKeeps, ReturnKeeps DEF Next

LEMMA Invariant == Spec => []Inv
  BY InvInit, InvNext, PTL DEF Spec

(* Whatever fails on the way, in whatever order, ends in a status that     *)
(* makes systemd start the program again, and nothing else does.  Only a   *)
(* failed logout goes unreported.                                          *)
THEOREM NoFailureIsLost == Spec => []FailuresAreReported
  <1>1. Inv => FailuresAreReported
    BY DEF Inv
  <1> QED
    BY <1>1, Invariant, PTL

(* main tells every provider to shut down, or none; and none only if one   *)
(* of the first steps failed, or the tickers panicked, nothing else having *)
(* failed, with a status that is not 0.                                    *)
THEOREM AllAreStopped == Spec => []ProvidersAreStopped
  <1>1. Inv => ProvidersAreStopped
    BY DEF Inv
  <1> QED
    BY <1>1, Invariant, PTL

-----------------------------------------------------------------------------
(* What the files say.  A setting is the last file's that gives it.        *)
LEMMA SettingIsLast ==
    ASSUME DOMAIN files = 1..3, NEW key, NEW default
    PROVE  Setting(key, default) = IF Gives(key) # {} THEN LastOf(key)
                                                      ELSE default
  <1>1. key \in DOMAIN Merged <=> Gives(key) # {}
    BY DEF Merged, Over, Gives
  <1>2. CASE 3 \in Gives(key)
    <2>1. LastOf(key) = files[3][key]
      BY <1>2 DEF Gives, LastOf
    <2> QED
      BY <1>1, <1>2, <2>1 DEF Setting, Merged, Over, Gives
  <1>3. CASE 3 \notin Gives(key) /\ 2 \in Gives(key)
    <2>1. LastOf(key) = files[2][key]
      BY <1>3 DEF Gives, LastOf
    <2> QED
      BY <1>1, <1>3, <2>1 DEF Setting, Merged, Over, Gives
  <1>4. CASE Gives(key) = {1}
    <2>1. LastOf(key) = files[1][key]
      BY <1>4 DEF LastOf
    <2> QED
      BY <1>1, <1>4, <2>1 DEF Setting, Merged, Over, Gives
  <1>5. CASE Gives(key) = {}
    BY <1>1, <1>5 DEF Setting
  <1>6. Gives(key) \subseteq 1..3
    BY DEF Gives
  <1> QED
    BY <1>2, <1>3, <1>4, <1>5, <1>6

LEMMA LastIsGiven ==
    ASSUME files \in [1..3 -> Files], NEW key, Gives(key) # {}
    PROVE  \E file \in Files : key \in DOMAIN file /\ LastOf(key) = file[key]
  <1>1. Gives(key) \subseteq 1..3
    BY DEF Gives
  <1>2. \E i \in Gives(key) : \A j \in Gives(key) : j <= i
    <2>1. CASE 3 \in Gives(key)
      BY <1>1, <2>1
    <2>2. CASE 3 \notin Gives(key) /\ 2 \in Gives(key)
      BY <1>1, <2>2
    <2>3. CASE Gives(key) = {1}
      BY <2>3
    <2> QED
      BY <1>1, <2>1, <2>2, <2>3
  <1>3. PICK i \in Gives(key) : LastOf(key) = files[i][key]
    BY <1>2 DEF LastOf
  <1> QED
    BY <1>1, <1>3 DEF Gives

(* Configurations of the right types: an interval is a number if the       *)
(* files decode, and an endpoint is a path.                                *)
LEMMA IntervalIsNat ==
    ASSUME files \in [1..3 -> Files], Decodes, NEW t \in Ticker
    PROVE  Interval(t) \in Nat
  <1>1. ASSUME NEW key \in {"interval"} \cup Ticker, Gives(key) # {}
        PROVE  LastOf(key) \in Nat \cup {Malformed}
    BY <1>1, LastIsGiven, FilesAssumption
  <1>2. Setting("interval", 60) \in Nat
    BY <1>1, SettingIsLast DEF Decodes, Malformed
  <1>3. CASE Gives(t) # {}
    <2>1. Interval(t) = LastOf(t) /\ Setting(t, 60) = LastOf(t)
      BY <1>3, SettingIsLast DEF Interval
    <2> QED
      BY <1>1, <1>3, <2>1 DEF Decodes, Malformed
  <1>4. CASE Gives(t) = {}
    BY <1>2, <1>4, SettingIsLast DEF Interval
  <1> QED
    BY <1>3, <1>4

LEMMA EndpointIsPath ==
    ASSUME files \in [1..3 -> Files]
    PROVE  Setting("endpoint", "none") \in Seq(STRING) \cup {"none"}
  BY SettingIsLast, LastIsGiven, FilesAssumption

(* What is known of the configuration once it is loaded.                   *)
Loaded ==
    at # "load" /\ at # "ended" =>
       /\ telemetry.endpoint \in Seq(STRING) \cup {"none"}
       /\ SpecificIntervals

ConfigInv ==
    /\ files \in [1..3 -> Files]
    /\ TypeOK
    /\ at = "load" => \A s \in Signal : providers[s] = "none"
    /\ Loaded

LEMMA ConfigInit == Init => ConfigInv
  <1> SUFFICES ASSUME Init
               PROVE  ConfigInv
    OBVIOUS
  <1>1. files \in [1..3 -> Files]
    BY DEF Init, Source
  <1>2. TypeOK
    BY DEF Init, TypeOK, Places
  <1> QED
    BY <1>1, <1>2 DEF Init, ConfigInv, Loaded

LEMMA ConfigLoad ==
    ASSUME ConfigInv, Load
    PROVE  ConfigInv'
  <1>1. UNCHANGED <<files, providers, ends>> /\ at' = "build_metrics"
    BY DEF Load
  <1>2. timers' \in [Ticker -> Nat]
    BY IntervalIsNat DEF Load, ConfigInv
  <1>3. /\ telemetry'.enabled \subseteq Signal
        /\ telemetry'.endpoint \in Seq(STRING) \cup {"none"}
    BY EndpointIsPath DEF Load, ConfigInv, Enabled
  <1>4. SpecificIntervals'
    <2>1. DOMAIN files = 1..3
      BY DEF ConfigInv
    <2> SUFFICES ASSUME NEW t \in Ticker
                 PROVE  timers'[t] =
                          IF Gives(t) # {} THEN LastOf(t)
                          ELSE IF Gives("interval") # {} THEN LastOf("interval")
                          ELSE 60
      BY <1>1 DEF SpecificIntervals, Gives, LastOf
    <2> QED
      BY <2>1, SettingIsLast DEF Load, Interval
  <1>5. TypeOK'
    BY <1>1, <1>2, <1>3 DEF Load, ConfigInv, TypeOK, Places, ends
  <1> QED
    BY <1>1, <1>3, <1>4, <1>5 DEF ConfigInv, Loaded

(* After the load nothing of the configuration changes.                    *)
LEMMA ConfigStays ==
    ASSUME ConfigInv, at \notin {"load", "ended"}, UNCHANGED config, TypeOK',
           at' # "load"
    PROVE  ConfigInv'
  <1>1. \A key : Gives(key)' = Gives(key) /\ LastOf(key)' = LastOf(key)
    BY DEF Gives, LastOf, config
  <1>2. SpecificIntervals'
    BY <1>1 DEF ConfigInv, Loaded, SpecificIntervals, config
  <1> QED
    BY <1>2 DEF ConfigInv, Loaded, config

LEMMA ConfigAbort ==
    ASSUME ConfigInv, NEW code \in {1, 101}, Abort(code)
    PROVE  ConfigInv'
  <1>1. TypeOK'
    BY DEF Abort, ConfigInv, TypeOK, Dropped, Places, config
  <1> QED
    BY <1>1 DEF Abort, ConfigInv, Loaded, config

LEMMA ConfigBuild ==
    ASSUME ConfigInv, BuildTelemetry
    PROVE  ConfigInv'
  <1>1. CASE Abort(1)
    BY <1>1, ConfigAbort
  <1>2. CASE ~Abort(1)
    <2>1. PICK s \in Signal, here \in Places, next \in Places \ {"load"} :
             Build(s, here, next) /\ here \notin {"load", "ended"}
      BY DEF BuildTelemetry, Signal, Places
    <2>2. TypeOK'
      BY <1>2, <2>1 DEF Build, ConfigInv, TypeOK, config, ends
    <2> QED
      BY <1>2, <2>1, <2>2, ConfigStays DEF Build
  <1> QED
    BY <1>1, <1>2

LEMMA ConfigRun ==
    ASSUME ConfigInv,
           \/ InstallSubscriber \/ Connect \/ Login \/ Info \/ Monitor
           \/ StartTickers \/ Run
    PROVE  ConfigInv'
  <1>1. CASE Abort(1) \/ Abort(101)
    BY <1>1, ConfigAbort
  <1>2. CASE /\ at \notin {"load", "ended"}
             /\ Done("ok") \/ Done("error")
    <2>1. TypeOK'
      BY <1>2 DEF Done, ConfigInv, TypeOK, Places, config
    <2> QED
      BY <1>2, <2>1, ConfigStays DEF Done
  <1>3. CASE /\ at \notin {"load", "ended"} /\ at' \in Places \ {"load"}
             /\ UNCHANGED <<config, providers, ends>>
    <2>1. TypeOK'
      BY <1>3 DEF ConfigInv, TypeOK, config, ends
    <2> QED
      BY <1>3, <2>1, ConfigStays
  <1>4. CASE /\ at = "logout" /\ at' = "stop_logs"
             /\ result' = "ok" /\ failed' = failed \cup {at}
             /\ UNCHANGED <<config, providers, errors, status>>
    <2>1. TypeOK'
      BY <1>4 DEF ConfigInv, TypeOK, Places, config
    <2> QED
      BY <1>4, <2>1, ConfigStays
  <1> QED
    BY <1>1, <1>2, <1>3, <1>4
    DEF InstallSubscriber, Connect, Login, Info, Monitor, StartTickers, Run,
        Step, Places

LEMMA ConfigClose ==
    ASSUME ConfigInv, ShutdownTelemetry \/ Return
    PROVE  ConfigInv'
  <1>1. CASE ShutdownTelemetry
    <2>1. PICK s \in Signal, here \in Places, next \in Places \ {"load"} :
             Stop(s, here, next) /\ here \notin {"load", "ended"}
      BY <1>1 DEF ShutdownTelemetry, Signal, Places
    <2>2. CASE providers[s] # "up"
      <3>1. TypeOK'
        BY <2>1, <2>2 DEF Stop, ConfigInv, TypeOK, config, ends
      <3> QED
        BY <2>1, <2>2, <3>1, ConfigStays DEF Stop
    <2>3. CASE providers[s] = "up"
      <3>1. PICK r \in {"ok", "error"} :
               /\ at' = next
               /\ providers' = [providers EXCEPT ![s] = "down"]
               /\ errors' = IF r = "ok" THEN errors ELSE errors \cup {s}
               /\ failed' = IF r = "ok" THEN failed ELSE failed \cup {at}
               /\ UNCHANGED <<config, result, status>>
        BY <2>1, <2>3 DEF Stop, AfterShutdown
      <3>2. failed' \subseteq Places
        BY <3>1 DEF ConfigInv, TypeOK
      <3>3. errors' \subseteq Signal
        BY <3>1 DEF ConfigInv, TypeOK
      <3>4. providers' \in [Signal -> {"none", "up", "down", "dropped"}]
        BY <3>1 DEF ConfigInv, TypeOK
      <3>5. \A x \in Signal : providers'[x] # "none" => x \in telemetry.enabled
        BY <2>3, <3>1 DEF ConfigInv, TypeOK
      <3>6. TypeOK'
        BY <3>1, <3>2, <3>3, <3>4, <3>5 DEF ConfigInv, TypeOK, config
      <3> QED
        BY <2>1, <3>1, <3>6, ConfigStays DEF Stop
    <2> QED
      BY <2>2, <2>3
  <1>2. CASE Return
    <2>1. TypeOK'
      BY <1>2 DEF Return, Status, ConfigInv, TypeOK, Places, config
    <2> QED
      BY <1>2, <2>1, ConfigStays DEF Return
  <1> QED
    BY <1>1, <1>2

LEMMA ConfigNext == ConfigInv /\ [Next]_vars => ConfigInv'
  <1> SUFFICES ASSUME ConfigInv, [Next]_vars
               PROVE  ConfigInv'
    OBVIOUS
  <1>1. CASE UNCHANGED vars
    <2>1. TypeOK'
      BY <1>1 DEF ConfigInv, TypeOK, vars, config, ends
    <2>2. at \notin {"load", "ended"} => ConfigInv'
      BY <1>1, <2>1, ConfigStays DEF vars
    <2> QED
      BY <1>1, <2>1, <2>2 DEF ConfigInv, Loaded, vars, config
  <1>2. CASE LoadFails
    BY <1>2, ConfigAbort DEF LoadFails
  <1> QED
    BY <1>1, <1>2, ConfigLoad, ConfigBuild, ConfigRun, ConfigClose DEF Next

LEMMA ConfigInvariant == Spec => []ConfigInv
  BY ConfigInit, ConfigNext, PTL DEF Spec

(* Every variable keeps its type, the timers and the providers included.   *)
THEOREM StartupTypes == Spec => []TypeOK
  <1>1. ConfigInv => TypeOK
    BY DEF ConfigInv
  <1> QED
    BY <1>1, ConfigInvariant, PTL

(* Of three files whatever they hold, the last to give the interval of one *)
(* check decides it, then the last to give one for both, then the default. *)
THEOREM IntervalsAreSpecific == Spec => []SpecificIntervals
  <1>1. ConfigInv => SpecificIntervals
    BY DEF ConfigInv, Loaded, SpecificIntervals
  <1> QED
    BY <1>1, ConfigInvariant, PTL

-----------------------------------------------------------------------------
(* Endpoints.  The last part of a signal's endpoint is the signal.         *)
LEMMA SuffixIsLast ==
    ASSUME NEW s \in Signal, NEW path \in Seq(STRING),
           IsSuffix(SignalPath(s), path)
    PROVE  path # <<>> /\ path[Len(path)] = s
  <1>1. Reverse(SignalPath(s)) = <<s, "v1">>
    BY DEF Reverse, SignalPath
  <1>2. Len(Reverse(path)) = Len(path) /\ Reverse(path) \in Seq(STRING)
    BY DEF Reverse
  <1>3. /\ 2 <= Len(path)
        /\ SubSeq(<<s, "v1">>, 1, 2) = SubSeq(Reverse(path), 1, 2)
    BY <1>1, <1>2 DEF IsSuffix, IsPrefix
  <1>4. SubSeq(<<s, "v1">>, 1, 2)[1] = s
    OBVIOUS
  <1>5. SubSeq(Reverse(path), 1, 2)[1] = Reverse(path)[1]
    BY <1>2, <1>3
  <1>6. Reverse(path)[1] = path[Len(path)]
    BY <1>3 DEF Reverse
  <1> QED
    BY <1>3, <1>4, <1>5, <1>6

(* A set of numbers up to n that has one has a greatest.                   *)
LEMMA GreatestExists ==
    ASSUME NEW n \in Nat, NEW S, S \subseteq 1..n, S # {}
    PROVE  Max(S) \in S
  <1> DEFINE T == {n - x : x \in S}
         Less == {ss \in Nat \X Nat : ss[1] < ss[2]}
  <1>1. T \subseteq Nat /\ T # {}
    <2>1. \A x \in S : n - x \in Nat
      OBVIOUS
    <2> QED
      BY <2>1
  <1>2. IsWellFoundedOn(Less, Nat)
    BY NatLessThanWellFounded DEF OpToRel
  <1>3. PICK y \in T : \A z \in T : ~(<<z, y>> \in Less)
    <2> HIDE DEF T, Less
    <2> QED
      BY <1>1, <1>2, WFMin
  <1>4. \A z \in T : ~(z < y)
    BY <1>1, <1>3
  <1>5. PICK x \in S : y = n - x
    OBVIOUS
  <1>6. ASSUME NEW z \in S
        PROVE  x >= z
    <2>1. ~(n - z < n - x)
      BY <1>4, <1>5
    <2>2. n \in Nat /\ x \in Nat /\ z \in Nat
      OBVIOUS
    <2> QED
      BY <2>1, <2>2
  <1> QED
    BY <1>6 DEF Max

LEMMA TrimmedIsPath ==
    ASSUME NEW path \in Seq(STRING)
    PROVE  Trimmed(path) \in Seq(STRING)
  <1> DEFINE I == {i \in 1..Len(path) : path[i] # ""}
             last == IF I # {} THEN Max(I) ELSE 0
  <1>1. Trimmed(path) = SubSeq(path, 1, last)
    BY DEF Trimmed, SelectLastInSeq
  <1>2. Len(path) \in Nat
    OBVIOUS
  <1>3. last \in 0..Len(path)
    <2>1. I \subseteq 1..Len(path)
      BY Zenon
    <2> HIDE DEF I
    <2>2. I # {} => Max(I) \in 1..Len(path)
      BY <1>2, <2>1, GreatestExists
    <2> QED
      BY <1>2, <2>2
  <1>4. ASSUME NEW n \in 0..Len(path)
        PROVE  SubSeq(path, 1, n) \in Seq(STRING)
    OBVIOUS
  <1> HIDE DEF last
  <1> QED
    BY <1>1, <1>3, <1>4

LEMMA OwnLastPart ==
    ASSUME NEW s \in Signal, NEW path \in Seq(STRING)
    PROVE  HttpEndpoint(path, s)[Len(HttpEndpoint(path, s))] = s
  <1>1. CASE IsSuffix(SignalPath(s), path)
    BY <1>1, SuffixIsLast DEF HttpEndpoint
  <1>2. CASE ~IsSuffix(SignalPath(s), path)
    <2> DEFINE t == Trimmed(path)
    <2>1. t \in Seq(STRING)
      BY TrimmedIsPath
    <2>2. HttpEndpoint(path, s) = t \o SignalPath(s)
      BY <1>2 DEF HttpEndpoint
    <2> HIDE DEF t
    <2>3. /\ Len(t \o <<"v1", s>>) = Len(t) + 2
          /\ (t \o <<"v1", s>>)[Len(t) + 2] = s
      BY <2>1
    <2> QED
      BY <2>2, <2>3 DEF SignalPath
  <1> QED
    BY <1>1, <1>2

(* Over HTTP no two signals are exported to one URL, whatever the path of  *)
(* the configured endpoint and the slashes at its end.                     *)
THEOREM EndpointsAreOwn == Spec => []OwnEndpoints
  <1>1. ConfigInv => OwnEndpoints
    <2> SUFFICES ASSUME ConfigInv, at = "loop", telemetry.endpoint # "none",
                        NEW s \in telemetry.enabled,
                        NEW t \in telemetry.enabled, Url(s) = Url(t)
                 PROVE  s = t
      BY DEF OwnEndpoints
    <2>1. s \in Signal /\ t \in Signal
      BY DEF ConfigInv, TypeOK
    <2>2. telemetry.endpoint \in Seq(STRING)
      BY DEF ConfigInv, Loaded
    <2> QED
      BY <2>1, <2>2, OwnLastPart DEF Url
  <1> QED
    BY <1>1, ConfigInvariant, PTL
=============================================================================
