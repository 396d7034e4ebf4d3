------------------------------- MODULE Startup -------------------------------
(***************************************************************************)
(* main (src/src/main.rs) around the monitor: the configuration merged     *)
(* from three optional TOML files (src/src/config.rs), the telemetry       *)
(* providers built from it and shut down at the end                        *)
(* (src/src/telemetry/otel.rs), the steps in between that may fail, and    *)
(* the exit status.                                                        *)
(*                                                                         *)
(* A file is a function from the settings it gives to their values.  The   *)
(* path of an OTLP endpoint is the sequence of its segments.               *)
(***************************************************************************)
EXTENDS Integers, Sequences, SequencesExt

CONSTANT Files     \* what the files may hold, an empty one or none included

Source    == <<"./config", "$HOME/.config/nr5103/config", "/etc/nr5103/config">>
Signal    == {"metrics", "traces", "logs"}
Ticker    == {"internet", "signal"}
Malformed == -1    \* an interval that is no u64

(* What a file gives of those settings whose values matter here.           *)
ASSUME FilesAssumption ==
    \A file \in Files :
       /\ \A key \in {"interval"} \cup Ticker :
             key \in DOMAIN file => file[key] \in Nat \cup {Malformed}
       /\ "endpoint" \in DOMAIN file => file["endpoint"] \in Seq(STRING)

MonitorKeys == {"monitor", "interval", "internet", "signal", "internet_enabled"}

VARIABLES
    at,         \* where main is
    files,      \* the three files
    timers,     \* the intervals of the two tickers
    telemetry,  \* TelemetryConfig
    providers,  \* the providers of TelemetryRuntime
    protocol,   \* RouterConfig's protocol
    result,     \* monitor_result
    errors,     \* the signals whose shutdown failed
    status,     \* the exit status, -1 before the end
    failed      \* history: the steps of the program that have failed

config == <<files, timers, telemetry, protocol>>
ends   == <<result, errors, status, failed>>
vars   == <<at, config, providers, ends>>

Places == {"load", "build_metrics", "build_traces", "build_logs",
           "subscriber", "connect", "login", "info", "monitor", "tickers",
           "loop", "logout", "stop_logs", "stop_metrics", "stop_traces",
           "return", "ended"}

TypeOK ==
    /\ at \in Places
    /\ timers \in [Ticker -> Nat]
    /\ telemetry.enabled \subseteq Signal
    /\ providers \in [Signal -> {"none", "up", "down", "dropped"}]
    /\ \A s \in Signal : providers[s] # "none" => s \in telemetry.enabled
    /\ result \in {"none", "ok", "error"} /\ errors \subseteq Signal
    /\ status \in {-1, 0, 1, 101} /\ failed \subseteq Places

-----------------------------------------------------------------------------
(* load_config.                                                            *)

(* What the builder of the config crate makes of two sources.              *)
Over(later, earlier) ==
    [key \in DOMAIN later \cup DOMAIN earlier |->
        IF key \in DOMAIN later THEN later[key] ELSE earlier[key]]

(* Mutant: the first file that gives a setting wins.                       *)
MergedFirstWins == Over(files[1], Over(files[2], files[3]))

Merged == Over(files[3], Over(files[2], files[1]))

Setting(key, default) ==
    IF key \in DOMAIN Merged THEN Merged[key] ELSE default

Enabled == {s \in Signal : Setting(s, FALSE)}

(* MonitorConfig::internet_interval, signal_interval: interval stands in.  *)
Interval(ticker) == Setting(ticker, Setting("interval", 60))

(* Mutant: an interval is read as a signed number.                         *)
DecodesSigned ==
    /\ "router" \in DOMAIN Merged
    /\ MonitorKeys \cap DOMAIN Merged # {}

(* The tables [router] and [monitor] are required, what is given must have *)
(* its type; only merged values count, and an interval of 0 passes.        *)
Decodes ==
    /\ "router" \in DOMAIN Merged
    /\ MonitorKeys \cap DOMAIN Merged # {}
    /\ \A t \in {"interval"} \cup Ticker : Setting(t, 60) # Malformed

Init ==
    /\ at = "load"
    /\ files \in [DOMAIN Source -> Files]
    /\ timers = [t \in Ticker |-> 0] /\ protocol = "none"
    /\ telemetry = [enabled |-> {}]
    /\ providers = [s \in Signal |-> "none"]
    /\ result = "none" /\ errors = {} /\ status = -1 /\ failed = {}

(* An error before there is a runtime to shut down: main's `?` drops what  *)
(* has been built.                                                         *)
Dropped(ps) == [s \in Signal |-> IF ps[s] = "up" THEN "dropped" ELSE ps[s]]

Abort(code) ==
    /\ at' = "ended" /\ status' = code /\ failed' = failed \cup {at}
    /\ providers' = Dropped(providers)
    /\ UNCHANGED <<config, result, errors>>

Load ==
    /\ at = "load"
    /\ Decodes
    /\ timers' = [t \in Ticker |-> Interval(t)]
    /\ protocol' = Setting("protocol", "http")
    /\ telemetry' = [enabled       |-> Enabled,
                     transport     |-> Setting("transport", "grpc"),
                     authorization |-> Setting("authorization", "none"),
                     endpoint      |-> Setting("endpoint", "none")]
    /\ at' = "build_metrics"
    /\ UNCHANGED <<files, providers, ends>>

(* A file that is no TOML fails the load as well, whatever the others say. *)
LoadFails ==
    /\ at = "load"
    /\ ~Decodes \/ \E i \in DOMAIN files : DOMAIN files[i] # {}
    /\ Abort(1)

-----------------------------------------------------------------------------
(* TelemetryRuntime::init.                                                 *)

SignalPath(signal) == <<"v1", signal>>

(* A trailing slash is an empty last segment.                              *)
Trimmed(endpoint) ==
    SubSeq(endpoint, 1, SelectLastInSeq(endpoint, LAMBDA part : part # ""))

(* Mutant: an endpoint with the path of any signal is left as it is.       *)
AnySignalPath(endpoint, signal) ==
    IF \E s \in Signal : IsSuffix(SignalPath(s), endpoint)
      THEN endpoint ELSE Trimmed(endpoint) \o SignalPath(signal)

(* http_signal_endpoint.                                                   *)
HttpEndpoint(endpoint, signal) ==
    IF IsSuffix(SignalPath(signal), endpoint)
      THEN endpoint ELSE Trimmed(endpoint) \o SignalPath(signal)

(* authorization_metadata: over gRPC the value must fit into a header.     *)
Buildable ==
    ~(telemetry.transport = "grpc" /\ telemetry.authorization = "bad")

Build(signal, here, next) ==
    /\ at = here
    /\ \/ /\ signal \notin telemetry.enabled
          /\ at' = next
          /\ UNCHANGED <<config, providers, ends>>
       \/ /\ signal \in telemetry.enabled /\ Buildable
          /\ at' = next
          /\ providers' = [providers EXCEPT ![signal] = "up"]
          /\ UNCHANGED <<config, ends>>
       \/ signal \in telemetry.enabled /\ Abort(1)

BuildTelemetry ==
    \/ Build("metrics", "build_metrics", "build_traces")
    \/ Build("traces",  "build_traces",  "build_logs")
    \/ Build("logs",    "build_logs",    "subscriber")

(* install_subscriber, with all providers up and not yet in the async      *)
(* block.                                                                  *)
InstallSubscriber ==
    /\ at = "subscriber"
    /\ \/ at' = "connect" /\ UNCHANGED <<config, providers, ends>>
       \/ Abort(1)

-----------------------------------------------------------------------------
(* The async block: new, login, get_basic_information, Monitor::new, run.  *)

Done(r) ==
    /\ result' = r
    /\ failed' = IF r = "ok" THEN failed ELSE failed \cup {at}
    /\ at' = "stop_logs"
    /\ UNCHANGED <<config, providers, errors, status>>

Step(here, next) ==
    \/ /\ at = here /\ at' = next
       /\ UNCHANGED <<config, providers, ends>>
    \/ at = here /\ Done("error")

Connect ==
    \/ protocol \in {"http", "https"} /\ Step("connect", "login")
    \/ protocol \notin {"http", "https"} /\ at = "connect" /\ Done("error")

Login   == Step("login", "info")
Info    == Step("info", "monitor")
Monitor == Step("monitor", "tickers")

(* run makes both tickers, also if signal checks are disabled.             *)
Tickers == {"internet", "signal"}

(* tokio::time::interval panics on a period of zero.                       *)
StartTickers ==
    /\ at = "tickers"
    /\ \/ /\ \A t \in Tickers : timers[t] > 0
          /\ at' = "loop"
          /\ UNCHANGED <<config, providers, ends>>
       \/ /\ \E t \in Tickers : timers[t] = 0
          /\ Abort(101)

(* run returns Ok, also if the logout at its end fails.                    *)
Run ==
    \/ at = "loop" /\ at' = "logout" /\ UNCHANGED <<config, providers, ends>>
    \/ at = "logout" /\ Done("ok")
    \/ /\ at = "logout" /\ at' = "stop_logs"
       /\ result' = "ok" /\ failed' = failed \cup {at}
       /\ UNCHANGED <<config, providers, errors, status>>

-----------------------------------------------------------------------------
(* TelemetryRuntime::shutdown: a failure does not keep the next provider   *)
(* from its shutdown.                                                      *)

(* Mutant: the first failure is returned at once.                          *)
ReturnAtOnce(r, next) == IF r = "error" THEN "return" ELSE next

AfterShutdown(r, next) == next

Stop(signal, here, next) ==
    /\ at = here
    /\ IF providers[signal] = "up"
         THEN \E r \in {"ok", "error"} :
                 /\ at' = AfterShutdown(r, next)
                 /\ providers' = [providers EXCEPT ![signal] = "down"]
                 /\ errors' = IF r = "ok" THEN errors ELSE errors \cup {signal}
                 /\ failed' = IF r = "ok" THEN failed ELSE failed \cup {at}
                 /\ UNCHANGED <<config, result, status>>
         ELSE at' = next /\ UNCHANGED <<config, providers, ends>>

ShutdownTelemetry ==
    \/ Stop("logs",    "stop_logs",    "stop_metrics")
    \/ Stop("metrics", "stop_metrics", "stop_traces")
    \/ Stop("traces",  "stop_traces",  "return")

(* Mutant: the result of the shutdown is only logged.                      *)
StatusOfMonitor == IF result = "ok" THEN 0 ELSE 1

Status == IF result = "ok" /\ errors = {} THEN 0 ELSE 1

Return ==
    /\ at = "return"
    /\ at' = "ended" /\ status' = Status
    /\ UNCHANGED <<config, providers, result, errors, failed>>

Next ==
    \/ Load \/ LoadFails \/ BuildTelemetry \/ InstallSubscriber
    \/ Connect \/ Login \/ Info \/ Monitor \/ StartTickers \/ Run
    \/ ShutdownTelemetry \/ Return

Spec == Init /\ [][Next]_vars

-----------------------------------------------------------------------------
(* Properties.                                                             *)

(* Whatever fails on the way, in whatever order, ends in a status that     *)
(* makes systemd start the program again, and nothing else does.  Only the *)
(* logout after the loop may fail and go unreported: its failure is logged.*)
FailuresAreReported ==
    at = "ended" => (status # 0) = (failed \ {"logout"} # {})

(* main either tells every provider it has been asked for to shut down,    *)
(* whatever became of the monitor and of the other providers, or none: the *)
(* providers built so far are dropped if building the next one, or the     *)
(* subscriber, fails, and if the tickers panic.  Then nothing else has     *)
(* failed, no check has been made, and the status is not 0.                *)
Unflushed ==
    {"build_metrics", "build_traces", "build_logs", "subscriber", "tickers"}

ProvidersAreStopped ==
    at = "ended" =>
       \/ \A s \in telemetry.enabled : providers[s] = "down"
       \/ /\ \E step \in Unflushed : failed = {step}
          /\ status # 0
          /\ \A s \in Signal : providers[s] \in {"none", "dropped"}

(* What a file says of one check prevails over what any file says of both, *)
(* and of two files the later one prevails.                                *)
Gives(key) == {i \in DOMAIN files : key \in DOMAIN files[i]}

LastOf(key) ==
    files[CHOOSE i \in Gives(key) : \A j \in Gives(key) : j <= i][key]

SpecificIntervals ==
    at \notin {"load", "ended"} =>
       \A t \in Ticker :
          timers[t] = IF Gives(t) # {} THEN LastOf(t)
                      ELSE IF Gives("interval") # {} THEN LastOf("interval")
                      ELSE 60

(* Over HTTP, no two signals are exported to one URL.                      *)
Url(signal) == HttpEndpoint(telemetry.endpoint, signal)

OwnEndpoints ==
    at = "loop" /\ telemetry.transport = "http/protobuf"
                /\ telemetry.endpoint # "none"
       => \A s, t \in telemetry.enabled : Url(s) = Url(t) => s = t

(* A check that the configuration disables is not made.                    *)
DisabledIsNotChecked ==
    at = "loop" => Setting("internet_enabled", TRUE) \/ "internet" \notin Tickers
=============================================================================
