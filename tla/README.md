# A verification project for zyxel-nr5103-monitor

TLA+ models, TLC runs and TLAPS proofs about `zyxel-nr5103-monitor`, the daemon
that watches internet connectivity and 5G signal quality behind a Zyxel NR5103
router and recovers them by switching the access technology back and forth
("reload") or by rebooting the router. Source paths below are relative to the
repository; `monitor/mod.rs` is `src/monitor/mod.rs` in it.

## 1. The system

| part | source | state | operations |
|---|---|---|---|
| Monitor loop | `monitor/mod.rs` 110-253 | two counters of failed checks, `last_reboot`, two tokio intervals, the `ctrl_c()` future of the current iteration | biased `select!`: internet tick, signal tick, Ctrl+C; telemetry collection after every internet tick; logout at the end |
| Recovery | `monitor/mod.rs` 255-394 | locals: trigger, `reboot_allowed`, the band configuration read | re-authenticate; read band, switch, wait, restore, wait, verify; reboot and wait |
| InternetMonitor | `monitor/internet.rs` | none | `check`: healthy or degraded, never an error |
| SignalMonitor | `monitor/signal.rs` | none | `check`: fetch the status (renewing the session once if that fails), decide |
| Session | `monitor/auth.rs`, `client/auth.rs` | `session_key`, an atomic that is never cleared | `ensure_authenticated`, `login`, `logout` |
| ZyxelClient | `client/mod.rs`, `dal.rs`, `device.rs`, `cellular.rs` | session key, cookies, AES key fixed at start | one HTTP request with a 10 s timeout; DAL get and put; reboot |
| Encryption | `client/crypto.rs` | AES key, RSA key | encrypt a request, decrypt an answer |
| TelemetryCollector | `telemetry/metrics.rs` | counter baselines | collect a snapshot, record metrics |
| Router data | `telemetry/zyxel.rs` | none | parse DAL objects, sanitise labels |
| TelemetryRuntime | `telemetry/otel.rs` | providers | init, shutdown |
| Configuration | `config.rs` | none | load, defaults, inheritance |
| Program | `main.rs`, `deploy/*.service` | none | start, login, run, telemetry shutdown; restart by systemd |

All of it runs in one tokio task. The concurrency is with what is outside: the
two timers, the router (which answers, refuses, loses answers, drops sessions,
restarts), its administrator (who changes the same preference), and the user's
signals. The hard behaviour is what happens across an `await`: a decision taken
before and used after it, a request that was carried out although its answer was
lost, a recovery of several requests that fails in the middle, ticks and signals
that arrive while a handler runs.

What makes each part correct:

* Monitor loop: checks keep their interval; neither ticker starves; a failure
  count is given up only on evidence; Ctrl+C stops the program.
* Recovery: reboots are spaced by `min_interval`; a reload leaves the router's
  preference as it found it; a reboot is sent only while the condition that
  triggered recovery lasts; a lasting outage leads to reboots again and again.
  Together: the abstract `Watchdog`.
* SignalMonitor: an alarm has a cause, and it is known which ways of writing can
  cause a false one; a degradation that can be read from the answer is not
  overlooked.
* Session and ZyxelClient: what recovery sends after `ensure_authenticated`
  carries a key that the router accepts; an expired session is renewed; sessions
  are left behind only by losses and by runs that end without a logout; the
  router can decrypt what an accepted key carries.
* Telemetry: counters add up (attempts, successes, failures); what is exported
  of the router's traffic is never more than was carried, and less only by what
  precedes the first sample of a run or where the router's counters went back;
  gauges show what the router knew when it was asked.
* Program: whatever fails is in the exit status, but for the logout at the end,
  whose failure is logged; all telemetry providers are shut down, or, if one of
  the first steps fails or a ticker panics, none is and the status tells; the
  program is down only because somebody asked for it; whatever the way it ends, the router is left as it was found (it
  is not: `stopped_mid_reload`).

`PROJECT.json` lists every hazard at its line, with the properties that cover
it.

## 2. Modules

| module | models | EXTENDS |
|---|---|---|
| `Session` | the worth of the session key to the router, login, logout, `ensure_authenticated` | |
| `ZyxelClient` | sessions request by request: keys, answers, the router's open sessions and the AES key each was opened with; implements `Session` | |
| `Monitor` | the monitor task and its surroundings | `Session` |
| `Watchdog` | abstract: what a user is promised of recovery | |
| `MonitorWatchdog` | the mapping by which `Monitor` implements `Watchdog` | `Monitor` |
| `MonitorTelemetry` | the exported counters of recovery, over `Monitor`'s steps | `Monitor` |
| `Service` | kill, end and restart of the program around `Monitor` | `Monitor` |
| `Startup` | `main`: configuration, telemetry providers, exit status | |
| `Readings` | the signal decision and the gauges, from the router's loose text | |
| `Collector` | the exported traffic counters and their baselines | |
| `MCMonitor`, `MCMonitorTelemetry`, `MCService`, `MCZyxelClient`, `MCStartup`, `MCReadings`, `MCCollector` | TLC instances (the `MC*.cfg` files) | |
| `MonitorProofs`, `RecoveryProofs`, `WatchdogProofs` | proofs about `Monitor` | one another |
| `CompositionProofs` | proofs about `MonitorTelemetry` and `Service` | both, `RecoveryProofs` |
| `ClientProofs`, `StartupProofs`, `ReadingsProofs`, `CollectorProofs` | proofs about the others | their module |

Some definitions come with a variant just before them, commented "Mutant": what
a plausible bug would make of it. Nothing uses these; each stands for one
property that fails if the variant takes the definition's place.

### Session

`session` is `"none"`, `"live"` or `"stale"`: no key, a key the router accepts, a
key it does not. `Replies(key)` is what a request can be answered with: `"ok"`;
`"lost"` (done, but the caller sees an error); `"refused"` (not done, an error);
`"refused_in_body"` (not done, HTTP 200 with a body that says so). The callers
differ in what they make of the last one: DAL objects and the band update look
at the result, the session probe and `reboot()` do not. The sets of answers are
constants, so that a run or a theorem says which router it is about.

### ZyxelClient

A step is one request with its answer. `key` is `session_key`, 0 before the
first login; `opened` is the router's: for each key it has made up, the AES key
that it knows for that session, or that the session is closed. `Extract` is
`try_extract_session_key`, which runs before the body is understood, so that a
refused login can bring a key; `LoginSucceeds` looks at result and key. A login
may be answered, answered without a key, lost after the router did it, given up
on by the client's timeout and served later (`late`), refused, or refused with a
key. An acknowledged request may carry the session on under another key
(`Rolls`). `Renewal`, `Probe`, `LogoutFirst` and `Renew` are the three requests
of `ensure_authenticated`; `Quit` is the logout at the end, `Kill` any other
end, also in the middle of a login. Of encryption there is who knows what: each
run has an AES key of its own, told to the router by the login and by no other
request, under the RSA key that was fetched at the start (`rsa`, `Readable`).
The ciphers are opaque. Two histories account for sessions left behind: `losses`
counts keys and logouts that did not arrive, `walkouts` the runs that ended
without asking for a logout, because they were killed or because
`get_basic_information` failed (`main.rs:27`). `doubt` remembers that the router told a lie (a refusal in a 200 body, a
login without a key) or forgot a session since the last renewal began.

`ImplementsSession` says that the end of `ensure_authenticated` is one step of
`Session`, and that all else leaves the worth of the key alone, lets it
expire, or starts anew with the program. This is what lets `Monitor` take a
renewal for a single step.

### Monitor

`pc` names the await the task is at; an action is the code from one await to the
next, with every assignment it makes. The sub-steps that several handlers share
are operators: `InternetHealthy`, `InternetDegraded`, `SignalHealthy`,
`SignalDegraded`, `SignalError` are the results of the two checks, and go to
`ConnectivityPassed`, `ConnectivityFailed`, `SignalPassed`, `SignalFailed`,
`SignalUnknown` in a tick handler (`trigger = "none"`) or to
`ConnectivityVerified`, `RecoverySucceeds`, `FallBackToReboot` when they verify
a reload; `StartRecovery`, `FallBackToReboot`, `RecoverySucceeds`,
`RecoveryFails` are the edges of `recovery`.

| action | code |
|---|---|
| `TickInternet`, `TickSignal`, `Park`, `Wait`, `Shutdown` | the branches of the select, no branch ready, a unit of time |
| `InternetCheck`, `FetchSignal`, `RefreshForSignal` | the two checks |
| `Authenticate`, `GetBand`, `Switch`, `Restore`, `Reboot` | `recovery`, `try_reload_recovery`, `reboot_router` |
| `Collect`, `Logout` | telemetry collection, the end of `run` |
| `CtrlC`, `SessionExpires`, `AdminSets` | the surroundings, at any time |

Time is in whole units and part of the steps: a request takes `0..CallTimeout`,
a check `0..CheckTimeout`, a sleep its configured length. Each tick is due at a
fixed interval after the one before (`Burst`, tokio's default): `internet_lag`
and `signal_lag` say for how long a tick has been due. `last_reboot` is the age
of what the program remembers, `uptime` that of the router's last restart; the
difference between the two is the point of `RebootsAreSpaced`. Four variables are
history: `configured`, what the administrator last chose; `last_internet`, the
result of the last check; `doubt`, whether recovery's renewal took a refusal in a
200 body or a login without a key for a success (`Renews` tells), or the router
has dropped the session since; `spoiled`, whether a reload was left in the middle
(`LeavesTemporary`: the first write carried out but reported as failed, or the
second refused) or the administrator chose during one.

`ctrlc` and `handler` model tokio's signals: the first poll of `ctrl_c()`
installs the process's handler, before that SIGINT kills; afterwards only a
signal that comes while the task is parked on that future is noticed, and a
notice is dropped with the future if a tick is due when the task runs.

Abstractions: counters stop at `max_retries`, beyond which nothing tells them
apart; ages stop at `MinInterval` for the same reason; the backlog of a ticker
stops at `MaxLag`. A logout's answer does not matter and it may or may not
have ended the session. `collect` is up to four requests of which only the
time matters here.

### Watchdog and MonitorWatchdog

`Watchdog` has no loop, no tickers, no session and no requests: a router is
watched, found in trouble, possibly lent another preference, possibly restarted.
It says when a restart is allowed (permission is settled when the trouble is
detected, and age still rested at the restart; for an outage the last check has
found none), that a check inside a recovery is made with the router's own
preference, and that a recovery ends without a restart only if connectivity has
been seen again or no restart was permitted. `MonitorWatchdog` maps `since` to
the true age of the last restart (not to what the program remembers), `online`
to the last check, `recovering` to `trigger`, `borrowed` to the preference being
another than the configured one.

### MonitorTelemetry

The counters are incremented on edges of the control flow, which the module
names (`ReloadStarts`, `ReloadInVain`, `RebootAccepted`, ...), and `Record`
conjoins them to Monitor's step. Behaviours are followed until one counter
reaches `MaxRecoveries`.

### Service

`unit` is what systemd knows: `"starting"`, `"running"`, `"waiting"` (for
`RestartSec`) or `"inactive"`. `Run` is a step of Monitor; `StartUp` puts the
program's variables, `last_reboot` among them, back to their initial values and
leaves those of the router. `ExitStatus` is the end of `main`, which systemd
turns into `Disposition`. `Terminate` (SIGTERM, not handled) and `Crash` end the
process at any await.

### Startup

`files` are the three TOML files, each a function from the settings it gives to
their values. `Merged` is the merge key by key with the later file prevailing
(`Over`),
`Setting` a merged value or its default, `Interval` the inheritance of
`interval`, `Decodes` what `try_deserialize` insists on (the two required
tables; an interval that is a `u64`; 0 is one). `BuildTelemetry` builds the
providers in their order, with `?` dropping what has been built so far
(`Abort`), and so does `InstallSubscriber`; `Connect` to `Run` are the steps of
the async block, each of which may fail into `monitor_result`, but for the logout
at the end of `Run`; `StartTickers` panics on a period of zero, for both
tickers whatever is enabled; `ShutdownTelemetry` shuts logs, metrics and traces
down, collecting errors; `Return` is the status. `HttpEndpoint` is
`http_signal_endpoint` over the segments of a path. `failed` is history: the
steps that have failed.

### Readings

Answers are kept with the truth they render (`DeviceTruth`, `RadioTruth`), the
same quantity in every form the parsers know, and some they do not: fields that
are missing, words for numbers, decimal commas, names for 5G and for the status
of a port that are not on the lists.
`Sanitized`, `ParseF64`, `ParseUptime` (with the wrap-around of a release build)
read them; `SignalQualityIssue` is the decision of the check with its fallback
from `nsa_rsrp` to `intf_rsrp`; the collection is one action per request, the
fourth only if the status does not tell technology and band, and `RecordSnapshot` sets the gauges.
RSRP stands for the four kinds of reading, which go the same way.

### Collector

`collect` fetches the router's lists of interfaces and statistics, pairs them by
position (`Zip`), keeps the rows while the band configuration is fetched, and
records them one by one: `Delta` is what is added to the exported counter,
`Rebased` the new baseline. Baselines are by `Key`, type and sanitised name. One
counter in one direction stands for the eight of an interface, which are
recorded alike under their own keys. Meanwhile the router carries traffic, wraps
or resets its counters, and lists any of its interfaces in any order, some
without a value; the program may start anew. `carried` and `opening` are
history: the true traffic, and the part of it that precedes the first sample.

## 3. Runs

| run | question | result |
|---|---|---|
| `monitor_hostile` | Against a router that refuses, misreports and drops sessions, and an administrator who interferes, recovering by reload: are reboots spaced (`RebootsAreSpaced`), is the early decision still right when used (`CooldownKept`), is a connectivity reboot always for the last check seen (`RebootsAreForOutages`), is the temporary technology in force only inside a reload, but for kills, broken-off reloads and choices made meanwhile (`PreferenceIsRestored`), does recovery carry an accepted key, but for misled renewals and sessions dropped since (`RecoveryIsAuthenticated`), is each signal recovery counted once as success or failure (`SignalRecoveriesAddUp`), do reload attempts cover reloads that succeeded and reboots (`RebootsFollowReloads`)? | yes, 6.9 M states |
| `monitor_reliable` | With a router that does what it is asked: does a lasting outage restart the router again and again (`OutageEndsInReboots`), is the monitor a `Watchdog` (`KeepsThePromise`)? | yes |
| `monitor_roomy` | With an interval longer than any handler: no bursts (`ChecksKeepTheInterval`), no starvation (`SignalChecksRecur`), an expired session renewed (`SessionIsRenewed`)? | yes, 0.6 M states |
| `service` | With crashes, failed starts, stops, lost and refused answers: is the service down only on request (`DownOnRequestOnly`), is the failure count given up only on evidence (`ResetsNeedEvidence`)? | yes, 1.3 M states |
| `client` | Over two runs with lost, late, keyless and refused answers, expiry and restarts of the router: is every unused session owed to a key or logout that did not arrive or to a run that asked for no logout, one each (`NoStraySessions`), is a renewal's success worth something (`OkMeansLive`), can the router decrypt what an accepted key carries (`SharedSecret`), is it `Session` (`ImplementsSession`)? | yes, 0.5 M states |
| `startup` | For any three files and any failing step: is every failure in the status and nothing else (`FailuresAreReported`), are all providers shut down, or none and when (`ProvidersAreStopped`), does what a file says of one check prevail (`SpecificIntervals`), has each signal a URL of its own (`OwnEndpoints`)? | yes, 0.26 M states |
| `readings` | With readings missing, no numbers, written with a decimal comma, or under unknown names: is every alarm right or owed to one of three ways of writing (`AlarmsHaveACause`), a legible degradation seen (`DegradationIsSeen`), a sample what the router knew, in the one series it goes to (`DeviceSampleIsTrue`, `RadioSampleIsTrue`)? | yes, 5.2 M states |
| `collector` | Is never more exported than was carried (`NeverOverstated`), and nothing lost or counted twice between samples (`NothingLost`)? | yes, 3 M states |
| `lost_reboot_reply` | `RebootsAreSpaced` if a reboot's answer is lost | violated |
| `stopped_mid_reload` | `PreferenceSurvives` if the service is stopped during a reload | violated |
| `ctrl_c` | "Press `Ctrl+C` to stop." | violated while a handler runs |
| `internet_disabled` | "Enable external internet connectivity checks.", set to `false` | violated |

The violations are the findings in `PROJECT.json`, with the line of the
documentation each is at odds with. More that was met while modelling, of less
weight or not given a run of its own:

* A reload whose second write is refused, or whose session has gone by then,
  leaves the temporary technology in force, and the next reload takes it for
  the original (`README.md:97`). `PreferenceIsRestored` names it: it is `spoiled`
  from then on, until the administrator chooses again.
* With signal checks off, the default, and connectivity healthy nothing renews
  an expired session (`README.md:13`): `SessionIsRenewed` holds in
  `monitor_roomy` because signal checks are on.
* If an NSA answer lacks `NSA_RSRP`, `min_5g_rsrp` (`config.example.toml:74`) is
  held against the LTE anchor. `AlarmsHaveACause` names it as one of three causes
  of a false alarm; the others are a name for 5G that is not on the list, and a
  decimal comma, which costs a factor of ten.
* On NR5G-SA the serving cell's readings are exported as those of `lte`
  (`README.md:167`), as `RadioSampleIsTrue` says.
* A LAN port whose status is missing or unknown is exported as one whose link is
  down (`README.md:187`), as `DeviceSampleIsTrue` says.
* If `get_basic_information` fails, the program ends without logging out of the
  session it has just opened (`main.rs:27`): a walkout of `NoStraySessions`.
* If a later exporter or the subscriber cannot be built, the providers that have
  been are dropped without a shutdown, and an interval of 0 panics before the
  loop, with the same effect: the second arm of `ProvidersAreStopped`.
* The README takes the configuration from "the first available TOML source" and
  says later sources override earlier ones; the code does the latter.
* A router that prefers `NR5G-SA` is switched to `Auto` (`Temporary`), while the
  README says "to `NR5G-SA`".
* A handler that outlasts the interval (the default `wait_after` does) is
  followed by the missed checks without a pause, because tokio's intervals burst:
  `max_retries` then spans no time. `ChecksKeepTheInterval` therefore holds only
  in the roomy run and, proved, with any interval that is `Roomy` (section 4).
* A reload that fails on a request is in `reload.attempts` but in neither
  `successes` nor `failures`.
* A signal verification that renews the session and fails to log in leaves a
  dead key for the fall-back reboot: `RecoveryIsAuthenticated` excepts it. It
  also excepts, as `doubt`, a renewal whose probe was refused in a 200 body or
  whose login brought no key, and a session dropped since.

Bounds. Two retries for each check make the counters' middle state visible;
intervals of 2 to 4 units, steps of 0 or 1 per request and waits of 1 make every
order of the two tickers and every lateness up to a whole interval occur, and a
recovery (up to 10 units) can outlast the cooldown or not. Two technologies are
the two that the code names; `monitor_reliable` has a third. `MaxLag` of one
interval lets a tick be due again right after it was served. The roomy run
has an interval of 10 units because the longest handler then takes 9 past the
due time: a signal check with session refresh, a recovery by reboot and its wait.
Two recoveries (`MaxRecoveries`) let the counts of one be wrong in the next.
`monitor_hostile` has the shortest intervals and `service` short ones, since
their questions are about recoveries and about the ends of runs. The
administrator of these runs chooses one technology, at any time: what the reload
has switched to, or has read. In `client` two runs, five keys, three losses
(`MaxLosses`) and two RSA pairs let a session
be carried on, lost and renewed in one run and a late login of it arrive in the
next, after a restart of the router. `startup` gives each of the three files one
of nineteen contents: empty, required tables alone, intervals general, specific,
zero and malformed, each telemetry switch over both transports, a bad header, a
trailing slash, another signal's path, and four files that are whole. `readings`
has a level on either side of the threshold, an uptime with all four components,
labels of three technologies under different spellings, one of them (NR-DC) not
among those the code knows, none or two secondary carriers, and a width of 18
bits, which that uptime fits and garbage exceeds. A level of the serving cell is
a number, a word or has a decimal comma; `NSA_RSRP` carries its unit, is NaN or is
missing. In `collector` an IP and an Ethernet interface have one
name and a third interface is not exported; counters modulo 3 that start
anywhere, and traffic of 2 units for each interface, let a counter wrap, or be
reset and pass its baseline again before the next sample. The proofs do without
these bounds.

Fairness. `FairSpec` asks that the task takes a step if it can: tokio polls a
woken task, timers fire, every request ends by its timeout. Nothing is asked of
the router, its administrator or the user. Deadlock is checked everywhere but in
`startup` and `internet_disabled`, where `main` ends.

## 4. Proofs

All are proved for every value of the constants allowed by the modules'
assumptions (`SessionAssumption`, `MonitorAssumption`, `ClientAssumption`, ...).
These say of what kind the values are: `FilesAssumption`, for one, that a file
gives intervals as numbers or something malformed, and an endpoint as the
segments of a path; `ReadingsAssumption`, that the router writes levels, and
uptimes that fit 64 bits, in the forms the parsers were written for or as
garbage; `LabelsAssumption`, that a router on LTE does not call it by a name for
5G. What else a theorem assumes, of the router mostly, is its
`ASSUME`.

Every invariant and every action property that a passing run checks is stated by
a theorem; so is each refinement.

`MonitorProofs`:

* `TypeCorrect`: `Spec => []TypeOK`. `TypeOK` is not inductive: `Restore` writes
  `original` to the router. The strengthening is `OriginalRead`.
* `CooldownIsKept`: `Spec => []CooldownKept`, by `PermissionHolds`:
  `reboot_allowed` implies that `last_reboot` has cooled down, which time
  preserves and every recovery clears.
* `RebootSpacing`: if `"lost"` is not among the answers,
  `Spec => []RebootsAreSpaced`, by `RestartsAreRemembered`: the program remembers
  every restart and takes none to be older than it is. The run
  `lost_reboot_reply` shows that the assumption is needed.

`RecoveryProofs`:

* `RebootsNeedOutages`: `Spec => []RebootsAreForOutages`, by `TriggerFits` (which
  values of `trigger` go with which `pc`) and `EvidenceFits` (in a recovery for
  connectivity the last check was degraded).
* `EvidenceForResets`: `Spec => ResetsNeedEvidence`, if no refusal is hidden in a
  200 body; an action property from the same invariants.
* `RecoveryAuthenticated`: `Spec => []RecoveryIsAuthenticated`, of any router,
  by `KeyAccepted`, which adds the check that comes between a reload's requests
  and the reboot: the key is accepted, or `doubt` says what has become of it.
* `PreferenceRestored`: `Spec => []PreferenceIsRestored`, of any router and
  administrator, by `PreferenceInv`: while a reload has writes to make, the
  original is what was configured, unless something was `spoiled`; a write that
  is not acknowledged is sorted by whether it was carried out.
* `IntervalIsKept`: `Spec => []ChecksKeepTheInterval`, if the interval is `Roomy`:
  no shorter than the longest handler of either ticker (`InternetTime`,
  `SignalTime`), counted with every request at its timeout. The invariant
  `InTime` bounds, for each await, the lateness by what the handler can still
  take; `VerifyTime` to `RecoveryTime` are these times, summed from the end of a
  handler back to its start. The bound is sharp: `monitor_roomy` takes it with
  equality, and TLC finds a violation at an interval of 9; likewise with
  recovery by reload and metrics (21 units hold, 20 do not). In seconds: the
  default configuration (interval 60, `wait_after` 60, requests of 10, reload
  waits of 15, a check of 5) would need an interval of 170, or of 265 with
  signal checks. With the interval it has, checks can follow one another at once
  after a reboot.

`WatchdogProofs`: `PromiseKept`, `Spec => KeepsThePromise`, the refinement, if the
router is `Dependable`: every answer is `"ok"`, logins succeed, sessions do not
expire and nobody else changes the preference, which is what `Watchdog` promises
its user in return for. Each action of `Monitor` is shown
to be a step of `Watchdog` or to change nothing it sees, from the invariants
above and three more: inside a recovery the session is live (`Authenticated`), the
preference does not get out of hand (`Unspoiled`), and the program remembers no
restart that never was (`NoneImagined`).

`CompositionProofs`, what becomes of the monitor inside the modules around it:

* `RecordingIsPassive`: `RecordedSpec => Spec`. `monitor_hostile` runs
  `RecordedSpec`; by this theorem those about `Spec` hold there as well.
* `SignalRecoveriesBalance`: `RecordedSpec => []SignalRecoveriesAddUp`, for
  either method, by `KnowsWhy` (`TriggerFits` and `EvidenceFits`) carried over.
* `ReloadsComeFirst`: `RecordedSpec => []RebootsFollowReloads`, by
  `ReloadsCovered`: attempts cover successes, reboots and the reload that is
  under way.
* `ServiceTypes`: `ServiceSpec => []ServiceTypeOK`, and `ServiceStaysUp`:
  `ServiceSpec => []DownOnRequestOnly`, by `EndsOnRequest`: a run ends by itself
  only after Ctrl+C.
* `ServiceRebootsNeedOutages`, `ServiceRecoveryAuthenticated` and
  `ServiceEvidenceForResets`: `[]RebootsAreForOutages`,
  `[]RecoveryIsAuthenticated` and `ResetsNeedEvidence` of `ServiceSpec`, the last
  if no refusal is hidden in a 200 body. `ServiceStep` sorts the steps of the service:
  a step of the monitor, a start with everything forgotten, an end, or nothing
  that the program sees. `RebootsAreSpaced` does not carry over, since a new run
  has forgotten when the router was last restarted, and `PreferenceIsRestored`
  does not either: `stopped_mid_reload`.

`ClientProofs`, for any number of runs, keys, losses and RSA pairs, over http and
https:

* `ClientTypes`, `SecretIsShared`, `RenewalsAreLive`: `[]TypeOK`,
  `[]SharedSecret`, `[]OkMeansLive`, from one invariant: keys are made up in
  order and none is ahead of the router (`KeysInOrder`), inside
  `ensure_authenticated` there is no result yet (`ResultFits`).
* `SessionsAccounted`: `[]NoStraySessions`, by `Accounted`, a count of the open
  sessions that no run uses against what is `Owed`, with lemmas about the
  cardinality of a set that gains or loses a key. `Tallies` bounds the walkouts
  by the runs that have ended: none is booked twice.
* `SessionImplemented`: `Spec => ImplementsSession`, one lemma for each outcome of
  each request.

`StartupProofs`, for any set of files:

* `NoFailureIsLost`, `AllAreStopped`: `[]FailuresAreReported`,
  `[]ProvidersAreStopped`. The invariant knows for each place of `main` what can have failed by then
  (`FailureKnown`) and which providers are up and which down there
  (`ProvidersFit`).
* `StartupTypes` and `IntervalsAreSpecific`: `[]TypeOK`, `[]SpecificIntervals`, by
  `ConfigInv`: from the load on, the timers are those of the files. The property
  picks the last file that gives a setting; `SettingIsLast` shows that the merge
  does the same.
* `EndpointsAreOwn`: `[]OwnEndpoints`: what a signal is exported to ends in that
  signal (`OwnLastPart`), by the lemmas `SuffixIsLast`, for an endpoint that has
  the signal's path already, and `TrimmedIsPath`, for one whose slashes are cut
  off (that there is a last segment to keep is `GreatestExists`, by `WFMin`).

`ReadingsProofs`, for any levels, uptimes, labels, forms and thresholds, and any
number of secondary carriers:

* `ReadingsTypes`: `[]TypeOK`: no uptime, however written, overflows its gauge.
* `AlarmsNameTheirReason`: `[]AlarmsHaveACause`, whatever the router writes. A
  label passes for 5G exactly if it is one of `Words5g` (`LabelIsUnderstood`); the
  level compared is `NSA_RSRP` if it is there and the serving cell's if not
  (`CurrentIs`); and a level is below the threshold as it is read only if it is so
  in truth or for a comma (`BelowIs`).
* `DegradationsAreSeen`: `[]DegradationIsSeen`, by `TellingIsUnderstood`.
* `DeviceSamplesAreTrue` and `RadioSamplesAreTrue`: `[]DeviceSampleIsTrue`,
  `[]RadioSampleIsTrue`, by lemmas about what each parser makes of each form.

Decisions that the code makes in an order (`Current5gRsrp`,
`SignalQualityIssue`) are nested `IF`s here: `CASE` with guards that overlap would
leave open which branch is taken, and the theorems would not follow.

`CollectorProofs`, for any interfaces, any width of the counters and any amount
of traffic:

* `CollectorTypes`: `Spec => []TypeOK`.
* `Understated`: `Spec => []NeverOverstated`, and `BooksBalance`:
  `Spec => []NothingLost`, both if no two exported interfaces have one key
  (`UniqueKeys`). The invariant relates four moments of an interface: its
  baseline, the row waiting to be recorded, the counter now and the traffic in
  all. What is exported plus what the counter has gained since the baseline stays
  within the traffic, and so it does if the waiting row is recorded first;
  rows are at most one for each interface (`ListedOnce`), by `ZipRows` and
  `FetchedRows` about the pairing of the lists. Two interfaces under one key
  would alternate on one baseline and be overstated.

The proofs go by one step per action over lemmas about the sub-steps and about
time (`AgedType`, `CooledStays`, `AgedKeepsOrder`).

Only model-checked: liveness (`OutageEndsInReboots`, `SignalChecksRecur`,
`SessionIsRenewed`), since the provers do not handle fairness or `ENABLED`; and
the four violations, which are counterexamples by nature.

## 5. Not modelled

* Build and release files: no behaviour at run time.
* The gauges of processor and memory, and the counters `connectivity.failures`
  and `signal.degraded`, which are incremented once for each failed check of
  the loop.
* Configuration other than intervals, protocol and telemetry: merged the same
  way; as values they are the constants of `Monitor` and `Readings`.
* Router data that is read but neither decided on nor exported (bands, model and
  firmware names), log output and its wording, histograms, which record values
  without state. That a gauge keeps the value of a reading which later answers
  no longer bring is in `Readings`; how long a backend shows it is not.
* The ciphers, HTTP, TLS and OpenTelemetry's exporters and their queues. A
  router whose ordinary refusals carry session keys is not assumed.
* A router that lists interfaces and their statistics in different orders:
  `Collector` assumes that it may only cut the second list short, because the
  code pairs them by position (`telemetry/zyxel.rs:776`) and nothing in an answer
  would tell.
* What a router restart does to the RSA key is modelled (`pair`), but not stated
  as a property: whether a real router changes it is not known from the code. If
  it does, renewals fail until the program is restarted.
