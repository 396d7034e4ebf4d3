------------------------------ MODULE Readings -------------------------------
(***************************************************************************)
(* What the program makes of the router's readings: the decision of the    *)
(* signal check (src/src/monitor/signal.rs) and the gauges of a telemetry  *)
(* collection (src/src/telemetry/zyxel.rs, metrics.rs), both from the same *)
(* status objects, whose numbers and labels are loosely written text.      *)
(*                                                                         *)
(* An answer is kept with the truth it renders.  Levels are tenths of a    *)
(* dBm; RSRP stands for the four kinds of reading, which go the same way   *)
(* into two instruments.  The truth may change from one request to the     *)
(* next, so each request finds one of its own.                             *)
(***************************************************************************)
EXTENDS Integers, Sequences, SequencesExt

CONSTANTS
    None, NaN,     \* no value; not a number
    Levels,        \* signal levels
    Carriers,      \* the levels of the secondary carriers, as sequences
    Uptimes,       \* the router's uptimes, in seconds
    Labels,        \* what the router calls each access technology
    Forms,         \* how it writes numbers
    NsaForms,      \* how it writes NSA_RSRP while it is on NSA
    Require5g, Min5gRsrp,   \* SignalConfig
    Width          \* the bits of a u64

Technology == {"lte", "nr5g_nsa", "nr5g_sa"}
Writings   == {"number", "unit", "decimal_comma", "nan", "word", "absent"}

ASSUME ReadingsAssumption ==
    /\ Levels \subseteq Int /\ Min5gRsrp \in Int /\ Require5g \in BOOLEAN
    /\ None \notin Int \cup Technology \cup {"nr5g"}
    /\ NaN \notin Int \cup {None}
    /\ Carriers \subseteq Seq(Levels)
    /\ 2^Width \in Nat \ {0} /\ Uptimes \subseteq 0 .. 2^Width - 1
    /\ Forms \cup NsaForms \subseteq Writings

(* The names for NR that the program knows, whatever the mode.             *)
Words5g == {"NR5G-NSA", "NR_NSA", "5G_NSA", "NR5G-SA", "NR_SA", "5G_SA",
            "NR5G", "NR", "5G"}

ASSUME LabelsAssumption == Labels["lte"] \cap Words5g = {}

VARIABLES
    step,          \* what has been asked last
    status,        \* the answer for the device, or None
    cellwan,       \* the answer for the radio, or None
    gauges,        \* what the metrics' gauges show
    issue          \* what signal_quality_issue has found

vars == <<step, status, cellwan, gauges, issue>>

Series     == {"uptime", "port", "lte", "nr_nsa", "scc"}
Steps      == {"idle", "status", "cellwan", "traffic", "complete",
               "recorded", "checked"}

-----------------------------------------------------------------------------
(* The router: what it knows, and how it says it.                          *)

DeviceTruth == [uptime : Uptimes, port : {"up", "down"}]

RadioTruth ==
    [technology : Technology, anchor : Levels, nr : Levels,
     carriers : Carriers]

Written(form, n) == [form |-> form, tenths |-> n]
Absent == Written("absent", 0)

(* Seconds, h:m:s, d:h:m:s, or m:s.                                        *)
UptimeTexts(u) ==
    {<<u>>,
     <<u \div 3600, (u \div 60) % 60, u % 60>>,
     <<u \div 86400, (u \div 3600) % 24, (u \div 60) % 60, u % 60>>,
     <<u \div 60, u % 60>>}

(* "odd" is a status that is missing, or a word that is not on the list.   *)
PortTexts(port) == {IF port = "up" THEN "Up" ELSE "Down", "odd"}

(* An uptime that no router has.                                           *)
Garbage == <<2^Width - 1, 59, 59>>

DeviceAnswers ==
    UNION {{[truth |-> t, uptime |-> u, port |-> p] :
               u \in UptimeTexts(t.uptime) \cup {Garbage},
               p \in PortTexts(t.port)} : t \in DeviceTruth}

(* INTF_RSRP is the serving cell's, NSA_RSRP that of the NR cell beside an *)
(* LTE anchor.                                                             *)
Serving(t) == IF t.technology = "nr5g_sa" THEN t.nr ELSE t.anchor

RadioAnswer(t, label, form, nsa_form) ==
    [truth |-> t, technology |-> label,
     intf  |-> Written(form, Serving(t)),
     nsa   |-> IF t.technology = "nr5g_nsa" THEN Written(nsa_form, t.nr)
               ELSE Absent,
     scc   |-> [i \in DOMAIN t.carriers |-> Written(form, t.carriers[i])]]

RadioAnswers ==
    UNION {{RadioAnswer(t, label, form, nsa_form) :
               label \in Labels[t.technology], form \in Forms,
               nsa_form \in NsaForms} : t \in RadioTruth}

TypeOK ==
    /\ step \in Steps
    /\ status = None \/ status \in DeviceAnswers
    /\ cellwan = None \/ cellwan \in RadioAnswers
    /\ DOMAIN gauges = Series
    /\ gauges["uptime"] = None \/ gauges["uptime"] \in 0 .. 2^Width - 1
    /\ gauges["port"] \in {None, 0, 1}
    /\ \A s \in {"lte", "nr_nsa", "scc"} :
          gauges[s] \in Levels \cup {10 * n : n \in Levels} \cup {None, NaN}
    /\ issue \in {"none", "missing_5g", "weak_5g_rsrp"}

-----------------------------------------------------------------------------
(* Reading.                                                                *)

(* Mutant: the words for NR without a mode are not known.                  *)
CanonicalOld ==
    [lte |-> {"LTE", "4G"}, nr5g_nsa |-> {"NR5G-NSA", "NR_NSA", "5G_NSA"},
     nr5g_sa |-> {"NR5G-SA", "NR_SA", "5G_SA"}]

(* The canonical names, and the labels that stand for them once case and   *)
(* separators are levelled.                                                *)
Canonical ==
    [lte |-> {"LTE", "4G"}, nr5g_nsa |-> {"NR5G-NSA", "NR_NSA", "5G_NSA"},
     nr5g_sa |-> {"NR5G-SA", "NR_SA", "5G_SA"}, nr5g |-> {"NR5G", "NR", "5G"},
     umts |-> {"UMTS", "WCDMA", "3G"}, gsm |-> {"GSM", "2G"}]

(* sanitize_access_technology: any other label is as good as none.         *)
Sanitized(label) ==
    IF \E name \in DOMAIN Canonical : label \in Canonical[name]
      THEN CHOOSE name \in DOMAIN Canonical : label \in Canonical[name]
      ELSE None

(* deserialize_optional_f64: a number, or a text that starts with one.     *)
(* Commas are dropped, so that a decimal comma costs a factor of ten.      *)
ParseF64(raw) ==
    CASE raw.form \in {"number", "unit"} -> raw.tenths
      [] raw.form = "decimal_comma"      -> raw.tenths * 10
      [] raw.form = "nan"                -> NaN
      [] raw.form \in {"absent", "word"} -> None

Given(raw) == ParseF64(raw) # None

Below(x, y) == x \notin {None, NaN} /\ x < y

(* Mutant: the sum is not kept to the width of the gauge.                  *)
UptimeUnbounded(parts) ==
    CASE Len(parts) = 1 -> parts[1]
      [] Len(parts) = 3 -> parts[1] * 3600 + parts[2] * 60 + parts[3]
      [] Len(parts) = 4 ->
            parts[1] * 86400 + parts[2] * 3600 + parts[3] * 60 + parts[4]
      [] OTHER -> None

(* Mutant: the first of three parts goes for days.                         *)
UptimeShifted(parts) ==
    CASE Len(parts) = 1 -> parts[1]
      [] Len(parts) = 3 ->
            (parts[1] * 86400 + parts[2] * 60 + parts[3]) % 2^Width
      [] Len(parts) = 4 ->
            (parts[1] * 86400 + parts[2] * 3600 + parts[3] * 60 + parts[4])
               % 2^Width
      [] OTHER -> None

(* parse_uptime_seconds, with the wrap-around of a release build.          *)
ParseUptime(parts) ==
    CASE Len(parts) = 1 -> parts[1]
      [] Len(parts) = 3 ->
            (parts[1] * 3600 + parts[2] * 60 + parts[3]) % 2^Width
      [] Len(parts) = 4 ->
            (parts[1] * 86400 + parts[2] * 3600 + parts[3] * 60 + parts[4])
               % 2^Width
      [] OTHER -> None

-----------------------------------------------------------------------------
(* The signal check.                                                       *)

Uses5g(technology) == technology \in {"nr5g", "nr5g_nsa", "nr5g_sa"}

(* Mutant: only the field of the NR cell beside an anchor is looked at.    *)
NsaRsrpOnly(a) ==
    IF Uses5g(Sanitized(a.technology)) THEN ParseF64(a.nsa) ELSE None

(* nsa_rsrp.or(intf_rsrp).                                                 *)
Current5gRsrp(a) ==
    IF ~Uses5g(Sanitized(a.technology)) THEN None
    ELSE IF Given(a.nsa) THEN ParseF64(a.nsa) ELSE ParseF64(a.intf)

SignalQualityIssue(a) ==
    IF Require5g /\ ~Uses5g(Sanitized(a.technology)) THEN "missing_5g"
    ELSE IF Below(Current5gRsrp(a), Min5gRsrp) THEN "weak_5g_rsrp"
    ELSE "none"

Check ==
    /\ step \in {"idle", "recorded", "checked"}
    /\ \E a \in RadioAnswers :
          /\ cellwan' = a
          /\ issue' = SignalQualityIssue(a)
    /\ step' = "checked" /\ status' = None
    /\ UNCHANGED gauges

-----------------------------------------------------------------------------
(* A telemetry collection: three requests or four, one after the other.    *)

Init ==
    /\ step = "idle" /\ status = None /\ cellwan = None
    /\ gauges = [s \in Series |-> None] /\ issue = "none"

(* `?`: what has been fetched is dropped.                                  *)
FetchFails ==
    /\ step \in {"status", "cellwan", "traffic"}
    /\ step' = "idle" /\ status' = None /\ cellwan' = None
    /\ UNCHANGED <<gauges, issue>>

(* The answer's list of objects may be empty.                              *)
FetchStatus ==
    /\ step \in {"idle", "recorded", "checked"}
    /\ status' \in DeviceAnswers \cup {None}
    /\ cellwan' = None /\ issue' = "none" /\ step' = "status"
    /\ UNCHANGED gauges

FetchCellwan ==
    /\ step = "status"
    /\ cellwan' \in RadioAnswers \cup {None}
    /\ step' = "cellwan"
    /\ UNCHANGED <<status, gauges, issue>>

(* needs_band_metadata_lookup: a fourth request is made if the status does *)
(* not tell technology and band.  Nothing recorded depends on its answer,  *)
(* nor on the band, but if it fails nothing is recorded.                   *)
NeedsBand(banded) ==
    IF cellwan = None THEN TRUE
    ELSE Sanitized(cellwan.technology) = None \/ ~banded

FetchTraffic ==
    /\ step = "cellwan"
    /\ \E banded \in BOOLEAN :
          step' = IF NeedsBand(banded) THEN "traffic" ELSE "complete"
    /\ UNCHANGED <<status, cellwan, gauges, issue>>

FetchBand ==
    /\ step = "traffic"
    /\ step' = "complete"
    /\ UNCHANGED <<status, cellwan, gauges, issue>>

(* Mutant: the readings of the two cells go into each other's series.      *)
ReadingSwapped(series, a) ==
    IF series = "lte" THEN ParseF64(a.nsa) ELSE ParseF64(a.intf)

(* push_signal, for the serving cell and for the NR cell beside it.        *)
Reading(series, a) ==
    IF series = "lte" THEN ParseF64(a.intf) ELSE ParseF64(a.nsa)

(* What the answers record into a series.  All carriers go into one, where *)
(* the last to be recorded stays.                                          *)
Sampled(series) ==
    CASE series = "uptime" /\ status # None  -> ParseUptime(status.uptime)
      [] series = "port" /\ status # None    ->
            IF status.port = "Up" THEN 1 ELSE 0
      [] series \in {"lte", "nr_nsa"} /\ cellwan # None ->
            Reading(series, cellwan)
      [] series = "scc" /\ cellwan # None    ->
            LET last == SelectLastInSeq(cellwan.scc, Given)
            IN  IF last = 0 THEN None ELSE ParseF64(cellwan.scc[last])
      [] OTHER                               -> None

(* A series that the answers do not mention keeps its value.               *)
RecordSnapshot ==
    /\ step = "complete"
    /\ gauges' = [s \in Series |->
                     IF Sampled(s) = None THEN gauges[s] ELSE Sampled(s)]
    /\ step' = "recorded"
    /\ UNCHANGED <<status, cellwan, issue>>

Next ==
    \/ Check
    \/ FetchStatus \/ FetchCellwan \/ FetchTraffic \/ FetchBand \/ FetchFails
    \/ RecordSnapshot

Spec == Init /\ [][Next]_vars

-----------------------------------------------------------------------------
(* Properties.                                                             *)

(* What the check should say, could it see the truth.                      *)
Verdict(t) ==
    IF t.technology = "lte" THEN IF Require5g THEN "missing_5g" ELSE "none"
    ELSE IF t.nr < Min5gRsrp THEN "weak_5g_rsrp" ELSE "none"

(* The alarm that reloads or reboots the router has a cause, on whichever  *)
(* technology, under whichever label, and with readings that are missing   *)
(* or no numbers.  Either it is right, or it is owed to one of three ways  *)
(* of writing: 5G under a name the program does not know passes for no 5G; *)
(* where NSA_RSRP is missing, the level of the LTE anchor passes for that  *)
(* of the NR cell; and a decimal comma makes a level ten times as low.     *)
WeakFor(a, t) ==
    \/ t.nr < Min5gRsrp
    \/ /\ t.technology = "nr5g_nsa" /\ a.nsa.form \in {"absent", "word"}
       /\ t.anchor < Min5gRsrp
    \/ LET read == IF a.nsa.form \in {"absent", "word"} THEN a.intf ELSE a.nsa
       IN  read.form = "decimal_comma" /\ 10 * read.tenths < Min5gRsrp

AlarmsHaveACause ==
    step = "checked" =>
       LET t == cellwan.truth
       IN  /\ issue = "missing_5g" =>
                 Require5g /\ (\/ t.technology = "lte"
                               \/ cellwan.technology \notin Words5g)
           /\ issue = "weak_5g_rsrp" =>
                 t.technology # "lte" /\ WeakFor(cellwan, t)

(* A degradation that can be read from the answer is not overlooked.       *)
Legible(raw) == raw.form \in {"number", "unit"}

Telling(a) ==
    /\ Legible(a.intf)
    /\ a.truth.technology = "nr5g_nsa" => Legible(a.nsa)
    /\ a.truth.technology # "lte" => a.technology \in Words5g

DegradationIsSeen ==
    step = "checked" /\ Telling(cellwan) => issue = Verdict(cellwan.truth)

(* What a collection records of the device is what the router knew when it *)
(* was asked, however it was written down.  A port whose status is missing *)
(* or unknown is shown like one that is down, never like one that is up.   *)
DeviceSampleIsTrue ==
    step = "recorded" /\ status # None
       => /\ gauges["port"] = IF status.port = "odd" THEN 0
                              ELSE IF status.truth.port = "up" THEN 1 ELSE 0
          /\ Len(status.uptime) # 2 /\ status.uptime # Garbage
                => gauges["uptime"] = status.truth.uptime

(* A level that can be read goes to one series: that of the LTE cell to    *)
(* lte, that of the NR cell beside it to nr_nsa, that of the last carrier  *)
(* to scc.  On NR5G-SA, which has no series of its own, the level of the   *)
(* NR cell goes to lte, and so the series does not tell the two apart.     *)
RadioSampleIsTrue ==
    step = "recorded" /\ cellwan # None =>
       LET t == cellwan.truth
       IN  /\ Legible(cellwan.intf) =>
                 gauges["lte"] = IF t.technology \in {"lte", "nr5g_nsa"}
                                   THEN t.anchor ELSE t.nr
           /\ t.technology = "nr5g_nsa" /\ Legible(cellwan.nsa) =>
                 gauges["nr_nsa"] = t.nr
           /\ Legible(cellwan.intf) /\ t.carriers # <<>> =>
                 gauges["scc"] = t.carriers[Len(t.carriers)]
=============================================================================
