---------------------------- MODULE ReadingsProofs ---------------------------
(* What the alarms and the gauges say, against what the router knew.       *)
EXTENDS Readings, TLAPS

-----------------------------------------------------------------------------
(* The answers.                                                            *)

LEMMA DeviceAnswerShape ==
    ASSUME NEW a \in DeviceAnswers
    PROVE  /\ a.truth \in DeviceTruth
           /\ a.uptime \in UptimeTexts(a.truth.uptime) \cup {Garbage}
           /\ a.port \in PortTexts(a.truth.port)
  BY DEF DeviceAnswers

LEMMA RadioAnswerShape ==
    ASSUME NEW a \in RadioAnswers
    PROVE  /\ a.truth \in RadioTruth
           /\ a.technology \in Labels[a.truth.technology]
           /\ \E form \in Forms, nsa_form \in NsaForms :
              LET t == a.truth
              IN  /\ a.intf = Written(form, Serving(t))
                  /\ a.nsa = IF t.technology = "nr5g_nsa"
                               THEN Written(nsa_form, t.nr) ELSE Absent
                  /\ a.scc = [i \in DOMAIN t.carriers |->
                                 Written(form, t.carriers[i])]
  <1>1. PICK t \in RadioTruth :
           \E label \in Labels[t.technology], form \in Forms,
              nsa_form \in NsaForms :
              a = RadioAnswer(t, label, form, nsa_form)
    BY DEF RadioAnswers
  <1>2. PICK label \in Labels[t.technology], form \in Forms,
             nsa_form \in NsaForms :
              a = RadioAnswer(t, label, form, nsa_form)
    BY <1>1
  <1>3. a.truth = t
    BY <1>2 DEF RadioAnswer
  <1> QED
    BY <1>2, <1>3 DEF RadioAnswer

LEMMA TruthShape ==
    ASSUME NEW t \in RadioTruth
    PROVE  /\ t.technology \in Technology
           /\ t.nr \in Levels /\ t.anchor \in Levels /\ Serving(t) \in Levels
           /\ t.carriers \in Seq(Levels)
  BY ReadingsAssumption DEF RadioTruth, Serving

-----------------------------------------------------------------------------
(* Reading an uptime.                                                      *)

LEMMA UptimeIsNumber ==
    ASSUME NEW u \in Uptimes
    PROVE  u \in Nat /\ u < 2^Width /\ u # None
  <1>1. u \in Nat /\ u < 2^Width
    BY ReadingsAssumption
  <1> QED
    BY <1>1, ReadingsAssumption

LEMMA Unwrapped ==
    ASSUME NEW m \in Nat, NEW n \in Nat, n < m
    PROVE  n % m = n
  OBVIOUS

LEMMA Wrapped ==
    ASSUME NEW m \in Nat \ {0}
    PROVE  ((m - 1) * 3600 + 59 * 60 + 59) % m \in 0..m-1
  <1>1. (m - 1) * 3600 + 59 * 60 + 59 \in Nat
    OBVIOUS
  <1>2. ASSUME NEW n \in Nat
        PROVE  n % m \in 0..m-1
    OBVIOUS
  <1> QED
    BY <1>1, <1>2

LEMMA Hms ==
    ASSUME NEW u \in Nat
    PROVE  (u \div 3600) * 3600 + ((u \div 60) % 60) * 60 + (u % 60) = u
  OBVIOUS

LEMMA Dhms ==
    ASSUME NEW u \in Nat
    PROVE  (u \div 86400) * 86400 + ((u \div 3600) % 24) * 3600
              + ((u \div 60) % 60) * 60 + (u % 60) = u
  OBVIOUS

(* A text of one part, three or four is read as the number it renders; one *)
(* of two parts is not read, and garbage is read as some number.           *)
LEMMA UptimeIsRead ==
    ASSUME NEW u \in Uptimes, NEW text \in UptimeTexts(u)
    PROVE  ParseUptime(text) = IF Len(text) = 2 THEN None ELSE u
  <1>1. u \in Nat /\ 2^Width \in Nat /\ u < 2^Width
    BY UptimeIsNumber, ReadingsAssumption
  <1>2. CASE text = <<u>>
    BY <1>2 DEF ParseUptime
  <1>3. CASE text = <<u \div 3600, (u \div 60) % 60, u % 60>>
    <2>1. ParseUptime(text) =
             ((u \div 3600) * 3600 + ((u \div 60) % 60) * 60 + (u % 60))
                % 2^Width
      BY <1>3 DEF ParseUptime
    <2>2. ParseUptime(text) = u
      BY <1>1, <2>1, Hms, Unwrapped
    <2> QED
      BY <1>3, <2>2
  <1>4. CASE text = <<u \div 86400, (u \div 3600) % 24, (u \div 60) % 60,
                      u % 60>>
    <2>1. ParseUptime(text) =
             ((u \div 86400) * 86400 + ((u \div 3600) % 24) * 3600
                + ((u \div 60) % 60) * 60 + (u % 60)) % 2^Width
      BY <1>4 DEF ParseUptime
    <2>2. ParseUptime(text) = u
      BY <1>1, <2>1, Dhms, Unwrapped
    <2> QED
      BY <1>4, <2>2
  <1>5. CASE text = <<u \div 60, u % 60>>
    BY <1>5 DEF ParseUptime
  <1> QED
    BY <1>2, <1>3, <1>4, <1>5 DEF UptimeTexts

LEMMA GarbageIsWrapped == ParseUptime(Garbage) \in 0 .. 2^Width - 1
  <1>1. ParseUptime(Garbage) =
           ((2^Width - 1) * 3600 + 59 * 60 + 59) % 2^Width
    BY DEF ParseUptime, Garbage
  <1>2. ASSUME NEW m \in Nat \ {0}, 2^Width = m
        PROVE  ParseUptime(Garbage) \in 0..m-1
    <2>1. ParseUptime(Garbage) = ((m - 1) * 3600 + 59 * 60 + 59) % m
      BY <1>1, <1>2
    <2>2. ((m - 1) * 3600 + 59 * 60 + 59) % m \in 0..m-1
      BY Wrapped
    <2> QED
      BY <2>1, <2>2
  <1> QED
    BY <1>2, ReadingsAssumption

LEMMA UptimeType ==
    ASSUME NEW a \in DeviceAnswers
    PROVE  ParseUptime(a.uptime) \in {None} \cup 0 .. 2^Width - 1
  <1>1. a.truth.uptime \in Uptimes
    BY DeviceAnswerShape DEF DeviceTruth
  <1> QED
    BY <1>1, DeviceAnswerShape, UptimeIsRead, GarbageIsWrapped,
       ReadingsAssumption

-----------------------------------------------------------------------------
(* Reading a level and a label.                                            *)

LEMMA LegibleIsRead ==
    ASSUME NEW form, NEW n \in Levels, Legible(Written(form, n))
    PROVE  ParseF64(Written(form, n)) = n
  BY DEF Legible, Written, ParseF64

(* What is read of a level: itself, ten times as much of a decimal comma,  *)
(* or no number.                                                           *)
LEMMA LevelType ==
    ASSUME NEW form \in Writings, NEW n \in Levels
    PROVE  /\ ParseF64(Written(form, n)) \in
                 Levels \cup {10 * k : k \in Levels} \cup {None, NaN}
           /\ form # "decimal_comma" =>
                 ParseF64(Written(form, n)) \in {n, None, NaN}
  <1>1. CASE form \in {"number", "unit"}
    BY <1>1 DEF Written, ParseF64
  <1>2. CASE form = "decimal_comma"
    <2>1. ParseF64(Written(form, n)) = n * 10
      BY <1>2 DEF Written, ParseF64
    <2>2. n * 10 = 10 * n
      BY ReadingsAssumption
    <2> QED
      BY <1>2, <2>1, <2>2
  <1>3. CASE form = "nan"
    BY <1>3 DEF Written, ParseF64
  <1>4. CASE form \in {"absent", "word"}
    BY <1>4 DEF Written, ParseF64
  <1> QED
    BY <1>1, <1>2, <1>3, <1>4 DEF Writings

LEMMA AbsentIsNone == ParseF64(Absent) = None
  BY DEF Absent, Written, ParseF64

LEMMA SanitizedIs ==
    ASSUME NEW name \in DOMAIN Canonical, NEW label \in Canonical[name]
    PROVE  Sanitized(label) = name
  <1>1. ASSUME NEW other \in DOMAIN Canonical, label \in Canonical[other]
        PROVE  other = name
    BY <1>1 DEF Canonical
  <1> QED
    BY <1>1 DEF Sanitized

(* A label is taken for 5G exactly if it is one of the names for NR that   *)
(* the program knows.                                                      *)
LEMMA LabelIsUnderstood ==
    ASSUME NEW label
    PROVE  Uses5g(Sanitized(label)) <=> label \in Words5g
  <1>1. CASE label \in Words5g
    <2>1. PICK name \in {"nr5g", "nr5g_nsa", "nr5g_sa"} :
             label \in Canonical[name]
      BY <1>1 DEF Words5g, Canonical
    <2>2. name \in DOMAIN Canonical
      BY DEF Canonical
    <2> QED
      BY <1>1, <2>1, <2>2, SanitizedIs DEF Uses5g
  <1>2. CASE label \notin Words5g
    <2>1. CASE \E name \in DOMAIN Canonical : label \in Canonical[name]
      <3>1. PICK name \in DOMAIN Canonical : label \in Canonical[name]
        BY <2>1
      <3>2. name \in {"lte", "umts", "gsm"}
        BY <1>2, <3>1 DEF Words5g, Canonical
      <3> QED
        BY <1>2, <3>1, <3>2, SanitizedIs DEF Uses5g
    <2>2. CASE ~ \E name \in DOMAIN Canonical : label \in Canonical[name]
      <3>1. Sanitized(label) = None
        BY <2>2 DEF Sanitized
      <3> QED
        BY <1>2, <3>1, ReadingsAssumption DEF Uses5g, Technology
    <2> QED
      BY <2>1, <2>2
  <1> QED
    BY <1>1, <1>2

-----------------------------------------------------------------------------
(* What the answers record.                                                *)

(* Either every carrier's level is read or none is: the router writes them *)
(* all in one way.                                                         *)
LEMMA CarriersAreAlike ==
    ASSUME NEW form \in Writings, NEW n \in Levels, NEW k \in Levels
    PROVE  Given(Written(form, n)) <=> Given(Written(form, k))
  <1>1. CASE form \in {"number", "unit"}
    BY <1>1, ReadingsAssumption DEF Given, Written, ParseF64
  <1>2. CASE form = "decimal_comma"
    BY <1>2, ReadingsAssumption DEF Given, Written, ParseF64
  <1>3. CASE form = "nan"
    BY <1>3 DEF Given, Written, ParseF64
  <1>4. CASE form \in {"absent", "word"}
    BY <1>4 DEF Given, Written, ParseF64
  <1> QED
    BY <1>1, <1>2, <1>3, <1>4 DEF Writings

(* So the last of all is recorded, or none.                                *)
LEMMA CarrierRecorded ==
    ASSUME NEW t \in RadioTruth, NEW form \in Writings, NEW scc,
           scc = [i \in DOMAIN t.carriers |-> Written(form, t.carriers[i])]
    PROVE  LET last == SelectLastInSeq(scc, Given)
           IN  \/ /\ last = 0
                  /\ \A i \in DOMAIN t.carriers :
                        ~Given(Written(form, t.carriers[i]))
               \/ /\ last = Len(t.carriers) /\ last \in DOMAIN t.carriers
                  /\ scc[last] = Written(form, t.carriers[last])
  <1> DEFINE n == Len(t.carriers)
             I == {i \in 1..Len(scc) : Given(scc[i])}
             last == IF I # {} THEN Max(I) ELSE 0
  <1>1. SelectLastInSeq(scc, Given) = last
    BY DEF SelectLastInSeq
  <1>2. /\ n \in Nat /\ DOMAIN t.carriers = 1..n /\ Len(scc) = n
        /\ \A i \in 1..n : /\ t.carriers[i] \in Levels
                            /\ scc[i] = Written(form, t.carriers[i])
    BY TruthShape
  <1>3. CASE I = {}
    BY <1>1, <1>2, <1>3
  <1>4. CASE I # {}
    <2>1. PICK k \in 1..n : Given(scc[k])
      BY <1>2, <1>4
    <2>2. \A i \in 1..n : Given(scc[i])
      BY <1>2, <2>1, CarriersAreAlike
    <2>3. I = 1..n
      BY <1>2, <2>2
    <2>4. Max(1..n) = n /\ n \in 1..n
      BY <1>2, <2>1 DEF Max
    <2>5. SelectLastInSeq(scc, Given) = n
      BY <1>1, <1>4, <2>3, <2>4
    <2> QED
      BY <1>2, <2>4, <2>5
  <1> QED
    BY <1>3, <1>4

-----------------------------------------------------------------------------
(* Every variable keeps its type.                                          *)

LEMMA SampledType ==
    ASSUME TypeOK
    PROVE  /\ Sampled("uptime") \in {None} \cup 0 .. 2^Width - 1
           /\ Sampled("port") \in {None, 0, 1}
           /\ \A s \in {"lte", "nr_nsa", "scc"} :
                 Sampled(s) \in Levels \cup {10 * n : n \in Levels}
                                  \cup {None, NaN}
  <1>1. Sampled("uptime") \in {None} \cup 0 .. 2^Width - 1
    BY UptimeType DEF TypeOK, Sampled
  <1>2. Sampled("port") \in {None, 0, 1}
    BY DEF Sampled
  <1>3. CASE cellwan = None
    BY <1>1, <1>2, <1>3 DEF Sampled
  <1>4. CASE cellwan # None
    <2> DEFINE t == cellwan.truth
    <2>1. /\ cellwan \in RadioAnswers /\ t \in RadioTruth
          /\ t.nr \in Levels /\ Serving(t) \in Levels
          /\ \A i \in DOMAIN t.carriers : t.carriers[i] \in Levels
      BY <1>4, RadioAnswerShape, TruthShape DEF TypeOK
    <2>2. PICK form \in Forms, nsa_form \in NsaForms :
             /\ cellwan.intf = Written(form, Serving(t))
             /\ cellwan.nsa = IF t.technology = "nr5g_nsa"
                                THEN Written(nsa_form, t.nr) ELSE Absent
             /\ cellwan.scc = [i \in DOMAIN t.carriers |->
                                  Written(form, t.carriers[i])]
      BY <2>1, RadioAnswerShape
    <2>3. form \in Writings /\ nsa_form \in Writings
      BY ReadingsAssumption
    <2>4. Sampled("lte") \in Levels \cup {10 * n : n \in Levels}
                                   \cup {None, NaN}
      BY <1>4, <2>1, <2>2, <2>3, LevelType DEF Sampled, Reading
    <2>5. Sampled("nr_nsa") \in Levels \cup {10 * n : n \in Levels}
                                      \cup {None, NaN}
      BY <1>4, <2>1, <2>2, <2>3, LevelType, AbsentIsNone DEF Sampled, Reading
    <2>6. Sampled("scc") \in Levels \cup {10 * n : n \in Levels}
                                   \cup {None, NaN}
      <3> DEFINE last == SelectLastInSeq(cellwan.scc, Given)
      <3>1. Sampled("scc") = IF last = 0 THEN None
                             ELSE ParseF64(cellwan.scc[last])
        BY <1>4 DEF Sampled
      <3>2. \/ last = 0
            \/ /\ last \in DOMAIN t.carriers
               /\ cellwan.scc[last] = Written(form, t.carriers[last])
        BY <2>1, <2>2, <2>3, CarrierRecorded
      <3> HIDE DEF last
      <3> QED
        BY <2>1, <2>3, <3>1, <3>2, LevelType
    <2> QED
      BY <1>1, <1>2, <2>4, <2>5, <2>6
  <1> QED
    BY <1>3, <1>4

LEMMA IssueType ==
    ASSUME NEW a
    PROVE  SignalQualityIssue(a) \in {"none", "missing_5g", "weak_5g_rsrp"}
  BY DEF SignalQualityIssue

(* Every variable keeps its type: no uptime overflows its gauge, and what  *)
(* is recorded of a level is a level, if not by the factor of a comma.     *)
THEOREM ReadingsTypes == Spec => []TypeOK
  <1>1. Init => TypeOK
    BY DEF Init, TypeOK, Steps, Series
  <1>2. ASSUME TypeOK, [Next]_vars
        PROVE  TypeOK'
    <2>1. CASE Check
      BY <1>2, <2>1, IssueType DEF Check, TypeOK, Steps
    <2>2. CASE FetchStatus \/ FetchCellwan
      BY <1>2, <2>2 DEF FetchStatus, FetchCellwan, TypeOK, Steps
    <2>3. CASE FetchTraffic \/ FetchBand \/ FetchFails
      BY <1>2, <2>3 DEF FetchTraffic, FetchBand, FetchFails, TypeOK, Steps
    <2>4. CASE RecordSnapshot
      <3>1. DOMAIN gauges' = Series
        BY <2>4 DEF RecordSnapshot
      <3>2. \A s \in Series : gauges'[s] = IF Sampled(s) = None THEN gauges[s]
                                            ELSE Sampled(s)
        BY <2>4 DEF RecordSnapshot
      <3> QED
        BY <1>2, <2>4, <3>1, <3>2, SampledType
        DEF RecordSnapshot, TypeOK, Steps, Series
    <2>5. CASE UNCHANGED vars
      BY <1>2, <2>5 DEF TypeOK, vars
    <2> QED
      BY <1>2, <2>1, <2>2, <2>3, <2>4, <2>5 DEF Next
  <1> QED
    BY <1>1, <1>2, PTL DEF Spec

-----------------------------------------------------------------------------
(* The alarm.                                                              *)

(* The level that is compared is the first of the two that is given.       *)
LEMMA CurrentIs ==
    ASSUME NEW a \in RadioAnswers, a.technology \in Words5g
    PROVE  Current5gRsrp(a) = IF a.nsa.form \in {"absent", "word"}
                                THEN ParseF64(a.intf) ELSE ParseF64(a.nsa)
  <1>1. Uses5g(Sanitized(a.technology))
    BY LabelIsUnderstood
  <1>2. PICK nsa_form \in Writings :
           \/ \E n \in Levels : a.nsa = Written(nsa_form, n)
           \/ a.nsa = Absent /\ nsa_form = "absent"
    BY RadioAnswerShape, TruthShape, ReadingsAssumption DEF Writings
  <1>3. Given(a.nsa) <=> a.nsa.form \notin {"absent", "word"}
    <2>1. CASE nsa_form \in {"absent", "word"}
      <3>1. PICK n : a.nsa = Written(nsa_form, n)
        BY <1>2, <2>1 DEF Absent
      <3> QED
        BY <2>1, <3>1 DEF Given, ParseF64, Written
    <2>2. CASE nsa_form \notin {"absent", "word"}
      <3>1. PICK n \in Levels : a.nsa = Written(nsa_form, n)
        BY <1>2, <2>2
      <3>2. n \in Int /\ n * 10 \in Int
        BY ReadingsAssumption
      <3>3. ParseF64(a.nsa) \in {n, n * 10, NaN}
        BY <2>2, <3>1 DEF ParseF64, Written, Writings
      <3> QED
        BY <2>2, <3>1, <3>2, <3>3, ReadingsAssumption DEF Given, Written
    <2> QED
      BY <2>1, <2>2
  <1> QED
    BY <1>1, <1>3 DEF Current5gRsrp

LEMMA Times10 ==
    ASSUME NEW n \in Int
    PROVE  n * 10 = 10 * n
  OBVIOUS

(* A level that is below the threshold, as it is read, is so in truth, or  *)
(* for the factor of ten of a decimal comma.                               *)
LEMMA BelowIs ==
    ASSUME NEW form \in Writings, NEW n \in Levels,
           Below(ParseF64(Written(form, n)), Min5gRsrp)
    PROVE  \/ n < Min5gRsrp
           \/ form = "decimal_comma" /\ 10 * n < Min5gRsrp
  <1>1. CASE form \in {"number", "unit"}
    BY <1>1 DEF Written, ParseF64, Below
  <1>2. CASE form = "decimal_comma"
    <2>1. ParseF64(Written(form, n)) = n * 10
      BY <1>2 DEF Written, ParseF64
    <2> QED
      BY <1>2, <2>1, Times10, ReadingsAssumption DEF Below
  <1>3. CASE form \in {"nan", "absent", "word"}
    BY <1>3 DEF Written, ParseF64, Below
  <1> QED
    BY <1>1, <1>2, <1>3 DEF Writings

LEMMA WeakHasACause ==
    ASSUME NEW a \in RadioAnswers, SignalQualityIssue(a) = "weak_5g_rsrp"
    PROVE  a.truth.technology # "lte" /\ WeakFor(a, a.truth)
  <1> DEFINE t == a.truth
  <1>1. /\ t \in RadioTruth /\ t.technology \in Technology
        /\ t.nr \in Levels /\ t.anchor \in Levels
        /\ a.technology \in Labels[t.technology]
    BY RadioAnswerShape, TruthShape
  <1>2. PICK form \in Forms, nsa_form \in NsaForms :
           /\ a.intf = Written(form, Serving(t))
           /\ a.nsa = IF t.technology = "nr5g_nsa"
                        THEN Written(nsa_form, t.nr) ELSE Absent
    BY RadioAnswerShape
  <1>3. form \in Writings /\ nsa_form \in Writings
    BY ReadingsAssumption
  <1>4. Below(Current5gRsrp(a), Min5gRsrp)
    BY DEF SignalQualityIssue
  <1>5. a.technology \in Words5g
    <2>1. Uses5g(Sanitized(a.technology))
      BY <1>4 DEF Current5gRsrp, Below
    <2> QED
      BY <2>1, LabelIsUnderstood
  <1>6. t.technology # "lte"
    BY <1>1, <1>5, LabelsAssumption
  <1>7. Below(IF a.nsa.form \in {"absent", "word"} THEN ParseF64(a.intf)
                                                  ELSE ParseF64(a.nsa),
              Min5gRsrp)
    BY <1>4, <1>5, CurrentIs
  <1>8. CASE t.technology = "nr5g_nsa"
    <2>1. /\ a.intf = Written(form, t.anchor) /\ a.intf.form = form
          /\ a.intf.tenths = t.anchor
          /\ a.nsa = Written(nsa_form, t.nr) /\ a.nsa.form = nsa_form
          /\ a.nsa.tenths = t.nr
      BY <1>2, <1>8 DEF Serving, Written
    <2>2. CASE nsa_form \in {"absent", "word"}
      <3>1. \/ t.anchor < Min5gRsrp
            \/ form = "decimal_comma" /\ 10 * t.anchor < Min5gRsrp
        BY <1>1, <1>3, <1>7, <2>1, <2>2, BelowIs
      <3> QED
        BY <1>6, <1>8, <2>1, <2>2, <3>1 DEF WeakFor
    <2>3. CASE nsa_form \notin {"absent", "word"}
      <3>1. \/ t.nr < Min5gRsrp
            \/ nsa_form = "decimal_comma" /\ 10 * t.nr < Min5gRsrp
        BY <1>1, <1>3, <1>7, <2>1, <2>3, BelowIs
      <3> QED
        BY <1>6, <2>1, <2>3, <3>1 DEF WeakFor
    <2> QED
      BY <2>2, <2>3
  <1>9. CASE t.technology = "nr5g_sa"
    <2>1. /\ a.intf = Written(form, t.nr) /\ a.intf.form = form
          /\ a.intf.tenths = t.nr /\ a.nsa.form = "absent"
      BY <1>2, <1>9 DEF Serving, Written, Absent
    <2>2. \/ t.nr < Min5gRsrp
          \/ form = "decimal_comma" /\ 10 * t.nr < Min5gRsrp
      BY <1>1, <1>3, <1>7, <2>1, BelowIs
    <2> QED
      BY <1>6, <2>1, <2>2 DEF WeakFor
  <1> QED
    BY <1>1, <1>6, <1>8, <1>9 DEF Technology

LEMMA MissingHasACause ==
    ASSUME NEW a \in RadioAnswers, SignalQualityIssue(a) = "missing_5g"
    PROVE  Require5g /\ a.technology \notin Words5g
  <1>1. Require5g /\ ~Uses5g(Sanitized(a.technology))
    BY DEF SignalQualityIssue
  <1> QED
    BY <1>1, LabelIsUnderstood

(* Of an answer that tells all there is to know, the truth is found.       *)
LEMMA TellingIsUnderstood ==
    ASSUME NEW a \in RadioAnswers, Telling(a)
    PROVE  SignalQualityIssue(a) = Verdict(a.truth)
  <1> DEFINE t == a.truth
  <1>1. /\ t.technology \in Technology /\ t.nr \in Levels
        /\ a.technology \in Labels[t.technology]
    BY RadioAnswerShape, TruthShape
  <1>2. CASE t.technology = "lte"
    <2>1. ~Uses5g(Sanitized(a.technology))
      BY <1>1, <1>2, LabelIsUnderstood, LabelsAssumption
    <2>2. ~Below(Current5gRsrp(a), Min5gRsrp)
      BY <2>1 DEF Current5gRsrp, Below
    <2> QED
      BY <1>2, <2>1, <2>2 DEF SignalQualityIssue, Verdict
  <1>3. CASE t.technology # "lte"
    <2>1. a.technology \in Words5g /\ Uses5g(Sanitized(a.technology))
      BY <1>3, LabelIsUnderstood DEF Telling
    <2>2. PICK form \in Forms, nsa_form \in NsaForms :
             /\ a.intf = Written(form, Serving(t))
             /\ a.nsa = IF t.technology = "nr5g_nsa"
                          THEN Written(nsa_form, t.nr) ELSE Absent
      BY RadioAnswerShape
    <2>3. Current5gRsrp(a) = t.nr
      <3>1. CASE t.technology = "nr5g_nsa"
        <4>1. a.nsa = Written(nsa_form, t.nr) /\ Legible(a.nsa)
          BY <2>2, <3>1 DEF Telling
        <4>2. ParseF64(a.nsa) = t.nr
          BY <1>1, <4>1, LegibleIsRead
        <4>3. a.nsa.form \notin {"absent", "word"}
          BY <4>1 DEF Legible
        <4> QED
          BY <2>1, <4>2, <4>3, CurrentIs
      <3>2. CASE t.technology = "nr5g_sa"
        <4>1. a.intf = Written(form, t.nr) /\ Legible(a.intf)
          BY <2>2, <3>2 DEF Telling, Serving
        <4>2. ParseF64(a.intf) = t.nr
          BY <1>1, <4>1, LegibleIsRead
        <4>3. a.nsa.form = "absent"
          BY <2>2, <3>2 DEF Absent, Written
        <4> QED
          BY <2>1, <4>2, <4>3, CurrentIs
      <3> QED
        BY <1>1, <1>3, <3>1, <3>2 DEF Technology
    <2>4. Below(t.nr, Min5gRsrp) <=> t.nr < Min5gRsrp
      BY <1>1, ReadingsAssumption DEF Below
    <2> QED
      BY <1>3, <2>1, <2>3, <2>4 DEF SignalQualityIssue, Verdict
  <1> QED
    BY <1>2, <1>3

LEMMA ChecksOnly ==
    ASSUME [Next]_vars, step' = "checked"
    PROVE  Check \/ UNCHANGED vars
  BY DEF Next, FetchStatus, FetchCellwan, FetchTraffic, FetchBand, FetchFails,
         RecordSnapshot

(* The alarm that reloads or reboots the router, raised over whatever the  *)
(* router answers, is right or is owed to one of three ways of writing: an *)
(* unknown name for 5G, a missing NSA_RSRP on NSA, a decimal comma.        *)
THEOREM AlarmsNameTheirReason == Spec => []AlarmsHaveACause
  <1>1. Init => AlarmsHaveACause
    BY DEF Init, AlarmsHaveACause
  <1>2. ASSUME AlarmsHaveACause, [Next]_vars
        PROVE  AlarmsHaveACause'
    <2>1. CASE Check
      <3>1. cellwan' \in RadioAnswers /\ issue' = SignalQualityIssue(cellwan')
        BY <2>1 DEF Check
      <3>2. ASSUME issue' = "missing_5g"
            PROVE  Require5g /\ cellwan'.technology \notin Words5g
        BY <3>1, <3>2, MissingHasACause
      <3>3. ASSUME issue' = "weak_5g_rsrp"
            PROVE  /\ cellwan'.truth.technology # "lte"
                   /\ WeakFor(cellwan', cellwan'.truth)
        BY <3>1, <3>3, WeakHasACause
      <3> QED
        BY <3>2, <3>3 DEF AlarmsHaveACause
    <2>2. CASE UNCHANGED vars
      BY <1>2, <2>2 DEF AlarmsHaveACause, vars
    <2>3. CASE step' # "checked"
      BY <2>3 DEF AlarmsHaveACause
    <2> QED
      BY <1>2, <2>1, <2>2, <2>3, ChecksOnly
  <1> QED
    BY <1>1, <1>2, PTL DEF Spec

(* A degradation that can be read from the answer is not overlooked, on    *)
(* whichever technology and under whichever of the names that are known.   *)
THEOREM DegradationsAreSeen == Spec => []DegradationIsSeen
  <1>1. Init => DegradationIsSeen
    BY DEF Init, DegradationIsSeen
  <1>2. ASSUME DegradationIsSeen, [Next]_vars
        PROVE  DegradationIsSeen'
    <2> SUFFICES ASSUME step' = "checked", Telling(cellwan')
                 PROVE  issue' = Verdict(cellwan'.truth)
      BY DEF DegradationIsSeen
    <2>1. CASE Check
      BY <2>1, TellingIsUnderstood DEF Check
    <2>2. CASE UNCHANGED vars
      BY <1>2, <2>2 DEF DegradationIsSeen, vars
    <2> QED
      BY <1>2, <2>1, <2>2, ChecksOnly
  <1> QED
    BY <1>1, <1>2, PTL DEF Spec

-----------------------------------------------------------------------------
(* The gauges.                                                             *)

LEMMA RecordsOnly ==
    ASSUME [Next]_vars, step' = "recorded"
    PROVE  RecordSnapshot \/ UNCHANGED vars
  BY DEF Next, FetchStatus, FetchCellwan, FetchTraffic, FetchBand, FetchFails,
         Check

(* A sample that has a value is what its gauge shows.                      *)
LEMMA SampleIsShown ==
    ASSUME RecordSnapshot, NEW s \in Series, Sampled(s) # None
    PROVE  gauges'[s] = Sampled(s)
  BY DEF RecordSnapshot

(* An uptime is recorded as the number that was written down, in whichever *)
(* of the three forms, the state of the port as it is, and one that cannot *)
(* be told as down.                                                        *)
THEOREM DeviceSamplesAreTrue == Spec => []DeviceSampleIsTrue
  <1>1. Init => DeviceSampleIsTrue
    BY DEF Init, DeviceSampleIsTrue
  <1>2. ASSUME TypeOK, DeviceSampleIsTrue, [Next]_vars
        PROVE  DeviceSampleIsTrue'
    <2>1. CASE UNCHANGED vars
      BY <1>2, <2>1 DEF DeviceSampleIsTrue, vars
    <2>2. CASE RecordSnapshot /\ status # None
      <3> DEFINE t == status.truth
      <3>1. /\ status \in DeviceAnswers /\ status' = status
            /\ t \in DeviceTruth /\ t.uptime \in Uptimes
        BY <1>2, <2>2, DeviceAnswerShape
        DEF TypeOK, RecordSnapshot, DeviceTruth
      <3>2. gauges'["port"] = IF status.port = "odd" THEN 0
                              ELSE IF t.port = "up" THEN 1 ELSE 0
        <4>1. Sampled("port") = IF status.port = "Up" THEN 1 ELSE 0
          BY <2>2 DEF Sampled
        <4>2. Sampled("port") # None
          BY <4>1, ReadingsAssumption
        <4>3. status.port \in {IF t.port = "up" THEN "Up" ELSE "Down", "odd"}
          BY <3>1, DeviceAnswerShape DEF PortTexts
        <4> QED
          BY <2>2, <4>1, <4>2, <4>3, SampleIsShown DEF Series
      <3>3. ASSUME Len(status.uptime) # 2, status.uptime # Garbage
            PROVE  gauges'["uptime"] = t.uptime
        <4>1. Sampled("uptime") = t.uptime
          BY <2>2, <3>1, <3>3, DeviceAnswerShape, UptimeIsRead DEF Sampled
        <4>2. t.uptime # None
          BY <3>1, UptimeIsNumber
        <4> QED
          BY <2>2, <4>1, <4>2, SampleIsShown DEF Series
      <3> QED
        BY <3>1, <3>2, <3>3 DEF DeviceSampleIsTrue
    <2>3. CASE RecordSnapshot /\ status = None
      BY <2>3 DEF RecordSnapshot, DeviceSampleIsTrue
    <2>4. CASE step' # "recorded"
      BY <2>4 DEF DeviceSampleIsTrue
    <2> QED
      BY <1>2, <2>1, <2>2, <2>3, <2>4, RecordsOnly
  <1> QED
    BY <1>1, <1>2, ReadingsTypes, PTL DEF Spec

(* A level that can be read goes to one series: that of the LTE cell to    *)
(* lte, that of the NR cell beside it to nr_nsa, that of the last carrier  *)
(* to scc; on NR5G-SA that of the NR cell goes to lte.                     *)
THEOREM RadioSamplesAreTrue == Spec => []RadioSampleIsTrue
  <1>1. Init => RadioSampleIsTrue
    BY DEF Init, RadioSampleIsTrue
  <1>2. ASSUME TypeOK, RadioSampleIsTrue, [Next]_vars
        PROVE  RadioSampleIsTrue'
    <2>1. CASE UNCHANGED vars
      BY <1>2, <2>1 DEF RadioSampleIsTrue, vars
    <2>2. CASE RecordSnapshot /\ cellwan # None
      <3> DEFINE t == cellwan.truth
      <3>1. /\ cellwan \in RadioAnswers /\ cellwan' = cellwan
            /\ t \in RadioTruth /\ t.nr \in Levels /\ Serving(t) \in Levels
            /\ t.carriers \in Seq(Levels)
        BY <1>2, <2>2, RadioAnswerShape, TruthShape
        DEF TypeOK, RecordSnapshot
      <3>2. PICK form \in Forms, nsa_form \in NsaForms :
               /\ cellwan.intf = Written(form, Serving(t))
               /\ cellwan.nsa = IF t.technology = "nr5g_nsa"
                                  THEN Written(nsa_form, t.nr) ELSE Absent
               /\ cellwan.scc = [i \in DOMAIN t.carriers |->
                                    Written(form, t.carriers[i])]
        BY <3>1, RadioAnswerShape
      <3>3. \A n \in Levels : n # None
        BY ReadingsAssumption
      <3>4. ASSUME Legible(cellwan.intf)
            PROVE  gauges'["lte"] = Serving(t)
        <4>1. Sampled("lte") = Serving(t)
          BY <2>2, <3>1, <3>2, <3>4, LegibleIsRead DEF Sampled, Reading
        <4> QED
          BY <2>2, <3>1, <3>3, <4>1, SampleIsShown DEF Series
      <3>5. ASSUME Legible(cellwan.nsa)
            PROVE  gauges'["nr_nsa"] = t.nr
        <4>1. cellwan.nsa = Written(nsa_form, t.nr)
          BY <3>2, <3>5 DEF Legible, Absent, Written
        <4>2. Sampled("nr_nsa") = t.nr
          BY <2>2, <3>1, <3>5, <4>1, LegibleIsRead DEF Sampled, Reading
        <4> QED
          BY <2>2, <3>1, <3>3, <4>2, SampleIsShown DEF Series
      <3>6. ASSUME Legible(cellwan.intf), t.carriers # <<>>
            PROVE  gauges'["scc"] = t.carriers[Len(t.carriers)]
        <4> DEFINE last == SelectLastInSeq(cellwan.scc, Given)
        <4>1. form \in Writings /\ form \in {"number", "unit"}
          BY <3>2, <3>6, ReadingsAssumption DEF Legible, Written
        <4>2. \A n \in Levels : ParseF64(Written(form, n)) = n
          BY <4>1 DEF Written, ParseF64
        <4>3. 1 \in DOMAIN t.carriers /\ t.carriers[1] \in Levels
          BY <3>1, <3>6
        <4>4. Given(Written(form, t.carriers[1]))
          BY <3>3, <4>2, <4>3 DEF Given
        <4>5. \/ /\ last = 0
                 /\ \A i \in DOMAIN t.carriers :
                       ~Given(Written(form, t.carriers[i]))
              \/ /\ last = Len(t.carriers) /\ last \in DOMAIN t.carriers
                 /\ cellwan.scc[last] = Written(form, t.carriers[last])
          BY <3>1, <3>2, <4>1, CarrierRecorded
        <4>6. Sampled("scc") = IF last = 0 THEN None
                               ELSE ParseF64(cellwan.scc[last])
          BY <2>2 DEF Sampled
        <4> HIDE DEF last
        <4>7. /\ last = Len(t.carriers)
              /\ last \in DOMAIN t.carriers /\ t.carriers[last] \in Levels
              /\ cellwan.scc[last] = Written(form, t.carriers[last])
          BY <3>1, <4>3, <4>4, <4>5
        <4>8. Sampled("scc") = t.carriers[last]
          BY <3>1, <4>2, <4>6, <4>7
        <4>9. gauges'["scc"] = t.carriers[last]
          BY <2>2, <3>3, <4>7, <4>8, SampleIsShown DEF Series
        <4> QED
          BY <4>7, <4>9
      <3> QED
        BY <3>1, <3>4, <3>5, <3>6 DEF RadioSampleIsTrue, Serving, RadioTruth,
                                      Technology
    <2>3. CASE RecordSnapshot /\ cellwan = None
      BY <2>3 DEF RecordSnapshot, RadioSampleIsTrue
    <2>4. CASE step' # "recorded"
      BY <2>4 DEF RadioSampleIsTrue
    <2> QED
      BY <1>2, <2>1, <2>2, <2>3, <2>4, RecordsOnly
  <1> QED
    BY <1>1, <1>2, ReadingsTypes, PTL DEF Spec
=============================================================================
