------------------------------ MODULE Collector ------------------------------
(***************************************************************************)
(* The traffic counters of the telemetry: TelemetryCollector::collect      *)
(* fetches the router's interface statistics, parses them into rows        *)
(* (src/src/telemetry/zyxel.rs) and adds to each exported counter what     *)
(* the router's counter has gained since the last sample                   *)
(* (MetricRecorder in src/src/telemetry/metrics.rs).                       *)
(*                                                                         *)
(* One of the four counters of an interface, in one direction, stands for  *)
(* all of them: they are recorded alike and share nothing but their key.   *)
(* The router counts on while a collection is under way, restarts, lets    *)
(* its counters wrap, and lists whichever interfaces it has at the time.   *)
(***************************************************************************)
EXTENDS Integers, Sequences, FiniteSets

CONSTANTS
    Interface,     \* the router's interfaces
    Type,          \* "ip" or "ethernet", by interface
    Name,          \* the sanitised name, by interface, or Unsafe
    Unsafe,        \* the name of an interface whose name is not exported
    Width,         \* the router's counters count modulo Width
    MaxCarried     \* bound: an interface carries no more than this

ASSUME CollectorAssumption ==
    /\ IsFiniteSet(Interface)
    /\ Type \in [Interface -> {"ip", "ethernet"}]
    /\ DOMAIN Name = Interface
    /\ Width \in Nat \ {0} /\ MaxCarried \in Nat

VARIABLES
    counter,     \* router: the counter of an interface
    carried,     \* history: what the interface has carried in all
    stage,       \* where collect is
    sample,      \* the rows it has still to record
    baseline,    \* interface_baselines: the last value seen, by key
    exported,    \* the sum of what was added to the exported counter, by key
    opening      \* history: carried but not exported when the first sample
                 \*   of this run was taken, by key

vars == <<counter, carried, stage, sample, baseline, exported, opening>>

Missing   == -1   \* a value that is not there
Unsampled == -1   \* no sample of this key yet in this run
Lapsed    == -2   \* the router's counter went back in this run

Named == {i \in Interface : Name[i] # Unsafe}

(* Mutant: baselines by name alone.                                        *)
KeyByName(i) == <<"any", Name[i]>>

Key(i) == <<Type[i], Name[i]>>
Keys == {Key(i) : i \in Named}

(* No two exported interfaces of one type have the same name.              *)
UniqueKeys == \A i, j \in Named : Type[i] = Type[j] /\ Name[i] = Name[j] => i = j

Bytes == {Missing} \cup 0..(Width - 1)
Row   == [interface : Interface, bytes : Bytes]

TypeOK ==
    /\ counter \in [Interface -> 0..(Width - 1)]
    /\ carried \in [Interface -> 0..MaxCarried]
    /\ stage \in {"idle", "fetched", "recording"}
    /\ sample \in Seq(Row)
    /\ baseline \in [Keys -> Bytes]
    /\ exported \in [Keys -> Nat]
    /\ opening \in [Keys -> Int]

Init ==
    /\ counter \in [Interface -> 0..(Width - 1)]
    /\ carried = [i \in Interface |-> 0]
    /\ stage = "idle" /\ sample = <<>>
    /\ baseline = [k \in Keys |-> Missing]
    /\ exported = [k \in Keys |-> 0]
    /\ opening = [k \in Keys |-> Unsampled]

-----------------------------------------------------------------------------
(* The router.                                                             *)

GoesBack(i) ==
    opening' = [k \in Keys |-> IF i \in Named /\ k = Key(i) THEN Lapsed
                                                          ELSE opening[k]]

Carry(i) ==
    /\ carried[i] < MaxCarried
    /\ carried' = [carried EXCEPT ![i] = @ + 1]
    /\ IF counter[i] + 1 < Width
         THEN /\ counter' = [counter EXCEPT ![i] = @ + 1]
              /\ UNCHANGED opening
         ELSE counter' = [counter EXCEPT ![i] = 0] /\ GoesBack(i)
    /\ UNCHANGED <<stage, sample, baseline, exported>>

(* A restart of the router, or of the interface.                           *)
CounterResets(i) ==
    /\ counter' = [counter EXCEPT ![i] = 0]
    /\ GoesBack(i)
    /\ UNCHANGED <<carried, stage, sample, baseline, exported>>

-----------------------------------------------------------------------------
(* collect and the parser.                                                 *)

(* What the router may list of interfaces: some of them, in any order.     *)
Listings(S) ==
    {list \in UNION {[1..n -> S] : n \in 0..Cardinality(S)} :
        \A m, n \in DOMAIN list : list[m] = list[n] => m = n}

OfType(t) == {i \in Interface : Type[i] = t}

(* The statistics it lists with them: in the same order, some of them with *)
(* no value, and perhaps not all of them.                                  *)
Stats(list, silent, length) ==
    [n \in 1..length |-> IF list[n] \in silent THEN Missing
                                               ELSE counter[list[n]]]

(* interface_counters pairs the two lists by position and stops with the   *)
(* shorter one.                                                            *)
Zip(list, stats) ==
    [n \in 1..(IF Len(stats) < Len(list) THEN Len(stats) ELSE Len(list)) |->
        [interface |-> list[n], bytes |-> stats[n]]]

(* get_dal(TrafficStatus) and its conversion.  An object that is not a     *)
(* success is an empty list.                                               *)
FetchTraffic ==
    /\ stage = "idle"
    /\ stage' = "fetched"
    /\ \E ip \in Listings(OfType("ip")), eth \in Listings(OfType("ethernet")),
          silent \in SUBSET Interface :
          \E m \in 0..Len(ip), n \in 0..Len(eth) :
             sample' = Zip(ip, Stats(ip, silent, m))
                          \o Zip(eth, Stats(eth, silent, n))
    /\ UNCHANGED <<counter, carried, baseline, exported, opening>>

(* The band configuration, if it is needed, is fetched after the traffic:  *)
(* if that fails the rows at hand are dropped.                             *)
CollectFails ==
    /\ stage = "fetched"
    /\ stage' = "idle" /\ sample' = <<>>
    /\ UNCHANGED <<counter, carried, baseline, exported, opening>>

FetchBand ==
    /\ stage = "fetched"
    /\ stage' = "recording"
    /\ UNCHANGED <<counter, carried, sample, baseline, exported, opening>>

-----------------------------------------------------------------------------
(* record_router_snapshot, one row at a time.                              *)

(* Mutant: a counter that went back is subtracted.                         *)
DeltaSigned(last, current) ==
    IF Missing \notin {last, current} THEN current - last ELSE 0

(* record_counter_delta: what is added, and the value kept.                *)
Delta(last, current) ==
    IF Missing \notin {last, current} /\ current > last THEN current - last
                                                        ELSE 0

(* Mutant: a row without a value forgets the one before.                   *)
RebasedAlways(last, current) == current

Rebased(last, current) == IF current = Missing THEN last ELSE current

(* History: the first value of a run settles what it starts from.          *)
Opened(i, bytes) ==
    IF opening[Key(i)] = Unsampled /\ bytes # Missing
      THEN carried[i] - (counter[i] - bytes) - exported[Key(i)]
      ELSE opening[Key(i)]

RecordInterface(i, bytes) ==
    /\ exported' = [exported EXCEPT ![Key(i)] = @ + Delta(baseline[Key(i)], bytes)]
    /\ baseline' = [baseline EXCEPT ![Key(i)] = Rebased(@, bytes)]
    /\ opening' = [opening EXCEPT ![Key(i)] = Opened(i, bytes)]

Record ==
    /\ stage = "recording" /\ sample # <<>>
    /\ LET row == Head(sample) IN
          \/ row.interface \in Named /\ RecordInterface(row.interface, row.bytes)
          \/ row.interface \notin Named /\ UNCHANGED <<baseline, exported, opening>>
    /\ sample' = Tail(sample)
    /\ UNCHANGED <<counter, carried, stage>>

Recorded ==
    /\ stage = "recording" /\ sample = <<>>
    /\ stage' = "idle"
    /\ UNCHANGED <<counter, carried, sample, baseline, exported, opening>>

(* The program starts anew; what it exported is the backend's.             *)
ProgramRestarts ==
    /\ stage' = "idle" /\ sample' = <<>>
    /\ baseline' = [k \in Keys |-> Missing]
    /\ opening' = [k \in Keys |-> Unsampled]
    /\ UNCHANGED <<counter, carried, exported>>

-----------------------------------------------------------------------------
Router  == \E i \in Named : Carry(i) \/ CounterResets(i)
Collect == FetchTraffic \/ CollectFails \/ FetchBand \/ Record \/ Recorded

Next == Router \/ Collect \/ ProgramRestarts

Spec == Init /\ [][Next]_vars

-----------------------------------------------------------------------------
(* The exported counter of an interface never exceeds what the interface   *)
(* has carried: not by a first sample, a counter that went back, a row     *)
(* recorded late, or another interface under the same name.                *)
NeverOverstated == \A i \in Named : exported[Key(i)] <= carried[i]

(* While the router's counter only grows, nothing is lost or counted twice *)
(* from the first sample on: what was exported, what the run started from  *)
(* and what the next sample will add make up what was carried, whatever    *)
(* collections failed and rows were missing in between.                    *)
NothingLost ==
    \A i \in Named : LET k == Key(i) IN
        opening[k] \notin {Unsampled, Lapsed} =>
            /\ baseline[k] # Missing
            /\ exported[k] + opening[k] + (counter[i] - baseline[k]) = carried[i]
=============================================================================
