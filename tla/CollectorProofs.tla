--------------------------- MODULE CollectorProofs ---------------------------
(***************************************************************************)
(* Proofs about Collector, for any interfaces, any width of the router's   *)
(* counters and any amount of traffic: the exported counters are never     *)
(* ahead of the traffic, and behind it only where the router's counter     *)
(* went back.                                                              *)
(***************************************************************************)
EXTENDS Collector, SequenceTheorems, TLAPS

-----------------------------------------------------------------------------
(* Inductive strengthening.                                                *)

(* An interface has at most one row among those still to be recorded.      *)
ListedOnce ==
    \A m, n \in 1..Len(sample) :
        sample[m].interface = sample[n].interface => m = n

(* What the next sample would add keeps within what was carried.           *)
WithinCarried(i) ==
    /\ exported[Key(i)] <= carried[i]
    /\ baseline[Key(i)] # Missing =>
          exported[Key(i)] + (counter[i] - baseline[Key(i)]) <= carried[i]

(* So does what a row that waits to be recorded adds, and the next sample  *)
(* after it.                                                               *)
RowWithinCarried(i, bytes) ==
    /\ exported[Key(i)] + (counter[i] - bytes) <= carried[i]
    /\ baseline[Key(i)] # Missing =>
          exported[Key(i)] + (bytes - baseline[Key(i)]) <= carried[i]

(* As long as the counter has not gone back, the books of an interface are *)
(* balanced, and its samples do not decrease.                              *)
Balanced(i) ==
    opening[Key(i)] # Lapsed =>
        /\ opening[Key(i)] = Unsampled <=> baseline[Key(i)] = Missing
        /\ baseline[Key(i)] # Missing =>
              /\ opening[Key(i)] >= 0 /\ baseline[Key(i)] <= counter[i]
              /\ exported[Key(i)] + opening[Key(i)]
                    + (counter[i] - baseline[Key(i)]) = carried[i]

RowInOrder(i, bytes) ==
    opening[Key(i)] # Lapsed => bytes <= counter[i] /\ baseline[Key(i)] <= bytes

Waiting(i, bytes) ==
    \E n \in 1..Len(sample) :
        sample[n].interface = i /\ sample[n].bytes = bytes

Accounted(i) == WithinCarried(i) /\ Balanced(i)
RowAccounted(i, bytes) == RowWithinCarried(i, bytes) /\ RowInOrder(i, bytes)

Inv ==
    /\ TypeOK /\ ListedOnce
    /\ \A i \in Named : Accounted(i)
    /\ \A i \in Named, bytes \in 0..(Width - 1) :
          Waiting(i, bytes) => RowAccounted(i, bytes)

-----------------------------------------------------------------------------
(* Lemmas.                                                                 *)

LEMMA KeyInKeys == ASSUME NEW i \in Named PROVE Key(i) \in Keys
  BY DEF Keys

(* With unique keys the exported counters are one for each interface.      *)
LEMMA KeysDiffer ==
    ASSUME UniqueKeys, NEW i \in Named, NEW j \in Named, Key(i) = Key(j)
    PROVE  i = j
  BY DEF UniqueKeys, Key

(* Pairing a listing with its statistics yields one well-formed row for    *)
(* each interface listed, with its counter or with nothing.                *)
LEMMA ZipRows ==
    ASSUME NEW S \in SUBSET Interface, NEW list \in Listings(S),
           NEW silent, NEW m \in 0..Len(list),
           counter \in [Interface -> 0..(Width - 1)]
    PROVE  LET rows == Zip(list, Stats(list, silent, m)) IN
           /\ rows \in Seq(Row)
           /\ \A n \in 1..Len(rows) :
                 /\ rows[n].interface \in S
                 /\ rows[n].bytes \in {Missing, counter[rows[n].interface]}
           /\ \A p, q \in 1..Len(rows) :
                 rows[p].interface = rows[q].interface => p = q
<1> DEFINE stats == Stats(list, silent, m)
           rows == Zip(list, stats)
<1>1. PICK l \in Nat : list \in [1..l -> S]
  BY DEF Listings
<1>2. Len(list) = l /\ list \in Seq(S)
  BY <1>1
<1>3. Len(stats) = m /\ m <= l /\ m \in Nat
  BY <1>2 DEF Stats
<1>4. rows = [n \in 1..m |-> [interface |-> list[n], bytes |-> stats[n]]]
  BY <1>2, <1>3 DEF Zip
<1>5. \A n \in 1..m :
         /\ list[n] \in S
         /\ stats[n] \in {Missing, counter[list[n]]}
  BY <1>1, <1>3 DEF Stats
<1>6. \A n \in 1..m : rows[n] \in Row
  BY <1>4, <1>5 DEF Row, Bytes
<1>7. rows \in Seq(Row) /\ Len(rows) = m
  BY <1>3, <1>4, <1>6
<1>8. \A p, q \in 1..l : list[p] = list[q] => p = q
  BY <1>1 DEF Listings
<1> QED
  BY <1>3, <1>4, <1>5, <1>7, <1>8

(* The rows of a whole fetch.                                              *)
LEMMA FetchedRows ==
    ASSUME CollectorAssumption, TypeOK, FetchTraffic
    PROVE  /\ sample' \in Seq(Row)
           /\ \A n \in 1..Len(sample') :
                 sample'[n].bytes \in {Missing, counter[sample'[n].interface]}
           /\ ListedOnce'
<1>0. PICK ip \in Listings(OfType("ip")), eth \in Listings(OfType("ethernet")),
           silent \in SUBSET Interface :
         \E m \in 0..Len(ip), n \in 0..Len(eth) :
            sample' = Zip(ip, Stats(ip, silent, m))
                         \o Zip(eth, Stats(eth, silent, n))
  BY DEF FetchTraffic
<1>1. PICK m \in 0..Len(ip), n \in 0..Len(eth) :
         sample' = Zip(ip, Stats(ip, silent, m))
                      \o Zip(eth, Stats(eth, silent, n))
  BY <1>0
<1> DEFINE r == Zip(ip, Stats(ip, silent, m))
           s == Zip(eth, Stats(eth, silent, n))
<1>2. /\ OfType("ip") \in SUBSET Interface
      /\ OfType("ethernet") \in SUBSET Interface
      /\ OfType("ip") \cap OfType("ethernet") = {}
  BY DEF OfType
<1>3. counter \in [Interface -> 0..(Width - 1)]
  BY DEF TypeOK
<1>4. /\ r \in Seq(Row)
      /\ \A k \in 1..Len(r) :
            /\ r[k].interface \in OfType("ip")
            /\ r[k].bytes \in {Missing, counter[r[k].interface]}
      /\ \A p, q \in 1..Len(r) : r[p].interface = r[q].interface => p = q
  BY <1>2, <1>3, ZipRows
<1>5. /\ s \in Seq(Row)
      /\ \A k \in 1..Len(s) :
            /\ s[k].interface \in OfType("ethernet")
            /\ s[k].bytes \in {Missing, counter[s[k].interface]}
      /\ \A p, q \in 1..Len(s) : s[p].interface = s[q].interface => p = q
  BY <1>2, <1>3, ZipRows
<1> HIDE DEF r, s
<1>6. sample' = r \o s
  BY <1>1 DEF r, s
<1>7. /\ sample' \in Seq(Row)
      /\ Len(sample') = Len(r) + Len(s)
      /\ \A k \in 1..(Len(r) + Len(s)) :
            sample'[k] = IF k <= Len(r) THEN r[k] ELSE s[k - Len(r)]
  BY <1>4, <1>5, <1>6, ConcatProperties
<1>8. Len(r) \in Nat /\ Len(s) \in Nat
  BY <1>4, <1>5
<1>9. \A k \in 1..Len(sample') :
         \/ k \in 1..Len(r) /\ sample'[k] = r[k]
         \/ k - Len(r) \in 1..Len(s) /\ sample'[k] = s[k - Len(r)]
  BY <1>7, <1>8
<1>10. \A k \in 1..Len(sample') :
          sample'[k].bytes \in {Missing, counter[sample'[k].interface]}
  <2> TAKE k \in 1..Len(sample')
  <2>1. CASE k \in 1..Len(r) /\ sample'[k] = r[k]
    BY <2>1, <1>4
  <2>2. CASE k - Len(r) \in 1..Len(s) /\ sample'[k] = s[k - Len(r)]
    BY <2>2, <1>5
  <2> QED
    BY <1>9, <2>1, <2>2
<1>11. ASSUME NEW p \in 1..Len(sample'), NEW q \in 1..Len(sample'),
              sample'[p].interface = sample'[q].interface
       PROVE  p = q
  <2>1. CASE /\ p \in 1..Len(r) /\ sample'[p] = r[p]
             /\ q \in 1..Len(r) /\ sample'[q] = r[q]
    BY <2>1, <1>4, <1>11
  <2>2. CASE /\ p - Len(r) \in 1..Len(s) /\ sample'[p] = s[p - Len(r)]
             /\ q - Len(r) \in 1..Len(s) /\ sample'[q] = s[q - Len(r)]
    <3>1. p - Len(r) = q - Len(r)
      BY <2>2, <1>5, <1>11
    <3> QED
      BY <3>1, <1>7, <1>8
  <2>3. CASE /\ p \in 1..Len(r) /\ sample'[p] = r[p]
             /\ q - Len(r) \in 1..Len(s) /\ sample'[q] = s[q - Len(r)]
    BY <2>3, <1>2, <1>4, <1>5, <1>11
  <2>4. CASE /\ p - Len(r) \in 1..Len(s) /\ sample'[p] = s[p - Len(r)]
             /\ q \in 1..Len(r) /\ sample'[q] = r[q]
    BY <2>4, <1>2, <1>4, <1>5, <1>11
  <2> QED
    BY <1>9, <2>1, <2>2, <2>3, <2>4
<1> QED
  BY <1>7, <1>10, <1>11 DEF ListedOnce

(* Recording the first row leaves the others.                              *)
LEMMA TailRows ==
    ASSUME sample \in Seq(Row), sample # <<>>, ListedOnce, sample' = Tail(sample)
    PROVE  /\ Head(sample) \in Row /\ sample' \in Seq(Row)
           /\ ListedOnce'
           /\ Waiting(Head(sample).interface, Head(sample).bytes)
           /\ \A i, bytes : Waiting(i, bytes)' =>
                 Waiting(i, bytes) /\ i # Head(sample).interface
<1>1. /\ Head(sample) \in Row /\ sample' \in Seq(Row)
      /\ Len(sample') = Len(sample) - 1
      /\ \A n \in 1..Len(sample') : sample'[n] = sample[n + 1]
  BY HeadTailProperties
<1>2. Len(sample) \in Nat /\ Len(sample) >= 1 /\ Head(sample) = sample[1]
  BY EmptySeq
<1>3. ListedOnce'
  BY <1>1, <1>2 DEF ListedOnce
<1>4. Waiting(Head(sample).interface, Head(sample).bytes)
  BY <1>2 DEF Waiting
<1>5. ASSUME NEW i, NEW bytes, Waiting(i, bytes)'
      PROVE  Waiting(i, bytes) /\ i # Head(sample).interface
  <2>1. PICK n \in 1..Len(sample') :
           sample'[n].interface = i /\ sample'[n].bytes = bytes
    BY <1>5 DEF Waiting
  <2>2. n + 1 \in 1..Len(sample) /\ sample[n + 1] = sample'[n]
    BY <1>1, <1>2, <2>1
  <2>3. Waiting(i, bytes)
    BY <2>1, <2>2 DEF Waiting
  <2>4. sample[n + 1].interface # sample[1].interface
    BY <1>2, <2>2 DEF ListedOnce
  <2> QED
    BY <1>2, <2>1, <2>2, <2>3, <2>4
<1> QED
  BY <1>1, <1>3, <1>4, <1>5

-----------------------------------------------------------------------------
(* Type correctness.                                                       *)

LEMMA TypeStep ==
    ASSUME CollectorAssumption, TypeOK, ListedOnce, [Next]_vars
    PROVE  TypeOK'
<1> USE DEF Missing, Lapsed, Unsampled, Bytes
<1>1. ASSUME NEW i \in Named, Carry(i) PROVE TypeOK'
  <2>1. i \in Interface
    BY DEF Named
  <2>2. /\ carried[i] + 1 \in 0..MaxCarried
        /\ counter[i] \in 0..(Width - 1) /\ 0 \in 0..(Width - 1)
        /\ counter[i] + 1 < Width => counter[i] + 1 \in 0..(Width - 1)
    BY <1>1, <2>1, CollectorAssumption DEF CollectorAssumption, TypeOK, Carry
  <2>4. carried' \in [Interface -> 0..MaxCarried]
    BY <1>1, <2>2 DEF TypeOK, Carry
  <2>5. counter' \in [Interface -> 0..(Width - 1)]
    <3>1. CASE counter[i] + 1 < Width
      BY <1>1, <2>2, <3>1 DEF TypeOK, Carry
    <3>2. CASE ~(counter[i] + 1 < Width)
      BY <1>1, <2>2, <3>2 DEF TypeOK, Carry
    <3> QED
      BY <3>1, <3>2
  <2>3. opening' \in [Keys -> Int]
    BY <1>1 DEF TypeOK, Carry, GoesBack
  <2> QED
    BY <1>1, <2>3, <2>4, <2>5 DEF TypeOK, Carry
<1>2. ASSUME NEW i \in Named, CounterResets(i) PROVE TypeOK'
  <2>1. i \in Interface
    BY DEF Named
  <2>2. counter' \in [Interface -> 0..(Width - 1)]
    BY <1>2, <2>1 DEF CollectorAssumption, TypeOK, CounterResets
  <2>3. opening' \in [Keys -> Int]
    BY <1>2 DEF TypeOK, CounterResets, GoesBack
  <2> QED
    BY <1>2, <2>2, <2>3 DEF TypeOK, CounterResets
<1>3. CASE FetchTraffic
  BY <1>3, FetchedRows DEF TypeOK, FetchTraffic
<1>4. CASE CollectFails
  BY <1>4 DEF TypeOK, CollectFails
<1>5. CASE FetchBand
  BY <1>5 DEF TypeOK, FetchBand
<1>6. CASE Record
  <2> DEFINE row == Head(sample)
  <2>1. row \in Row /\ sample' \in Seq(Row)
    BY <1>6, TailRows DEF TypeOK, Record
  <2>2. CASE row.interface \in Named /\ RecordInterface(row.interface, row.bytes)
    <3> DEFINE i == row.interface  k == Key(i)
    <3>1. i \in Interface /\ row.bytes \in Bytes /\ k \in Keys
      BY <2>1, <2>2, KeyInKeys DEF Row
    <3>2. /\ counter[i] \in Int /\ carried[i] \in Int
          /\ exported[k] \in Nat /\ baseline[k] \in Bytes /\ opening[k] \in Int
      BY <3>1 DEF TypeOK, CollectorAssumption
    <3> HIDE DEF i, k
    <3>3. Delta(baseline[k], row.bytes) \in Nat
      BY <3>1, <3>2 DEF Delta, CollectorAssumption
    <3>4. exported' \in [Keys -> Nat]
      BY <2>2, <3>1, <3>2, <3>3 DEF TypeOK, RecordInterface, i, k
    <3>5. Rebased(baseline[k], row.bytes) \in Bytes
      BY <3>1, <3>2 DEF Rebased
    <3>6. baseline' \in [Keys -> Bytes]
      BY <2>2, <3>1, <3>5 DEF TypeOK, RecordInterface, i, k
    <3>7. Opened(i, row.bytes) \in Int
      BY <3>1, <3>2 DEF Opened, k, CollectorAssumption
    <3>8. opening' \in [Keys -> Int]
      BY <2>2, <3>1, <3>7 DEF TypeOK, RecordInterface, i, k
    <3> QED
      BY <1>6, <2>1, <3>4, <3>6, <3>8 DEF TypeOK, Record
  <2>3. CASE UNCHANGED <<baseline, exported, opening>>
    BY <1>6, <2>1, <2>3 DEF TypeOK, Record
  <2> QED
    BY <1>6, <2>2, <2>3 DEF Record
<1>7. CASE Recorded
  BY <1>7 DEF TypeOK, Recorded
<1>8. CASE ProgramRestarts
  BY <1>8 DEF TypeOK, ProgramRestarts
<1>9. CASE UNCHANGED vars
  BY <1>9 DEF TypeOK, vars
<1> QED
  BY <1>1, <1>2, <1>3, <1>4, <1>5, <1>6, <1>7, <1>8, <1>9
     DEF Next, Router, Collect
-----------------------------------------------------------------------------
(* The invariant, step by step.                                            *)

(* The values of one interface, for the arithmetic.                        *)
LEMMA Values ==
    ASSUME CollectorAssumption, TypeOK, NEW i \in Named
    PROVE  /\ counter[i] \in 0..(Width - 1) /\ carried[i] \in Nat
           /\ exported[Key(i)] \in Nat /\ baseline[Key(i)] \in Bytes
           /\ opening[Key(i)] \in Int /\ i \in Interface /\ Key(i) \in Keys
  BY KeyInKeys DEF TypeOK, Named, CollectorAssumption

(* The router's steps leave the program's variables alone.                 *)
LEMMA RouterStep ==
    ASSUME CollectorAssumption, UniqueKeys, Inv, TypeOK',
           NEW i \in Named, Carry(i) \/ CounterResets(i)
    PROVE  Inv'
<1> USE DEF Missing, Lapsed, Unsampled, Bytes
<1>1. UNCHANGED <<stage, sample, baseline, exported>>
  BY DEF Carry, CounterResets
<1>2. ListedOnce' /\ \A j, bytes : Waiting(j, bytes)' <=> Waiting(j, bytes)
  BY <1>1 DEF Inv, ListedOnce, Waiting
<1>3. ASSUME NEW j \in Named, j # i
      PROVE  /\ counter'[j] = counter[j] /\ carried'[j] = carried[j]
             /\ opening'[Key(j)] = opening[Key(j)]
  <2>1. Key(i) # Key(j)
    BY <1>3, KeysDiffer
  <2> QED
    BY <1>3, <2>1, KeyInKeys, Values
       DEF Inv, TypeOK, Carry, CounterResets, GoesBack
<1>4. \/ /\ counter'[i] = counter[i] + 1 /\ carried'[i] = carried[i] + 1
         /\ opening'[Key(i)] = opening[Key(i)]
      \/ /\ counter'[i] = 0 /\ carried'[i] \in {carried[i], carried[i] + 1}
         /\ opening'[Key(i)] = Lapsed
  BY Values DEF Inv, TypeOK, Carry, CounterResets, GoesBack
<1>5. ASSUME NEW j \in Named PROVE Accounted(j)'
  <2>1. Accounted(j)
    BY DEF Inv
  <2>2. CASE j # i
    BY <1>1, <1>3, <2>1, <2>2
       DEF Accounted, WithinCarried, Balanced, Key
  <2>3. CASE j = i
    BY <1>1, <1>4, <2>1, <2>3, Values
       DEF Inv, Accounted, WithinCarried, Balanced, Key
  <2> QED
    BY <2>2, <2>3
<1>6. ASSUME NEW j \in Named, NEW bytes \in 0..(Width - 1), Waiting(j, bytes)'
      PROVE  RowAccounted(j, bytes)'
  <2>1. RowAccounted(j, bytes)
    BY <1>2, <1>6 DEF Inv
  <2>2. CASE j # i
    BY <1>1, <1>3, <2>1, <2>2
       DEF RowAccounted, RowWithinCarried, RowInOrder, Key
  <2>3. CASE j = i
    BY <1>1, <1>4, <2>1, <2>3, Values
       DEF Inv, RowAccounted, RowWithinCarried, RowInOrder, Key
  <2> QED
    BY <2>2, <2>3
<1> QED
  BY <1>2, <1>5, <1>6 DEF Inv

(* A row that is recorded: its bytes are accounted for.                    *)
LEMMA RecordStep ==
    ASSUME CollectorAssumption, UniqueKeys, Inv, TypeOK', Record
    PROVE  Inv'
<1> USE DEF Missing, Lapsed, Unsampled, Bytes
<1>0. Head(sample) \in Row
  BY TailRows DEF Inv, TypeOK, Record
<1>2. PICK i \in Interface, v \in Bytes :
         Head(sample).interface = i /\ Head(sample).bytes = v
  BY <1>0 DEF Row
<1>1. /\ ListedOnce' /\ Waiting(i, v)
      /\ \A j, bytes : Waiting(j, bytes)' => Waiting(j, bytes) /\ j # i
  BY <1>2, TailRows DEF Inv, TypeOK, Record
<1>3. UNCHANGED <<counter, carried>>
  BY DEF Record
<1>4. ASSUME NEW j \in Named, j # i
      PROVE  /\ exported'[Key(j)] = exported[Key(j)]
             /\ baseline'[Key(j)] = baseline[Key(j)]
             /\ opening'[Key(j)] = opening[Key(j)]
  <2>1. CASE i \in Named /\ RecordInterface(i, v)
    <3>1. Key(i) # Key(j)
      BY <1>4, <2>1, KeysDiffer
    <3> QED
      BY <2>1, <3>1, KeyInKeys DEF Inv, TypeOK, RecordInterface
  <2> QED
    BY <1>2, <2>1 DEF Record
<1>5. ASSUME NEW j \in Named, NEW bytes \in 0..(Width - 1), Waiting(j, bytes)'
      PROVE  RowAccounted(j, bytes)'
  <2>1. RowAccounted(j, bytes) /\ j # i
    BY <1>1, <1>5 DEF Inv
  <2> QED
    BY <1>3, <1>4, <2>1
       DEF RowAccounted, RowWithinCarried, RowInOrder, Key
<1>6. ASSUME NEW j \in Named PROVE Accounted(j)'
  <2>1. Accounted(j)
    BY DEF Inv
  <2>2. CASE j # i
    BY <1>3, <1>4, <2>1, <2>2 DEF Accounted, WithinCarried, Balanced, Key
  <2>3. CASE j = i
    <3> DEFINE k == Key(i)
    <3>1. /\ counter[i] \in 0..(Width - 1) /\ carried[i] \in Nat
          /\ exported[k] \in Nat /\ baseline[k] \in Bytes
          /\ opening[k] \in Int /\ k \in Keys
      BY <2>3, Values DEF Inv
    <3>2. RecordInterface(i, v)
      BY <1>2, <2>3 DEF Record
    <3>3. /\ exported'[k] = exported[k] + Delta(baseline[k], v)
          /\ baseline'[k] = Rebased(baseline[k], v)
          /\ opening'[k] = Opened(i, v)
      BY <3>1, <3>2 DEF Inv, TypeOK, RecordInterface
    <3>4. v # Missing => RowAccounted(i, v)
      BY <1>1, <1>2, <2>3 DEF Inv
    <3>5. WithinCarried(i)'
      BY <1>2, <1>3, <2>1, <2>3, <3>1, <3>3, <3>4, CollectorAssumption
         DEF Accounted, WithinCarried, RowAccounted, RowWithinCarried,
             Delta, Rebased, Key, CollectorAssumption
    <3>6. Balanced(i)'
      BY <1>2, <1>3, <2>1, <2>3, <3>1, <3>3, <3>4, CollectorAssumption
         DEF Accounted, Balanced, RowAccounted, RowInOrder, RowWithinCarried,
             Delta, Rebased, Opened, Key, CollectorAssumption
    <3> QED
      BY <2>3, <3>5, <3>6 DEF Accounted
  <2> QED
    BY <2>2, <2>3
<1> QED
  BY <1>1, <1>5, <1>6 DEF Inv
(* A fetch: each row holds what its interface counts at that moment.       *)
LEMMA FetchStep ==
    ASSUME CollectorAssumption, Inv, TypeOK', FetchTraffic
    PROVE  Inv'
<1> USE DEF Missing, Lapsed, Unsampled, Bytes
<1>1. UNCHANGED <<counter, carried, baseline, exported, opening>>
  BY DEF FetchTraffic
<1>2. /\ ListedOnce'
      /\ \A n \in 1..Len(sample') :
            sample'[n].bytes \in {Missing, counter[sample'[n].interface]}
  BY FetchedRows DEF Inv
<1>3. ASSUME NEW j \in Named PROVE Accounted(j)'
  <2>1. Accounted(j)
    BY DEF Inv
  <2> QED
    BY <1>1, <2>1 DEF Accounted, WithinCarried, Balanced, Key
<1>4. ASSUME NEW j \in Named, NEW bytes \in 0..(Width - 1), Waiting(j, bytes)'
      PROVE  RowAccounted(j, bytes)'
  <2>1. bytes = counter[j]
    BY <1>2, <1>4 DEF Waiting
  <2>2. Accounted(j)
    BY DEF Inv
  <2> QED
    BY <1>1, <2>1, <2>2, Values
       DEF Inv, Accounted, WithinCarried, Balanced,
           RowAccounted, RowWithinCarried, RowInOrder, Key
<1> QED
  BY <1>2, <1>3, <1>4 DEF Inv

(* A collection that fails, and a new run of the program, drop the rows.   *)
LEMMA DropStep ==
    ASSUME CollectorAssumption, Inv, TypeOK', CollectFails \/ ProgramRestarts
    PROVE  Inv'
<1> USE DEF Missing, Lapsed, Unsampled, Bytes
<1>1. UNCHANGED <<counter, carried, exported>> /\ sample' = <<>>
  BY DEF CollectFails, ProgramRestarts
<1>2. ListedOnce' /\ \A j, bytes : ~Waiting(j, bytes)'
  BY <1>1 DEF ListedOnce, Waiting
<1>3. ASSUME NEW j \in Named PROVE Accounted(j)'
  <2>1. Accounted(j)
    BY DEF Inv
  <2>2. CASE CollectFails
    BY <1>1, <2>1, <2>2
       DEF CollectFails, Accounted, WithinCarried, Balanced, Key
  <2>3. CASE ProgramRestarts
    <3>1. baseline'[Key(j)] = Missing /\ opening'[Key(j)] = Unsampled
      BY <2>3, KeyInKeys DEF ProgramRestarts
    <3> QED
      BY <1>1, <2>1, <3>1 DEF Accounted, WithinCarried, Balanced, Key
  <2> QED
    BY <2>2, <2>3
<1> QED
  BY <1>2, <1>3 DEF Inv

LEMMA InvInit == ASSUME CollectorAssumption, Init PROVE Inv
<1> USE DEF Missing, Lapsed, Unsampled, Bytes
<1>1. TypeOK
  BY DEF Init, TypeOK, CollectorAssumption
<1>2. ListedOnce /\ \A j, bytes : ~Waiting(j, bytes)
  BY DEF Init, ListedOnce, Waiting
<1>3. ASSUME NEW j \in Named PROVE Accounted(j)
  BY Values, <1>1 DEF Init, Accounted, WithinCarried, Balanced
<1> QED
  BY <1>1, <1>2, <1>3 DEF Inv

LEMMA InvStep ==
    ASSUME CollectorAssumption, UniqueKeys, Inv, [Next]_vars
    PROVE  Inv'
<1>1. TypeOK'
  BY TypeStep DEF Inv
<1>2. CASE Router
  BY <1>1, <1>2, RouterStep DEF Router
<1>3. CASE FetchTraffic
  BY <1>1, <1>3, FetchStep
<1>4. CASE CollectFails \/ ProgramRestarts
  BY <1>1, <1>4, DropStep
<1>5. CASE Record
  BY <1>1, <1>5, RecordStep
<1>6. CASE FetchBand \/ Recorded \/ UNCHANGED vars
  <2>1. UNCHANGED <<counter, carried, sample, baseline, exported, opening>>
    BY <1>6 DEF FetchBand, Recorded, vars
  <2>2. /\ ListedOnce'
        /\ \A j \in Named : Accounted(j)'
    BY <2>1 DEF Inv, ListedOnce, Accounted, WithinCarried, Balanced, Key
  <2>3. ASSUME NEW j \in Named, NEW bytes \in 0..(Width - 1), Waiting(j, bytes)'
        PROVE  RowAccounted(j, bytes)'
    <3>1. Waiting(j, bytes)
      BY <2>1, <2>3 DEF Waiting
    <3> QED
      BY <2>1, <3>1
         DEF Inv, RowAccounted, RowWithinCarried, RowInOrder, Key
  <2> QED
    BY <1>1, <2>2, <2>3 DEF Inv
<1> QED
  BY <1>2, <1>3, <1>4, <1>5, <1>6 DEF Next, Collect

LEMMA Invariance == ASSUME CollectorAssumption, UniqueKeys PROVE Spec => []Inv
  BY InvInit, InvStep, PTL DEF Spec

-----------------------------------------------------------------------------
(* The exported counters are never ahead of the traffic: however many      *)
(* collections fail, whenever the router's counters go back, and across    *)
(* runs of the program, as long as no two interfaces share a key.          *)
THEOREM Understated ==
    ASSUME CollectorAssumption, UniqueKeys
    PROVE  Spec => []NeverOverstated
<1>1. Inv => NeverOverstated
  BY DEF Inv, NeverOverstated, Accounted, WithinCarried
<1> QED
  BY <1>1, Invariance, PTL

(* From the first sample of a run until the router's counter goes back     *)
(* the exported counter follows the traffic exactly.                       *)
THEOREM BooksBalance ==
    ASSUME CollectorAssumption, UniqueKeys
    PROVE  Spec => []NothingLost
<1>1. Inv => NothingLost
  BY DEF Inv, NothingLost, Accounted, Balanced
<1> QED
  BY <1>1, Invariance, PTL

(* Type correctness, from the one fact it needs: pairing the lists of the  *)
(* router yields rows.  It does not depend on the names being unique.      *)
THEOREM CollectorTypes ==
    ASSUME CollectorAssumption
    PROVE  Spec => []TypeOK
<1>1. Init => TypeOK /\ ListedOnce
  BY InvInit DEF Inv
<1>2. TypeOK /\ ListedOnce /\ [Next]_vars => (TypeOK /\ ListedOnce)'
  <2> SUFFICES ASSUME TypeOK, ListedOnce, [Next]_vars PROVE TypeOK' /\ ListedOnce'
    OBVIOUS
  <2>1. TypeOK'
    BY TypeStep
  <2>2. ListedOnce'
    <3>1. CASE FetchTraffic
      BY <3>1, FetchedRows
    <3>2. CASE Record
      BY <3>2, TailRows DEF TypeOK, Record
    <3>3. CASE sample' = <<>>
      BY <3>3 DEF ListedOnce
    <3>4. CASE UNCHANGED sample
      BY <3>4 DEF ListedOnce
    <3> QED
      BY <3>1, <3>2, <3>3, <3>4
         DEF Next, Router, Carry, CounterResets, Collect, CollectFails,
             FetchBand, Recorded, ProgramRestarts, vars
  <2> QED
    BY <2>1, <2>2
<1> QED
  BY <1>1, <1>2, PTL DEF Spec
=============================================================================
