---------------------------- MODULE ClientProofs ----------------------------
(* Proofs about ZyxelClient, for any number of keys, runs, losses and RSA  *)
(* pairs, over http and https.                                             *)
EXTENDS ZyxelClient, FiniteSetTheorems, TLAPS

-----------------------------------------------------------------------------
(* The invariant.                                                          *)

(* The router makes up its keys in order, and the client has no other.     *)
KeysInOrder ==
    /\ key <= issued
    /\ \A k \in Keys : k > issued => opened[k] = Closed
    /\ at \in {"fetch", "login"} => key = 0
    /\ at = "fetch" => ~Https

(* While a login is being made the session before it is no longer used.    *)
Strays == IF at \in {"login", "renew"} THEN Open ELSE Open \ InUse

(* What may have been left behind.                                         *)
Owed == losses + walkouts

Accounted == Cardinality(Strays) + late <= Owed

(* Inside ensure_authenticated there is no result yet.                     *)
ResultFits ==
    /\ at \in {"probe", "logout", "renew"} => result = "none"
    /\ at \in {"info", "idle"} /\ result = "ok" /\ ~doubt => Live(key)

(* The runs that have ended.                                               *)
Ended == IF at = "down" THEN run ELSE run - 1

Tallies ==
    /\ losses \in 0..MaxLosses /\ walkouts \in Nat /\ late \in Nat
    /\ late <= Owed /\ walkouts <= Ended

Inv == TypeOK /\ KeysInOrder /\ SharedSecret /\ ResultFits /\ Tallies

-----------------------------------------------------------------------------
(* The requests, by what they do to the key and to the router.             *)

LEMMA SecretType ==
    ASSUME TypeOK
    PROVE  Secret \in 0..MaxRuns /\ Shared = Secret
  BY ClientAssumption DEF TypeOK, Secret, Shared

(* A session that is opened is the newest, and no other is touched.        *)
LEMMA OpensNewest ==
    ASSUME TypeOK, KeysInOrder, NEW secret \in 0..MaxRuns, Opens(secret)
    PROVE  /\ issued + 1 \in Keys /\ issued' = issued + 1
           /\ opened' \in [Keys -> {Closed} \cup 0..MaxRuns]
           /\ opened'[issued + 1] = secret
           /\ \A k \in Keys : k # issued + 1 => opened'[k] = opened[k]
           /\ \A k \in Keys : k > issued' => opened'[k] = Closed
           /\ Open' = Open \cup {issued + 1}
  <1>1. /\ issued + 1 \in Keys /\ issued' = issued + 1 /\ issued \in Nat
        /\ opened' = [opened EXCEPT ![issued + 1] = secret]
    BY ClientAssumption DEF Opens, TypeOK, Keys
  <1>2. /\ opened' \in [Keys -> {Closed} \cup 0..MaxRuns]
        /\ opened'[issued + 1] = secret
        /\ \A k \in Keys : k # issued + 1 => opened'[k] = opened[k]
    BY <1>1 DEF TypeOK
  <1>3. secret # Closed
    BY ClientAssumption DEF Closed
  <1>4. \A k \in Keys : k > issued' => opened'[k] = Closed
    BY <1>1, <1>2 DEF KeysInOrder, Keys
  <1> QED
    BY <1>1, <1>2, <1>3, <1>4 DEF Open

(* What a login can leave: nothing new, a session the client knows, one it *)
(* does not know, or a key that is worth nothing.                          *)
LEMMA LoginCases ==
    ASSUME Inv, LoginExchange
    PROVE  /\ UNCHANGED <<run, rsa, pair>>
           /\ \/ LoginAnswered /\ key' = issued + 1 /\ result' = "ok"
              \/ /\ LoginKeyless /\ key' = key /\ doubt'
                 /\ result' = IF key # 0 THEN "ok" ELSE "error"
              \/ LoginLost /\ key' = key /\ result' = "error"
              \/ LoginDelayed /\ key' = key /\ result' = "error"
              \/ LoginRefused /\ key' = key /\ result' = "error"
              \/ /\ LoginRefusedWithKey /\ key' = issued + 1
                 /\ result' = "error"
  <1>1. issued + 1 # 0 /\ issued \in Nat
    BY ClientAssumption DEF Inv, TypeOK
  <1> QED
    BY <1>1
    DEF LoginExchange, LoginAnswered, LoginKeyless, LoginLost, LoginDelayed,
        LoginRefused, LoginRefusedWithKey, LoginDone, LoginSucceeds, Extract,
        Opens, router

LEMMA LoginType ==
    ASSUME Inv, at \in {"login", "renew"}, LoginExchange
    PROVE  /\ key' \in 0..MaxKeys /\ key' <= issued'
           /\ issued' \in 0..MaxKeys
           /\ opened' \in [Keys -> {Closed} \cup 0..MaxRuns]
           /\ \A k \in Keys : k > issued' => opened'[k] = Closed
           /\ result' \in {"ok", "error"} /\ doubt' \in BOOLEAN
           /\ Live(key)' => opened'[key'] = Secret
           /\ result' = "ok" /\ ~doubt' => Live(key)'
           /\ UNCHANGED <<run, rsa, pair>>
  <1>1. Secret \in 0..MaxRuns /\ Shared = Secret
    BY SecretType DEF Inv
  <1>2. /\ key \in 0..MaxKeys /\ issued \in 0..MaxKeys /\ key <= issued
        /\ opened \in [Keys -> {Closed} \cup 0..MaxRuns]
        /\ doubt \in BOOLEAN
        /\ \A k \in Keys : k > issued => opened[k] = Closed
        /\ Live(key) => opened[key] = Secret
    BY DEF Inv, TypeOK, KeysInOrder, SharedSecret
  <1>3. MaxKeys \in Nat /\ Closed \notin 0..MaxRuns
    BY ClientAssumption DEF Closed
  <1>4. CASE LoginAnswered /\ key' = issued + 1 /\ result' = "ok"
    <2>1. Opens(Secret) /\ UNCHANGED doubt
      BY <1>1, <1>4 DEF LoginAnswered
    <2>2. /\ issued + 1 \in Keys /\ issued' = issued + 1
          /\ opened'[issued + 1] = Secret /\ Open' = Open \cup {issued + 1}
          /\ opened' \in [Keys -> {Closed} \cup 0..MaxRuns]
          /\ \A k \in Keys : k > issued' => opened'[k] = Closed
      BY <1>1, <2>1, OpensNewest DEF Inv
    <2> QED
      BY <1>2, <1>3, <1>4, <2>1, <2>2, LoginCases DEF Live, Keys
  <1>5. CASE (LoginKeyless \/ LoginLost) /\ key' = key
    <2>1. Opens(Secret)
      BY <1>1, <1>5 DEF LoginKeyless, LoginLost
    <2>2. /\ issued + 1 \in Keys /\ issued' = issued + 1
          /\ Open' = Open \cup {issued + 1}
          /\ opened' \in [Keys -> {Closed} \cup 0..MaxRuns]
          /\ \A k \in Keys : k # issued + 1 => opened'[k] = opened[k]
          /\ \A k \in Keys : k > issued' => opened'[k] = Closed
      BY <1>1, <2>1, OpensNewest DEF Inv
    <2>3. Live(key)' => opened'[key'] = Secret
      BY <1>2, <1>5, <2>2 DEF Live, Open
    <2>4. /\ doubt' \in BOOLEAN /\ result' \in {"ok", "error"}
          /\ result' = "ok" => doubt'
      BY <1>2, <1>5, LoginCases DEF LoginKeyless, LoginLost, LoginAnswered,
         LoginDelayed, LoginRefused, LoginRefusedWithKey, LoginDone,
         LoginSucceeds
    <2> QED
      BY <1>2, <1>3, <1>5, <2>1, <2>2, <2>3, <2>4, LoginCases DEF Keys
  <1>6. CASE (LoginDelayed \/ LoginRefused) /\ key' = key /\ result' = "error"
    <2>1. UNCHANGED <<doubt, opened, issued, pair>>
      BY <1>6 DEF LoginDelayed, LoginRefused, router
    <2> QED
      BY <1>2, <1>3, <1>6, <2>1, LoginCases DEF Live, Open
  <1>7. CASE LoginRefusedWithKey /\ key' = issued + 1 /\ result' = "error"
    <2>1. /\ issued < MaxKeys /\ issued' = issued + 1
          /\ UNCHANGED <<doubt, opened, pair>>
      BY <1>7 DEF LoginRefusedWithKey
    <2>2. issued + 1 \in Keys /\ opened[issued + 1] = Closed
      BY <1>2, <1>3, <2>1 DEF Keys
    <2>3. ~Live(key)'
      BY <1>7, <2>1, <2>2 DEF Live, Open
    <2> QED
      BY <1>2, <1>3, <1>7, <2>1, <2>2, <2>3, LoginCases DEF Keys
  <1> QED
    BY <1>4, <1>5, <1>6, <1>7, LoginCases

(* An ordinary request leaves the session as it is, or carries it on under *)
(* the newest key, known to the client or lost to it.                      *)
LEMMA RollsNewest ==
    ASSUME Inv, Live(key), Rolls
    PROVE  /\ issued + 1 \in Keys /\ issued' = issued + 1 /\ key # issued + 1
           /\ opened' \in [Keys -> {Closed} \cup 0..MaxRuns]
           /\ opened'[issued + 1] = opened[key]
           /\ \A k \in Keys : k > issued' => opened'[k] = Closed
           /\ Open' = (Open \ {key}) \cup {issued + 1}
  <1>1. /\ key \in Keys /\ key <= issued /\ issued + 1 \in Keys
        /\ issued' = issued + 1 /\ issued \in Nat /\ opened[key] # Closed
        /\ opened \in [Keys -> {Closed} \cup 0..MaxRuns]
        /\ opened' = [opened EXCEPT ![key] = Closed, ![issued + 1] = opened[key]]
    BY ClientAssumption DEF Rolls, Inv, TypeOK, KeysInOrder, Keys, Live, Open
  <1>2. /\ opened' \in [Keys -> {Closed} \cup 0..MaxRuns]
        /\ opened'[issued + 1] = opened[key] /\ opened'[key] = Closed
        /\ \A k \in Keys : k # key /\ k # issued + 1 => opened'[k] = opened[k]
    BY <1>1
  <1>3. \A k \in Keys : k > issued' => opened'[k] = Closed
    BY <1>1, <1>2 DEF Inv, KeysInOrder, Keys
  <1>4. Open' = (Open \ {key}) \cup {issued + 1}
    BY <1>1, <1>2 DEF Open
  <1> QED
    BY <1>1, <1>2, <1>3, <1>4

LEMMA ExchangeCases ==
    ASSUME Inv, NEW encrypted, NEW r, Exchange(encrypted, r)
    PROVE  \/ UNCHANGED <<key, router, losses>>
           \/ /\ r = "ok" /\ Live(key) /\ Rolls
              /\ key' = issued + 1 /\ UNCHANGED losses
           \/ r = "lost" /\ Live(key) /\ Rolls /\ Loses(1) /\ UNCHANGED key
  <1>1. issued + 1 # 0
    BY DEF Inv, TypeOK
  <1> QED
    BY <1>1 DEF Exchange, Accepted, Extract

LEMMA ExchangeType ==
    ASSUME Inv, at # "down", NEW encrypted, NEW r, Exchange(encrypted, r),
           UNCHANGED run
    PROVE  /\ key' \in 0..MaxKeys /\ key' <= issued'
           /\ issued' \in 0..MaxKeys /\ UNCHANGED pair
           /\ opened' \in [Keys -> {Closed} \cup 0..MaxRuns]
           /\ \A k \in Keys : k > issued' => opened'[k] = Closed
           /\ Live(key)' => opened'[key'] = Secret
           /\ r = "ok" /\ Live(key) => Live(key)'
  <1>1. /\ key \in 0..MaxKeys /\ issued \in 0..MaxKeys /\ key <= issued
        /\ opened \in [Keys -> {Closed} \cup 0..MaxRuns]
        /\ \A k \in Keys : k > issued => opened[k] = Closed
        /\ Live(key) => opened[key] = Secret
    BY DEF Inv, TypeOK, KeysInOrder, SharedSecret
  <1>2. CASE UNCHANGED <<key, router, losses>>
    BY <1>1, <1>2 DEF router, Live, Open
  <1>3. CASE Live(key) /\ Rolls
    <2>1. /\ issued + 1 \in Keys /\ issued' = issued + 1 /\ key # issued + 1
          /\ opened' \in [Keys -> {Closed} \cup 0..MaxRuns]
          /\ opened'[issued + 1] = opened[key]
          /\ \A k \in Keys : k > issued' => opened'[k] = Closed
          /\ Open' = (Open \ {key}) \cup {issued + 1}
      BY <1>3, RollsNewest
    <2>2. UNCHANGED pair
      BY <1>3 DEF Rolls
    <2>3. CASE r = "ok" /\ key' = issued + 1 /\ UNCHANGED losses
      BY <1>1, <1>3, <2>1, <2>2, <2>3 DEF Live, Keys
    <2>4. CASE r = "lost" /\ UNCHANGED key
      BY <1>1, <2>1, <2>2, <2>4 DEF Live, Keys
    <2> QED
      BY <2>3, <2>4, <1>2, ExchangeCases
  <1> QED
    BY <1>2, <1>3, ExchangeCases

-----------------------------------------------------------------------------
(* The invariant holds.                                                    *)

LEMMA InvInit == Init => Inv /\ Accounted
  <1> SUFFICES ASSUME Init PROVE Inv /\ Accounted
    OBVIOUS
  <1>1. TypeOK
    <2>1. opened \in [Keys -> {Closed} \cup 0..MaxRuns]
      BY DEF Init
    <2>2. CryptoFits
      BY DEF Init, CryptoFits
    <2>3. pair \in 1..MaxPairs
      BY ClientAssumption DEF Init
    <2>4. /\ 0 \in 0..MaxRuns /\ 0 \in 0..MaxPairs /\ 0 \in 0..MaxKeys
          /\ 0 \in 0..MaxLosses /\ 0 \in 0..(MaxLosses + MaxRuns)
      BY ClientAssumption
    <2> QED
      BY <2>1, <2>2, <2>3, <2>4 DEF Init, TypeOK, Places
  <1>2. Open = {}
    BY DEF Init, Open
  <1>3. Cardinality(Strays) = 0
    BY <1>2, FS_EmptySet DEF Strays
  <1> QED
    BY <1>1, <1>2, <1>3, ClientAssumption
    DEF Init, Inv, KeysInOrder, SharedSecret, ResultFits, Tallies, Ended,
        Owed, Accounted, Live

(* The tallies: what is owed, and what is still under way.                 *)
LEMMA TalliesStep ==
    ASSUME Inv, [Next]_vars
    PROVE  Tallies'
  <1>1. /\ losses \in 0..MaxLosses /\ walkouts \in Nat /\ late \in Nat
        /\ late <= losses + walkouts /\ walkouts <= Ended
        /\ run \in Nat /\ MaxLosses \in Nat
    BY ClientAssumption DEF Inv, Tallies, Owed, TypeOK
  <1>2. CASE Login \/ Renew
    <2>1. /\ UNCHANGED <<run, walkouts>> /\ at # "down"
          /\ \/ UNCHANGED <<late, losses>>
             \/ Loses(1) /\ late' = late
             \/ Loses(1) /\ late' = late + 1
      BY <1>2
      DEF Login, Renew, LoginExchange, LoginAnswered, LoginKeyless,
          LoginLost, LoginDelayed, LoginRefused, LoginRefusedWithKey
    <2> QED
      BY <1>1, <2>1 DEF Tallies, Owed, Ended, Loses
  <1>3. CASE Use \/ Probe \/ LogoutFirst \/ Quit
    <2>1. /\ UNCHANGED <<run, walkouts, late>> /\ at # "down"
          /\ \/ UNCHANGED losses
             \/ Loses(1)
             \/ Loses(0)
      BY <1>3
      DEF Use, Probe, Exchange, LogoutFirst, Quit, Logout, client
    <2> QED
      BY <1>1, <2>1 DEF Tallies, Owed, Ended, Loses
  <1>4. CASE Info \/ Kill
    <2>1. /\ UNCHANGED <<run, losses>> /\ at # "down"
          /\ \/ UNCHANGED <<walkouts, late>>
             \/ /\ walkouts' = walkouts + 1 /\ at' = "down"
                /\ late' \in {late, late + 1}
      BY <1>4 DEF Info, Kill, WalksOut, client
    <2> QED
      BY <1>1, <2>1 DEF Tallies, Owed, Ended
  <1>5. CASE Start \/ FetchRsa \/ Renewal
    <2>1. /\ UNCHANGED <<losses, walkouts, late>>
          /\ \/ UNCHANGED run /\ at # "down"
             \/ run' = run + 1 /\ at = "down"
      BY <1>5 DEF Start, FetchRsa, Renewal, past
    <2> QED
      BY <1>1, <2>1 DEF Tallies, Owed, Ended
  <1>6. CASE Expire \/ RouterRestarts \/ LateLogin \/ UNCHANGED vars
    <2>1. /\ UNCHANGED <<at, run, losses, walkouts>>
          /\ \/ UNCHANGED late
             \/ late > 0 /\ late' = late - 1
      BY <1>6 DEF Expire, RouterRestarts, LateLogin, vars, client, past
    <2> QED
      BY <1>1, <2>1 DEF Tallies, Owed, Ended
  <1> QED
    BY <1>2, <1>3, <1>4, <1>5, <1>6 DEF Next

LEMMA Bounds ==
    ASSUME NEW s, NEW w \in Nat, NEW l \in Nat, NEW n,
           s \in 0..MaxLosses, n \in 0..MaxRuns, l <= s + w,
           w <= n \/ w <= n - 1
    PROVE  w \in 0..MaxRuns /\ l \in 0..(MaxLosses + MaxRuns)
  BY ClientAssumption

LEMMA TalliesType ==
    ASSUME Tallies', run' \in 0..MaxRuns
    PROVE  /\ losses' \in 0..MaxLosses /\ walkouts' \in 0..MaxRuns
           /\ late' \in 0..(MaxLosses + MaxRuns)
  <1>1. /\ losses' \in 0..MaxLosses /\ walkouts' \in Nat /\ late' \in Nat
        /\ late' <= losses' + walkouts'
        /\ walkouts' <= run' \/ walkouts' <= run' - 1
    BY DEF Tallies, Owed, Ended
  <1> QED
    BY <1>1, Bounds

LEMMA LoginStep ==
    ASSUME Inv, Login \/ Renew, Tallies'
    PROVE  Inv'
  <1>1. at \in {"login", "renew"} /\ LoginExchange
    BY DEF Login, Renew
  <1>2. at' \in {"info", "idle", "down"} /\ (at' = "down" => result' # "ok")
    BY DEF Login, Renew
  <1>3. /\ run \in 0..MaxRuns /\ rsa \in 0..MaxPairs /\ pair \in 1..MaxPairs
        /\ IF Https THEN rsa = 0 ELSE rsa # 0
    BY <1>1 DEF Inv, TypeOK, CryptoFits
  <1>4. Secret' = Secret
    BY <1>1, LoginType DEF Secret
  <1>5. TypeOK'
    BY <1>1, <1>2, <1>3, LoginType, TalliesType DEF TypeOK, CryptoFits, Places
  <1>6. KeysInOrder'
    BY <1>1, <1>2, LoginType DEF KeysInOrder
  <1>7. SharedSecret' /\ ResultFits'
    BY <1>1, <1>2, <1>4, LoginType DEF SharedSecret, ResultFits
  <1> QED
    BY <1>5, <1>6, <1>7 DEF Inv

LEMMA RequestStep ==
    ASSUME Inv, Use \/ Probe, Tallies'
    PROVE  Inv'
  <1>1. PICK encrypted \in BOOLEAN, r \in Reply :
           /\ Exchange(encrypted, r)
           /\ \/ Use /\ result' = "none"
              \/ /\ Probe /\ r \in {"ok", "refused_in_body"}
                 /\ at' = "idle" /\ result' = "ok"
                 /\ doubt' = (doubt \/ r = "refused_in_body")
              \/ /\ Probe /\ at' = "logout" /\ UNCHANGED <<result, doubt>>
    BY DEF Use, Probe, AfterFailedProbe
  <1>2. /\ at \in {"idle", "probe"} /\ UNCHANGED <<run, rsa>>
        /\ at' \in {"idle", "logout"}
    BY <1>1 DEF Use, Probe
  <1>3. /\ run \in 0..MaxRuns /\ rsa \in 0..MaxPairs /\ pair \in 1..MaxPairs
        /\ IF Https THEN rsa = 0 ELSE rsa # 0
        /\ doubt \in BOOLEAN
        /\ at = "probe" => result = "none"
    BY <1>2 DEF Inv, TypeOK, CryptoFits, ResultFits
  <1>4. /\ key' \in 0..MaxKeys /\ key' <= issued'
        /\ issued' \in 0..MaxKeys /\ UNCHANGED pair
        /\ opened' \in [Keys -> {Closed} \cup 0..MaxRuns]
        /\ \A k \in Keys : k > issued' => opened'[k] = Closed
        /\ Live(key)' => opened'[key'] = Secret
        /\ r = "ok" /\ Live(key) => Live(key)'
    BY <1>1, <1>2, ExchangeType
  <1>5. r = "ok" => Live(key)
    BY <1>1 DEF Exchange, Accepted
  <1>6. result' \in {"none", "ok", "error"} /\ doubt' \in BOOLEAN
    <2>1. CASE Use \/ UNCHANGED <<result, doubt>>
      BY <1>1, <1>3, <2>1 DEF Use, Probe
    <2>2. CASE result' = "ok" /\ doubt' = (doubt \/ r = "refused_in_body")
      BY <2>2
    <2> QED
      BY <1>1, <2>1, <2>2
  <1>7. TypeOK'
    BY <1>2, <1>3, <1>4, <1>6, TalliesType DEF TypeOK, CryptoFits, Places
  <1>8. SharedSecret' /\ KeysInOrder'
    BY <1>2, <1>4 DEF SharedSecret, Secret, KeysInOrder
  <1>9. ResultFits'
    BY <1>1, <1>2, <1>3, <1>4, <1>5 DEF ResultFits, Use, Probe
  <1> QED
    BY <1>7, <1>8, <1>9 DEF Inv

(* Sessions are closed: by a logout, or by the router.                     *)
LEMMA CloseStep ==
    ASSUME Inv, LogoutFirst \/ Quit \/ Expire \/ RouterRestarts, Tallies'
    PROVE  Inv'
  <1>1. /\ key \in 0..MaxKeys /\ issued \in 0..MaxKeys /\ key <= issued
        /\ opened \in [Keys -> {Closed} \cup 0..MaxRuns]
        /\ \A k \in Keys : k > issued => opened[k] = Closed
        /\ run \in 0..MaxRuns
    BY DEF Inv, TypeOK, KeysInOrder
  <1>2. /\ UNCHANGED <<run, rsa, key, result, issued>>
        /\ pair' \in 1..MaxPairs
        /\ \/ UNCHANGED at /\ doubt'
           \/ /\ at' = (IF at = "logout" THEN "renew" ELSE "down")
              /\ at \in {"logout", "idle"} /\ UNCHANGED doubt
    BY ClientAssumption
    DEF LogoutFirst, Quit, Logout, Expire, RouterRestarts, client, Inv, TypeOK
  <1>3. /\ opened' \in [Keys -> {Closed} \cup 0..MaxRuns]
        /\ \A k \in Keys : opened'[k] \in {opened[k], Closed}
    BY <1>1
    DEF LogoutFirst, Quit, Logout, Expire, RouterRestarts, Live, Open
  <1>4. TypeOK'
    BY <1>1, <1>2, <1>3, TalliesType DEF Inv, TypeOK, CryptoFits, Places
  <1>5. KeysInOrder'
    BY <1>1, <1>2, <1>3 DEF Inv, KeysInOrder
  <1>6. SharedSecret'
    BY <1>2, <1>3 DEF Inv, SharedSecret, Live, Open, Secret
  <1>7. ResultFits'
    BY <1>2 DEF Inv, ResultFits
  <1> QED
    BY <1>4, <1>5, <1>6, <1>7 DEF Inv

LEMMA LateStep ==
    ASSUME Inv, LateLogin, Tallies'
    PROVE  Inv'
  <1>1. UNCHANGED <<at, run, rsa, key, result, doubt, pair>>
    BY DEF LateLogin, client, router, Opens
  <1>2. run \in 0..MaxRuns
    BY DEF Inv, TypeOK
  <1>3. CASE UNCHANGED router
    <2>1. TypeOK'
      <3>1. CryptoFits'
        BY <1>1 DEF Inv, TypeOK, CryptoFits
      <3> QED
        BY <1>1, <1>2, <1>3, <3>1, TalliesType DEF Inv, TypeOK, router
    <2>2. KeysInOrder' /\ SharedSecret' /\ ResultFits'
      BY <1>1, <1>3
      DEF Inv, TypeOK, KeysInOrder, SharedSecret, ResultFits, router, Live,
          Open, Secret
    <2> QED
      BY <2>1, <2>2 DEF Inv
  <1>4. CASE \E secret \in 0..run : Opens(secret)
    <2>1. PICK secret \in 0..MaxRuns : Opens(secret)
      BY <1>2, <1>4, ClientAssumption
    <2>2. /\ issued + 1 \in Keys /\ issued' = issued + 1
          /\ opened' \in [Keys -> {Closed} \cup 0..MaxRuns]
          /\ \A k \in Keys : k # issued + 1 => opened'[k] = opened[k]
          /\ \A k \in Keys : k > issued' => opened'[k] = Closed
          /\ Open' = Open \cup {issued + 1}
      BY <2>1, OpensNewest DEF Inv
    <2>3. key \in 0..MaxKeys /\ key <= issued /\ issued \in 0..MaxKeys
      BY DEF Inv, TypeOK, KeysInOrder
    <2>4. (Live(key)' <=> Live(key)) /\ (Live(key) => opened'[key] = opened[key])
      BY <1>1, <2>2, <2>3 DEF Live, Open
    <2>5. TypeOK'
      <3>1. CryptoFits'
        BY <1>1 DEF Inv, TypeOK, CryptoFits
      <3>2. issued' \in 0..MaxKeys
        BY <2>2, <2>3, ClientAssumption DEF Keys
      <3> QED
        BY <1>1, <1>2, <2>2, <2>3, <3>1, <3>2, TalliesType DEF Inv, TypeOK
    <2>6. KeysInOrder'
      BY <1>1, <2>2, <2>3 DEF Inv, KeysInOrder, TypeOK
    <2>7. SharedSecret' /\ ResultFits'
      BY <1>1, <2>4 DEF Inv, SharedSecret, ResultFits, Secret
    <2> QED
      BY <2>5, <2>6, <2>7 DEF Inv
  <1> QED
    BY <1>3, <1>4 DEF LateLogin

LEMMA ControlStep ==
    ASSUME Inv, Start \/ FetchRsa \/ Info \/ Renewal \/ Kill, Tallies'
    PROVE  Inv'
  <1>1. /\ UNCHANGED <<opened, issued, pair>>
        /\ key \in 0..MaxKeys /\ issued \in 0..MaxKeys /\ key <= issued
        /\ run \in 0..MaxRuns /\ pair \in 1..MaxPairs /\ rsa \in 0..MaxPairs
        /\ ~Live(0)
    BY DEF Start, FetchRsa, Info, Renewal, Kill, router, Inv, TypeOK,
           KeysInOrder, Live, Open, Keys
  <1>2. /\ run' \in 0..MaxRuns /\ rsa' \in 0..MaxPairs
        /\ key' \in {0, key} /\ at' \in Places
    BY <1>1, ClientAssumption
    DEF Start, FetchRsa, Info, Renewal, Kill, client, WalksOut,
        FirstRequest, Places
  <1>3. CryptoFits'
    <2>1. CASE Start
      BY <2>1 DEF Start, FirstRequest, CryptoFits
    <2>2. CASE FetchRsa
      <3>1. at' = "login" => rsa' # 0 /\ ~Https
        BY <1>1, <2>2 DEF FetchRsa, Inv, TypeOK, KeysInOrder
      <3> QED
        BY <2>2, <3>1 DEF FetchRsa, CryptoFits
    <2>3. CASE Info \/ Renewal \/ Kill
      BY <2>3
      DEF Info, Renewal, Kill, WalksOut, client, Inv, TypeOK, CryptoFits
    <2> QED
      BY <2>1, <2>2, <2>3
  <1>4. result' \in {"none", "ok", "error"} /\ doubt' \in BOOLEAN
    BY DEF Start, FetchRsa, Info, Renewal, Kill, client, Inv, TypeOK
  <1>5. TypeOK'
    BY <1>1, <1>2, <1>3, <1>4, ClientAssumption, TalliesType DEF Inv, TypeOK
  <1>6. KeysInOrder'
    BY <1>1, <1>2
    DEF Start, FetchRsa, Info, Renewal, Kill, WalksOut, client, FirstRequest,
        Inv, KeysInOrder
  <1>7. SharedSecret' /\ ResultFits'
    BY <1>1
    DEF Start, FetchRsa, Info, Renewal, Kill, WalksOut, client, FirstRequest,
        Inv, SharedSecret, ResultFits, Live, Open, Secret
  <1> QED
    BY <1>5, <1>6, <1>7 DEF Inv

LEMMA InvNext == Inv /\ [Next]_vars => Inv'
  <1> SUFFICES ASSUME Inv, [Next]_vars PROVE Inv'
    OBVIOUS
  <1>1. CASE UNCHANGED vars
    BY <1>1
    DEF vars, client, router, past, Inv, TypeOK, CryptoFits, KeysInOrder,
        SharedSecret, ResultFits, Tallies, Ended, Owed, Live, Open, Secret
  <1>2. Tallies'
    BY TalliesStep
  <1> QED
    BY <1>1, <1>2, LoginStep, RequestStep, CloseStep, LateStep, ControlStep DEF Next

LEMMA Invariance == Spec => []Inv
  BY InvInit, InvNext, PTL DEF Spec

(* The client and what it takes the router for keep to their types; over   *)
(* http it never makes an encrypted request without an RSA key.            *)
THEOREM ClientTypes == Spec => []TypeOK
  BY Invariance, PTL DEF Inv

(* The router can decrypt whatever carries an accepted key, in every run,  *)
(* after every renewal, and under every key the session is carried on.     *)
THEOREM SecretIsShared == Spec => []SharedSecret
  BY Invariance, PTL DEF Inv

(* Unless the router told a lie or forgot, a session that has been renewed *)
(* is accepted.                                                            *)
THEOREM RenewalsAreLive == Spec => []OkMeansLive
  <1>1. Inv => OkMeansLive
    BY DEF Inv, ResultFits, OkMeansLive
  <1> QED
    BY <1>1, Invariance, PTL

-----------------------------------------------------------------------------
(* The sessions left behind.                                               *)

LEMMA StraysCount ==
    ASSUME NEW T \in SUBSET Keys
    PROVE  IsFiniteSet(T) /\ Cardinality(T) \in Nat
  <1>1. IsFiniteSet(Keys)
    BY ClientAssumption, FS_Interval DEF Keys
  <1> QED
    BY <1>1, FS_Subset, FS_CardinalityType

(* Arithmetic, for the three lemmas below.                                 *)
LEMMA Balance ==
    ASSUME NEW c \in Nat, NEW cc \in Nat, NEW n \in Nat,
           NEW s \in Nat, NEW ss \in Nat, NEW l \in Nat, NEW ll \in Nat,
           c + l <= s, cc <= c + n, s + ll + n <= ss + l
    PROVE  cc + ll <= ss
  OBVIOUS

LEMMA Debits ==
    ASSUME NEW s \in Nat, NEW ss \in Nat, NEW l \in Nat, NEW ll \in Nat,
           NEW n \in Nat,
           \/ ss = s + n /\ ll = l
           \/ ss = s + n + 1 /\ ll = l + 1
    PROVE  s + ll + n <= ss + l
  OBVIOUS

LEMMA OwedSum ==
    ASSUME NEW s \in Nat, NEW w \in Nat, NEW ss \in Nat, NEW ww \in Nat
    PROVE  /\ s + w \in Nat
           /\ \A n \in Nat : ss = s + n /\ ww = w => ss + ww = s + w + n
           /\ ss = s /\ ww = w + 1 => ss + ww = s + w + 1
  OBVIOUS

LEMMA OwedType ==
    ASSUME Inv, Inv'
    PROVE  /\ Owed \in Nat /\ late \in Nat /\ Owed' \in Nat /\ late' \in Nat
           /\ losses \in Nat /\ walkouts \in Nat
           /\ (UNCHANGED walkouts /\ UNCHANGED losses) => UNCHANGED Owed
           /\ (UNCHANGED walkouts /\ Loses(0)) => Owed' = Owed + 0
           /\ (UNCHANGED walkouts /\ Loses(1)) => Owed' = Owed + 1
           /\ (walkouts' = walkouts + 1 /\ UNCHANGED losses) => Owed' = Owed + 1
  <1>1. /\ losses \in Nat /\ walkouts \in Nat /\ late \in Nat
        /\ losses' \in Nat /\ walkouts' \in Nat /\ late' \in Nat
    BY DEF Inv, Tallies
  <1>2. /\ Owed = losses + walkouts /\ Owed' = losses' + walkouts'
        /\ Owed \in Nat /\ Owed' \in Nat
    BY <1>1, OwedSum DEF Owed
  <1>3. ASSUME NEW n \in Nat, losses' = losses + n, walkouts' = walkouts
        PROVE  Owed' = Owed + n
    BY <1>1, <1>2, <1>3, OwedSum
  <1>4. ASSUME losses' = losses, walkouts' = walkouts + 1
        PROVE  Owed' = Owed + 1
    BY <1>1, <1>2, <1>4, OwedSum
  <1>5. ASSUME losses' = losses, walkouts' = walkouts
        PROVE  Owed' = Owed
    BY <1>2, <1>5
  <1>6. (Loses(0) => losses' = losses + 0) /\ (Loses(1) => losses' = losses + 1)
    BY DEF Loses
  <1> QED
    BY <1>1, <1>2, <1>3, <1>4, <1>5, <1>6

LEMMA NoMore ==
    ASSUME Inv, Inv', Accounted, Strays' \subseteq Strays,
           Owed + late' + 0 <= Owed' + late
    PROVE  Accounted'
  <1>1. Strays \in SUBSET Keys
    BY DEF Strays, Open
  <1>2. /\ Cardinality(Strays') <= Cardinality(Strays)
        /\ Cardinality(Strays') \in Nat /\ Cardinality(Strays) \in Nat
    BY <1>1, StraysCount, FS_Subset
  <1>3. /\ Owed \in Nat /\ late \in Nat /\ Owed' \in Nat /\ late' \in Nat
    BY OwedType
  <1>4. Cardinality(Strays) + late <= Owed
    BY DEF Accounted
  <1>5. Cardinality(Strays') <= Cardinality(Strays) + 0
    BY <1>2
  <1>6. Cardinality(Strays') + late' <= Owed'
    BY <1>2, <1>3, <1>4, <1>5, Balance
  <1> QED
    BY <1>6 DEF Accounted

LEMMA OneMore ==
    ASSUME Inv, Inv', Accounted, NEW k \in Keys,
           Strays' \subseteq Strays \cup {k},
           Owed + late' + 1 <= Owed' + late
    PROVE  Accounted'
  <1>1. Strays \in SUBSET Keys /\ Strays \cup {k} \in SUBSET Keys
    BY DEF Strays, Open
  <1>2. /\ Cardinality(Strays \cup {k}) <= Cardinality(Strays) + 1
        /\ Cardinality(Strays) \in Nat
    BY <1>1, StraysCount, FS_AddElement
  <1>3. /\ Cardinality(Strays') <= Cardinality(Strays \cup {k})
        /\ Cardinality(Strays') \in Nat
        /\ Cardinality(Strays \cup {k}) \in Nat
    BY <1>1, StraysCount, FS_Subset
  <1>4. /\ Owed \in Nat /\ late \in Nat /\ Owed' \in Nat /\ late' \in Nat
    BY OwedType
  <1>5. Cardinality(Strays) + late <= Owed
    BY DEF Accounted
  <1>6. Cardinality(Strays') <= Cardinality(Strays) + 1
    BY <1>2, <1>3
  <1>7. Cardinality(Strays') + late' <= Owed'
    BY <1>2, <1>3, <1>4, <1>5, <1>6, Balance
  <1> QED
    BY <1>7 DEF Accounted

(* A step that abandons the session in use, if there is one.               *)
LEMMA Abandons ==
    ASSUME Inv, Inv', Accounted, UNCHANGED <<opened, key>>,
           Owed' = Owed + (IF Live(key) THEN 1 ELSE 0), UNCHANGED late
    PROVE  Accounted'
  <1>1. /\ Owed \in Nat /\ late \in Nat /\ Owed' \in Nat /\ late' \in Nat
    BY OwedType
  <1>2. Open' = Open
    BY DEF Open
  <1>3. CASE Live(key)
    <2>1. Strays' \subseteq Strays \cup {key} /\ key \in Keys
      BY <1>2, <1>3 DEF Strays, InUse, Live, Open
    <2>2. Owed + late' + 1 <= Owed' + late
      BY <1>1, <1>3
    <2> QED
      BY <2>1, <2>2, OneMore
  <1>4. CASE ~Live(key)
    <2>1. Strays' \subseteq Strays
      BY <1>2, <1>4 DEF Strays, InUse, Live
    <2>2. Owed + late' + 0 <= Owed' + late
      BY <1>1, <1>4
    <2> QED
      BY <2>1, <2>2, NoMore
  <1> QED
    BY <1>3, <1>4

(* A run that walks out leaves the session it used, if there was one.      *)
LEMMA WalkedOut ==
    ASSUME Inv, Inv', Accounted, UNCHANGED <<opened, key, late>>,
           Owed' = Owed + 1
    PROVE  Accounted'
  <1>1. Open' = Open /\ Owed \in Nat /\ late \in Nat
    BY OwedType DEF Open
  <1>2. CASE Live(key)
    <2>1. Strays' \subseteq Strays \cup {key} /\ key \in Keys
      BY <1>1, <1>2 DEF Strays, InUse, Live, Open
    <2>2. Owed + late' + 1 <= Owed' + late
      BY <1>1
    <2> QED
      BY <2>1, <2>2, OneMore
  <1>3. CASE ~Live(key)
    <2>1. Strays' \subseteq Strays
      BY <1>1, <1>3 DEF Strays, InUse, Live
    <2>2. Owed + late' + 0 <= Owed' + late
      BY <1>1
    <2> QED
      BY <2>1, <2>2, NoMore
  <1> QED
    BY <1>2, <1>3

LEMMA LoginAccounted ==
    ASSUME Inv, Inv', Accounted, Login \/ Renew
    PROVE  Accounted'
  <1>1. /\ at \in {"login", "renew"} /\ LoginExchange
        /\ at' \in {"info", "idle", "down"} /\ Strays = Open
        /\ result' = "ok" => at' # "down"
        /\ UNCHANGED walkouts
    BY DEF Login, Renew, LoginExchange, Strays
  <1>2. /\ Owed \in Nat /\ late \in Nat /\ Owed' \in Nat /\ late' \in Nat
    BY OwedType
  <1>3. Secret \in 0..MaxRuns /\ Shared = Secret
    BY SecretType DEF Inv
  <1>4. Strays' \subseteq Open'
    BY DEF Strays
  <1>5. CASE LoginAnswered /\ key' = issued + 1 /\ result' = "ok"
    <2>1. Open' = Open \cup {issued + 1} /\ UNCHANGED <<late, losses>>
      BY <1>3, <1>5, OpensNewest DEF LoginAnswered, Inv
    <2>2. Strays' \subseteq Strays
      BY <1>1, <1>5, <2>1 DEF Strays, InUse
    <2>3. Owed + late' + 0 <= Owed' + late
      BY <1>1, <1>2, <2>1, OwedType
    <2> QED
      BY <2>2, <2>3, NoMore
  <1>6. CASE LoginKeyless \/ LoginLost
    <2>1. /\ Open' = Open \cup {issued + 1} /\ issued + 1 \in Keys
          /\ Loses(1) /\ UNCHANGED late
      BY <1>3, <1>6, OpensNewest DEF LoginKeyless, LoginLost, Inv
    <2>2. Strays' \subseteq Strays \cup {issued + 1}
      BY <1>1, <1>4, <2>1
    <2>3. Owed + late' + 1 <= Owed' + late
      BY <1>1, <1>2, <2>1, OwedType
    <2> QED
      BY <2>1, <2>2, <2>3, OneMore
  <1>7. CASE LoginDelayed \/ LoginRefused \/ LoginRefusedWithKey
    <2>1. Open' = Open
      BY <1>7
      DEF LoginDelayed, LoginRefused, LoginRefusedWithKey, router, Open
    <2>2. \/ Owed' = Owed + 0 /\ late' = late
          \/ Owed' = Owed + 0 + 1 /\ late' = late + 1
      <3>1. CASE LoginDelayed
        <4>1. Loses(1) /\ late' = late + 1
          BY <3>1 DEF LoginDelayed
        <4> QED
          BY <1>1, <1>2, <4>1, OwedType
      <3>2. CASE LoginRefused \/ LoginRefusedWithKey
        <4>1. UNCHANGED <<late, losses>>
          BY <3>2 DEF LoginRefused, LoginRefusedWithKey
        <4> QED
          BY <1>1, <1>2, <4>1, OwedType
      <3> QED
        BY <1>7, <3>1, <3>2
    <2>3. Owed + late' + 0 <= Owed' + late
      BY <1>2, <2>2, Debits
    <2> QED
      BY <1>1, <1>4, <2>1, <2>3, NoMore
  <1> QED
    BY <1>1, <1>5, <1>6, <1>7, LoginCases

LEMMA RequestAccounted ==
    ASSUME Inv, Inv', Accounted, Use \/ Probe
    PROVE  Accounted'
  <1>1. PICK encrypted, r : Exchange(encrypted, r)
    BY DEF Use, Probe
  <1>2. /\ at \in {"idle", "probe"} /\ at' \in {"idle", "logout"}
        /\ UNCHANGED <<late, walkouts>>
    BY DEF Use, Probe, AfterFailedProbe
  <1>3. Strays = Open \ {key} /\ Strays' = Open' \ {key'}
    BY <1>2 DEF Strays, InUse
  <1>4. /\ Owed \in Nat /\ late \in Nat /\ Owed' \in Nat /\ late' \in Nat
    BY OwedType
  <1>5. CASE UNCHANGED <<key, router, losses>>
    <2>1. Strays' \subseteq Strays
      BY <1>3, <1>5 DEF router, Open
    <2>2. Owed + late' + 0 <= Owed' + late
      BY <1>2, <1>4, <1>5, OwedType
    <2> QED
      BY <2>1, <2>2, NoMore
  <1>6. CASE /\ Live(key) /\ Rolls /\ key' = issued + 1 /\ UNCHANGED losses
    <2>1. Strays' \subseteq Strays
      BY <1>3, <1>6, RollsNewest
    <2>2. Owed + late' + 0 <= Owed' + late
      BY <1>2, <1>4, <1>6, OwedType
    <2> QED
      BY <2>1, <2>2, NoMore
  <1>7. CASE Live(key) /\ Rolls /\ Loses(1) /\ UNCHANGED key
    <2>1. Strays' \subseteq Strays \cup {issued + 1} /\ issued + 1 \in Keys
      BY <1>3, <1>7, RollsNewest
    <2>2. Owed + late' + 1 <= Owed' + late
      BY <1>2, <1>4, <1>7, OwedType
    <2> QED
      BY <2>1, <2>2, OneMore
  <1> QED
    BY <1>1, <1>5, <1>6, <1>7, ExchangeCases

LEMMA LogoutAccounted ==
    ASSUME Inv, Inv', Accounted, LogoutFirst \/ Quit
    PROVE  Accounted'
  <1>1. /\ at \in {"logout", "idle"} /\ at' \in {"renew", "down"}
        /\ UNCHANGED <<key, late, walkouts>>
        /\ \/ /\ opened' = [opened EXCEPT ![key] = Closed]
              /\ Live(key) /\ UNCHANGED losses
           \/ /\ Loses(IF Live(key) THEN 1 ELSE 0)
              /\ UNCHANGED opened
    BY DEF LogoutFirst, Quit, Logout, client
  <1>2. CASE /\ opened' = [opened EXCEPT ![key] = Closed]
             /\ Live(key) /\ UNCHANGED losses
    <2>1. Open' \subseteq Open \ {key}
      BY <1>2 DEF Inv, TypeOK, Live, Open
    <2>2. Strays' \subseteq Strays
      BY <1>1, <2>1 DEF Strays, InUse
    <2>3. Owed + late' + 0 <= Owed' + late
      BY <1>1, <1>2, OwedType
    <2> QED
      BY <2>2, <2>3, NoMore
  <1>3. CASE Loses(IF Live(key) THEN 1 ELSE 0) /\ UNCHANGED opened
    <2>1. Owed' = Owed + (IF Live(key) THEN 1 ELSE 0)
      BY <1>1, <1>3, OwedType
    <2> QED
      BY <1>1, <1>3, <2>1, Abandons
  <1> QED
    BY <1>1, <1>2, <1>3

LEMMA RouterAccounted ==
    ASSUME Inv, Inv', Accounted, Expire \/ RouterRestarts \/ LateLogin
    PROVE  Accounted'
  <1>1. UNCHANGED <<at, key, Owed>>
    BY DEF Expire, RouterRestarts, LateLogin, client, past, Owed
  <1>2. /\ Owed \in Nat /\ late \in Nat /\ run \in 0..MaxRuns
    BY OwedType DEF Inv, TypeOK
  <1>3. CASE Expire \/ RouterRestarts
    <2>1. Open' \subseteq Open /\ UNCHANGED late
      BY <1>3 DEF Expire, RouterRestarts, Open, Inv, TypeOK
    <2>2. Strays' \subseteq Strays
      BY <1>1, <2>1 DEF Strays, InUse
    <2>3. Owed + late' + 0 <= Owed' + late
      BY <1>1, <1>2, <2>1
    <2> QED
      BY <2>2, <2>3, NoMore
  <1>4. CASE LateLogin
    <2>1. late > 0 /\ late' = late - 1
      BY <1>4 DEF LateLogin
    <2>2. Owed + late' + 1 <= Owed' + late
      BY <1>1, <1>2, <2>1
    <2>3. CASE UNCHANGED router
      <3>1. Strays' \subseteq Strays
        BY <1>1, <2>3 DEF Strays, InUse, Open, router
      <3>2. Owed + late' + 0 <= Owed' + late
        BY <1>1, <1>2, <2>1
      <3> QED
        BY <3>1, <3>2, NoMore
    <2>4. CASE \E secret \in 0..run : Opens(secret)
      <3>1. PICK secret \in 0..MaxRuns : Opens(secret)
        BY <1>2, <2>4, ClientAssumption
      <3>2. Open' = Open \cup {issued + 1} /\ issued + 1 \in Keys
        BY <3>1, OpensNewest DEF Inv
      <3>3. Strays' \subseteq Strays \cup {issued + 1}
        BY <1>1, <3>2 DEF Strays, InUse
      <3> QED
        BY <2>2, <3>2, <3>3, OneMore
    <2> QED
      BY <1>4, <2>3, <2>4 DEF LateLogin
  <1> QED
    BY <1>3, <1>4

LEMMA AccountedNext == Inv /\ Inv' /\ Accounted /\ [Next]_vars => Accounted'
  <1> SUFFICES ASSUME Inv, Inv', Accounted, [Next]_vars PROVE Accounted'
    OBVIOUS
  <1>1. CASE Start \/ FetchRsa \/ Renewal \/ UNCHANGED vars
    <2>1. /\ UNCHANGED <<opened, late, Owed>> /\ 0 \notin Open
      BY <1>1
      DEF Start, FetchRsa, Renewal, vars, client, router, past, Owed, Open,
          Keys
    <2>2. Open' = Open
      BY <2>1 DEF Open
    <2>3. Strays' \subseteq Strays
      BY <1>1, <2>1, <2>2
      DEF Start, FetchRsa, Renewal, vars, client, Strays, InUse, Inv,
          KeysInOrder, FirstRequest
    <2>4. Owed + late' + 0 <= Owed' + late
      BY <2>1, OwedType
    <2> QED
      BY <2>3, <2>4, NoMore
  <1>2. CASE Info \/ Kill
    <2>1. UNCHANGED <<key, opened, losses>>
      BY <1>2 DEF Info, Kill, client, router
    <2>2. CASE /\ WalksOut /\ at \notin {"login", "renew"}
               /\ UNCHANGED late
      <3>1. Owed' = Owed + 1
        BY <2>1, <2>2, OwedType DEF WalksOut
      <3> QED
        BY <2>1, <2>2, <3>1, WalkedOut
    <2>3. CASE /\ WalksOut /\ at \in {"login", "renew"}
               /\ late' \in {late, late + 1}
      <3>1. Strays' \subseteq Strays
        BY <2>1, <2>3 DEF Strays, Open
      <3>2. Owed + late' + 0 <= Owed' + late
        BY <2>1, <2>3, OwedType DEF WalksOut
      <3> QED
        BY <3>1, <3>2, NoMore
    <2>4. CASE at' = "idle" /\ at = "info" /\ UNCHANGED <<walkouts, late>>
      <3>1. Strays' \subseteq Strays
        BY <2>1, <2>4 DEF Strays, InUse, Open
      <3>2. Owed + late' + 0 <= Owed' + late
        BY <2>1, <2>4, OwedType
      <3> QED
        BY <3>1, <3>2, NoMore
    <2> QED
      BY <1>2, <2>2, <2>3, <2>4 DEF Info, Kill
  <1> QED
    BY <1>1, <1>2, LoginAccounted, RequestAccounted, LogoutAccounted,
       RouterAccounted
    DEF Next

(* Every session that is open on the router without being used is owed to  *)
(* a key or a logout that did not arrive, or to a run that ended without   *)
(* asking for a logout, and to each of them at most one.                   *)
THEOREM SessionsAccounted == Spec => []NoStraySessions
  <1>1. Inv /\ Accounted => NoStraySessions
    <2> SUFFICES ASSUME Inv, Accounted PROVE NoStraySessions
      OBVIOUS
    <2>1. Strays \in SUBSET Keys /\ Open \ InUse \in SUBSET Keys
          /\ Open \ InUse \subseteq Strays
      BY DEF Strays, Open
    <2>2. /\ Cardinality(Open \ InUse) <= Cardinality(Strays)
          /\ Cardinality(Open \ InUse) \in Nat /\ Cardinality(Strays) \in Nat
      BY <2>1, StraysCount, FS_Subset
    <2>3. late \in Nat /\ Owed \in Nat
      BY DEF Inv, Tallies, Owed
    <2> QED
      BY <2>2, <2>3 DEF Accounted, Owed, NoStraySessions
  <1>2. Inv /\ Inv' /\ Accounted /\ [Next]_vars => Accounted'
    BY AccountedNext
  <1>3. Init => Accounted
    BY InvInit
  <1> QED
    BY <1>1, <1>2, <1>3, Invariance, PTL DEF Spec

-----------------------------------------------------------------------------
(* The client implements Session.                                          *)

LEMMA WorthCases ==
    ASSUME Inv
    PROVE  /\ Worth \in {"none", "live", "stale"}
           /\ Worth = "none" <=> key = 0
           /\ Worth = "live" <=> Live(key)
  BY DEF Worth, Live, Open, Keys

(* A session that is not renewed stays, or is lost.                        *)
LEMMA StaysOrExpires ==
    ASSUME Inv, Inv', key' = key, Live(key)' => Live(key)
    PROVE  UNCHANGED Worth \/ S!Expire
  BY DEF Worth, Live, S!Expire

(* One login is the renewal that follows a probe that did not pass.        *)
LEMMA LoginIsRenewal ==
    ASSUME Inv, Inv', Login \/ Renew
    PROVE  \E misled \in BOOLEAN :
              S!Renews(result' = "ok", misled) /\ (misled => doubt')
  <1>1. LoginExchange
    BY DEF Login, Renew
  <1>2. \E r \in S!Reply : S!Answer(r) /\ ~S!ProbePasses(r)
    BY DEF S!Reply, S!Answer, S!Replies, S!ProbePasses, Reply
  <1>3. Worth \in S!KeysAfterLogout(Worth)
    BY DEF S!KeysAfterLogout
  <1>4. Secret \in 0..MaxRuns /\ Shared = Secret
    BY SecretType DEF Inv
  <1>5. SUFFICES
          \E r \in {"ok", "keyless", "lost", "refused", "refused_with_key"} :
             /\ (result' = "ok") = S!LoginSucceeds(Worth, r)
             /\ Worth' = S!KeyAfterLogin(Worth, r)
             /\ r = "keyless" => doubt'
    <2>1. PICK r \in {"ok", "keyless", "lost", "refused", "refused_with_key"} :
             /\ (result' = "ok") = S!LoginSucceeds(Worth, r)
             /\ Worth' = S!KeyAfterLogin(Worth, r)
             /\ r = "keyless" => doubt'
      BY <1>5
    <2>2. S!Renews(result' = "ok", r = "keyless")
      BY <1>2, <1>3, <2>1 DEF S!Renews
    <2> QED
      BY <2>1, <2>2
  <1>6. CASE LoginAnswered /\ key' = issued + 1 /\ result' = "ok"
    <2>1. Open' = Open \cup {issued + 1} /\ issued + 1 \in Keys
      BY <1>4, <1>6, OpensNewest DEF LoginAnswered, Inv
    <2>2. Worth' = "live"
      BY <1>6, <2>1 DEF Worth, Live, Keys
    <2> QED
      BY <1>6, <2>2 DEF S!LoginSucceeds, S!KeyAfterLogin
  <1>7. CASE (LoginKeyless \/ LoginLost) /\ key' = key
    <2>1. Open' = Open \cup {issued + 1} /\ key # issued + 1
      BY <1>4, <1>7, OpensNewest
      DEF LoginKeyless, LoginLost, Inv, KeysInOrder, TypeOK
    <2>2. Worth' = Worth
      BY <1>7, <2>1 DEF Worth, Live
    <2>3. CASE LoginKeyless /\ result' = (IF key # 0 THEN "ok" ELSE "error")
      BY <1>1, <2>2, <2>3, WorthCases
      DEF S!LoginSucceeds, S!KeyAfterLogin, LoginKeyless
    <2>4. CASE LoginLost /\ result' = "error"
      BY <2>2, <2>4 DEF S!LoginSucceeds, S!KeyAfterLogin
    <2> QED
      BY <1>1, <1>7, <2>3, <2>4 DEF LoginKeyless, LoginLost, LoginDone,
         LoginSucceeds, Extract
  <1>8. CASE (LoginDelayed \/ LoginRefused) /\ key' = key /\ result' = "error"
    <2>1. Worth' = Worth
      BY <1>8 DEF LoginDelayed, LoginRefused, router, Worth, Live, Open
    <2> QED
      BY <1>8, <2>1 DEF S!LoginSucceeds, S!KeyAfterLogin
  <1>9. CASE LoginRefusedWithKey /\ key' = issued + 1 /\ result' = "error"
    <2>1. UNCHANGED opened /\ issued + 1 \in Keys
      BY <1>9, ClientAssumption DEF LoginRefusedWithKey, Inv, TypeOK, Keys
    <2>2. opened[issued + 1] = Closed /\ issued + 1 # 0
      BY <2>1 DEF Inv, KeysInOrder, TypeOK
    <2>3. Worth' = "stale"
      BY <1>9, <2>1, <2>2 DEF Worth, Live, Open
    <2> QED
      BY <1>9, <2>3 DEF S!LoginSucceeds, S!KeyAfterLogin
  <1> QED
    BY <1>1, <1>6, <1>7, <1>8, <1>9, LoginCases

LEMMA SessionStep ==
    ASSUME Inv, Inv', [Next]_vars, vars' # vars
    PROVE  KeepsSession
  <1>1. CASE Login \/ Renew
    BY <1>1, LoginIsRenewal DEF KeepsSession, Login, Renew, Returns
  <1>2. CASE Use \/ Probe
    <2>1. PICK encrypted \in BOOLEAN, r \in Reply :
             /\ Exchange(encrypted, r)
             /\ Returns => /\ r \in {"ok", "refused_in_body"}
                           /\ result' = "ok"
                           /\ r = "refused_in_body" => doubt'
      BY <1>2 DEF Use, Probe, AfterFailedProbe, Returns
    <2>2. CASE /\ r = "ok" /\ Live(key)
               /\ UNCHANGED <<key, router>> \/ (Rolls /\ key' = issued + 1)
      <3>1. Live(key)'
        BY <2>2, RollsNewest DEF router, Live, Open
      <3>2. Worth = "live" /\ Worth' = "live"
        BY <2>2, <3>1 DEF Worth, Live, Open, Keys
      <3>3. ASSUME result' = "ok" PROVE S!Renews(result' = "ok", FALSE)
        BY <3>3, <3>2
        DEF S!Renews, S!Answer, S!Replies, S!Reply, S!ProbePasses, Reply
      <3> QED
        BY <2>1, <3>2, <3>3 DEF KeepsSession
    <2>3. CASE r = "lost" /\ Live(key) /\ UNCHANGED key
      <3>1. ~Returns
        BY <2>1, <2>3
      <3> QED
        BY <2>3, <3>1, StaysOrExpires DEF KeepsSession
    <2>4. CASE r \in {"refused", "refused_in_body"} /\ UNCHANGED <<key, router>>
      <3>1. UNCHANGED Worth
        BY <2>4 DEF router, Worth, Live, Open
      <3>2. ASSUME result' = "ok", r = "refused_in_body"
            PROVE  S!Renews(result' = "ok", TRUE)
        BY <3>1, <3>2
        DEF S!Renews, S!Answer, S!Replies, S!Reply, S!ProbePasses, Reply
      <3> QED
        BY <2>1, <2>4, <3>1, <3>2 DEF KeepsSession
    <2>5. issued + 1 # 0
      BY DEF Inv, TypeOK
    <2> QED
      BY <2>1, <2>2, <2>3, <2>4, <2>5 DEF Exchange, Accepted, Extract
  <1>3. CASE Start
    BY <1>3 DEF KeepsSession, Start, Worth, Returns
  <1>4. CASE FetchRsa \/ Info \/ Renewal
    BY <1>4
    DEF KeepsSession, FetchRsa, Info, Renewal, client, router, Worth, Live,
        Open, Returns
  <1>5. CASE Quit \/ Kill
    BY <1>5 DEF KeepsSession, Quit, Logout, Kill, WalksOut, Returns
  <1>6. CASE LogoutFirst
    <2>1. key' = key /\ (Live(key)' => Live(key)) /\ ~Returns
      BY <1>6 DEF LogoutFirst, Logout, client, Live, Open, Returns, Inv, TypeOK
    <2> QED
      BY <2>1, StaysOrExpires DEF KeepsSession
  <1>7. CASE Expire \/ RouterRestarts
    <2>1. key' = key /\ (Live(key)' => Live(key)) /\ ~Returns
      BY <1>7 DEF Expire, RouterRestarts, Live, Open, Returns, Inv, TypeOK
    <2> QED
      BY <2>1, StaysOrExpires DEF KeepsSession
  <1>8. CASE LateLogin
    <2>1. key' = key /\ ~Returns
      BY <1>8 DEF LateLogin, client, Returns
    <2>2. Live(key)' => Live(key)
      <3>1. CASE UNCHANGED router
        BY <2>1, <3>1 DEF router, Live, Open
      <3>2. CASE \E secret \in 0..run : Opens(secret)
        <4>1. PICK secret \in 0..MaxRuns : Opens(secret)
          BY <3>2, ClientAssumption DEF Inv, TypeOK
        <4>2. Open' = Open \cup {issued + 1} /\ key # issued + 1
          BY <4>1, OpensNewest DEF Inv, KeysInOrder, TypeOK
        <4> QED
          BY <2>1, <4>2 DEF Live
      <3> QED
        BY <1>8, <3>1, <3>2 DEF LateLogin
    <2> QED
      BY <2>1, <2>2, StaysOrExpires DEF KeepsSession
  <1> QED
    BY <1>1, <1>2, <1>3, <1>4, <1>5, <1>6, <1>7, <1>8 DEF Next

(* What Session takes for one step, ensure_authenticated, is one step of   *)
(* the client's three requests, and the others do no more to the session   *)
(* than Session lets the router do.                                        *)
THEOREM SessionImplemented == Spec => ImplementsSession
  <1>1. Inv /\ Inv' /\ [Next]_vars =>
          [KeepsSession]_vars
    BY SessionStep
  <1> QED
    BY <1>1, Invariance, PTL DEF Spec, ImplementsSession
=============================================================================
