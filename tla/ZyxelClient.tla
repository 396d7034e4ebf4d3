----------------------------- MODULE ZyxelClient -----------------------------
(***************************************************************************)
(* ZyxelClient (src/src/client) over the runs of the program, against a    *)
(* router that keeps sessions: the one number session_key, how logins,     *)
(* logouts and ordinary requests change it, and the AES key that requests  *)
(* over plain http are encrypted with.                                     *)
(*                                                                         *)
(* A step is one request with its answer.  The router is code outside the  *)
(* repository; of its answers, the client tells apart                      *)
(*   - a transport error, an HTTP error or a body that cannot be read      *)
(*     ("lost" if the router did what it was asked, "refused" if not);     *)
(*   - HTTP 200 with a body that reports a refusal ("refused_in_body");    *)
(*   - an acknowledgement ("ok").                                          *)
(* A key comes with the answer to a login, be it a refusal, or with an     *)
(* acknowledgement; that a refused request for data brings one as well is  *)
(* not assumed of the router.                                              *)
(***************************************************************************)
EXTENDS Integers, FiniteSets

CONSTANTS
    Https,      \* cfg.protocol is "https"
    MaxKeys,    \* bound: session keys the router hands out
    MaxRuns,    \* bound: runs of the program
    MaxLosses,  \* bound: losses that can leave a session behind
    MaxPairs    \* bound: RSA key pairs the router goes through

ASSUME ClientAssumption ==
    /\ Https \in BOOLEAN
    /\ MaxKeys \in Nat /\ MaxRuns \in Nat /\ MaxLosses \in Nat
    /\ MaxPairs \in Nat \ {0}

VARIABLES
    at,        \* the request the program makes next
    run,       \* which run of the program it is, and its aes_key
    rsa,       \* rsa_public_key: which of the router's pairs, 0 if none
    key,       \* session_key, 0 before the first login
    result,    \* what ensure_authenticated returned last
    doubt,     \* history: may the router have told a lie, or forgotten?
    opened,    \* router: the AES key it knows for each open session
    issued,    \* router: the last session key it made up
    pair,      \* router: its RSA key pair
    late,      \* network: login requests given up on, still under way
    losses,    \* history: losses that can leave a session behind
    walkouts   \* history: runs that ended without asking for a logout

client == <<run, rsa, key, result, doubt>>
router == <<opened, issued, pair>>
past   == <<losses, walkouts>>
vars   == <<at, client, router, late, past>>

Keys   == 1..MaxKeys
Closed == -1

Places == {"down", "fetch", "login", "info", "idle", "probe", "logout", "renew"}

(* crypto is Some exactly if the requests are to be encrypted.             *)
CryptoFits ==
    at \notin {"down", "fetch"} => IF Https THEN rsa = 0 ELSE rsa # 0

TypeOK ==
    /\ at \in Places
    /\ run \in 0..MaxRuns /\ rsa \in 0..MaxPairs
    /\ key \in 0..MaxKeys
    /\ result \in {"none", "ok", "error"} /\ doubt \in BOOLEAN
    /\ opened \in [Keys -> {Closed} \cup 0..MaxRuns]
    /\ issued \in 0..MaxKeys /\ pair \in 1..MaxPairs
    /\ losses \in 0..MaxLosses /\ walkouts \in 0..MaxRuns
    /\ late \in 0..(MaxLosses + MaxRuns)
    /\ CryptoFits

Open == {k \in Keys : opened[k] # Closed}

Live(k) == k \in Open

-----------------------------------------------------------------------------
Init ==
    /\ at = "down" /\ run = 0 /\ rsa = 0
    /\ key = 0 /\ result = "none" /\ doubt = FALSE
    /\ opened = [k \in Keys |-> Closed]
    /\ issued = 0 /\ pair = 1
    /\ late = 0 /\ losses = 0 /\ walkouts = 0

(* An answer or a logout on which a session hangs does not arrive.         *)
Loses(n) == losses + n <= MaxLosses /\ losses' = losses + n

-----------------------------------------------------------------------------
(* What the client makes of an answer.                                     *)

(* Mutant: only the first login's key is stored.                           *)
ExtractOnce(carried) == IF key = 0 THEN carried ELSE key

(* try_extract_session_key, which runs before the body is understood; 0    *)
(* stands for a body without a key.                                        *)
Extract(carried) == IF carried = 0 THEN key ELSE carried

(* Mutant: login does not look at the result.                              *)
LoginBelieved(r, carried) == Extract(carried) # 0

(* login: the result must be a success, and there must be some key, be it  *)
(* that of an earlier login.                                               *)
LoginSucceeds(r, carried) == r = "ok" /\ Extract(carried) # 0

(* aes_key: a fresh one for each run; https has none.                      *)
Secret == IF Https THEN 0 ELSE run

(* Mutant: LOGIN_EP does not include the AES key.                          *)
NothingShared == 0

(* encrypt_json with include_aes_key: the login tells the router the AES   *)
(* key, and no other request does.                                         *)
Shared == Secret

(* The AES key travels under the RSA key that was fetched at the start.    *)
Readable == Https \/ rsa = pair

-----------------------------------------------------------------------------
(* One login request.                                                      *)

Opens(secret) ==
    /\ issued < MaxKeys
    /\ issued' = issued + 1
    /\ opened' = [opened EXCEPT ![issued + 1] = secret]
    /\ UNCHANGED pair

LoginDone(r, carried) ==
    /\ key' = Extract(carried)
    /\ result' = IF LoginSucceeds(r, carried) THEN "ok" ELSE "error"

LoginAnswered ==
    /\ Readable /\ Opens(Shared)
    /\ LoginDone("ok", issued + 1)
    /\ UNCHANGED <<doubt, late, losses>>

(* A success without a key, or without a body.                             *)
LoginKeyless ==
    /\ Readable /\ Opens(Shared) /\ Loses(1)
    /\ LoginDone("ok", 0)
    /\ doubt' = TRUE
    /\ UNCHANGED late

LoginLost ==
    /\ Readable /\ Opens(Shared) /\ Loses(1)
    /\ LoginDone("lost", 0)
    /\ UNCHANGED <<doubt, late>>

(* The client's timeout of ten seconds ends its wait, not the request.     *)
LoginDelayed ==
    /\ Loses(1) /\ late' = late + 1
    /\ LoginDone("lost", 0)
    /\ UNCHANGED <<doubt, router>>

LoginRefused ==
    /\ LoginDone("refused", 0)
    /\ UNCHANGED <<doubt, router, late, losses>>

LoginRefusedWithKey ==
    /\ issued < MaxKeys
    /\ issued' = issued + 1
    /\ LoginDone("refused", issued + 1)
    /\ UNCHANGED <<doubt, opened, pair, late, losses>>

LoginExchange ==
    /\ \/ LoginAnswered \/ LoginKeyless \/ LoginLost
       \/ LoginDelayed \/ LoginRefused \/ LoginRefusedWithKey
    /\ UNCHANGED <<run, rsa, walkouts>>

-----------------------------------------------------------------------------
(* An ordinary request: execute_path with requires_auth.                   *)

(* set_dal encrypts its body, with the AES key the router has been told.   *)
Accepted(encrypted) == Live(key) /\ (encrypted => opened[key] = Secret)

(* The router carries the session on under another key.                    *)
Rolls ==
    /\ issued < MaxKeys
    /\ issued' = issued + 1
    /\ opened' = [opened EXCEPT ![key] = Closed, ![issued + 1] = opened[key]]
    /\ UNCHANGED pair

Exchange(encrypted, r) ==
    \/ /\ r = "ok" /\ Accepted(encrypted)
       /\ \/ UNCHANGED <<key, router>>
          \/ Rolls /\ key' = Extract(issued + 1)
       /\ UNCHANGED losses
    \/ /\ r = "lost" /\ Accepted(encrypted)
       /\ \/ UNCHANGED <<router, losses>>
          \/ Rolls /\ Loses(1)
       /\ UNCHANGED key
    \/ /\ r \in {"refused", "refused_in_body"}
       /\ UNCHANGED <<key, router, losses>>

Reply == {"ok", "lost", "refused", "refused_in_body"}

-----------------------------------------------------------------------------
(* The program.                                                            *)

(* Mutant: ZyxelClient::new does not ask for the router's RSA key.         *)
FirstUnencrypted == "login"

FirstRequest == IF Https THEN "login" ELSE "fetch"

(* ZyxelClient::new, with a fresh AES key.                                 *)
Start ==
    /\ at = "down" /\ run < MaxRuns
    /\ run' = run + 1 /\ rsa' = 0
    /\ key' = 0 /\ result' = "none" /\ doubt' = FALSE
    /\ at' = FirstRequest
    /\ UNCHANGED <<router, late, past>>

FetchRsa ==
    /\ at = "fetch"
    /\ \/ rsa' = pair /\ at' = "login"
       \/ rsa' = rsa /\ at' = "down"
    /\ UNCHANGED <<run, key, result, doubt, router, late, past>>

(* main: the first login, and get_basic_information, which needs no key.   *)
Login ==
    /\ at = "login"
    /\ LoginExchange
    /\ at' = IF result' = "ok" THEN "info" ELSE "down"

(* The program ends, and does not ask for a logout.                        *)
WalksOut == at' = "down" /\ walkouts' = walkouts + 1

Info ==
    /\ at = "info"
    /\ \/ at' = "idle" /\ UNCHANGED walkouts
       \/ WalksOut
    /\ UNCHANGED <<client, router, late, losses>>

(* get_dal, set_dal, reboot: whatever the monitor asks in between.         *)
Use ==
    /\ at = "idle"
    /\ \E encrypted \in BOOLEAN, r \in Reply : Exchange(encrypted, r)
    /\ result' = "none"
    /\ UNCHANGED <<at, run, rsa, doubt, late, walkouts>>

(* ensure_authenticated: the probe, the logout whose outcome is ignored,   *)
(* and the login.                                                          *)
Renewal ==
    /\ at = "idle"
    /\ at' = "probe"
    /\ result' = "none" /\ doubt' = FALSE
    /\ UNCHANGED <<run, rsa, key, router, late, past>>

(* Mutant: a session that does not answer is not logged out of.            *)
RenewAtOnce == "renew"

AfterFailedProbe == "logout"

(* The probe takes any JSON for an answer.                                 *)
Probe ==
    /\ at = "probe"
    /\ \E r \in Reply :
          /\ Exchange(FALSE, r)
          /\ IF r \in {"ok", "refused_in_body"}
               THEN /\ at' = "idle" /\ result' = "ok"
                    /\ doubt' = (doubt \/ r = "refused_in_body")
               ELSE /\ at' = AfterFailedProbe
                    /\ UNCHANGED <<result, doubt>>
    /\ UNCHANGED <<run, rsa, late, walkouts>>

Logout(next) ==
    /\ at' = next
    /\ \/ /\ Live(key) /\ opened' = [opened EXCEPT ![key] = Closed]
          /\ UNCHANGED losses
       \/ Loses(IF Live(key) THEN 1 ELSE 0) /\ UNCHANGED opened
    /\ UNCHANGED <<client, issued, pair, late, walkouts>>

LogoutFirst == at = "logout" /\ Logout("renew")

Renew ==
    /\ at = "renew"
    /\ LoginExchange
    /\ at' = "idle"

(* main's logout after the loop; an abrupt end, maybe during a login.      *)
Quit == at = "idle" /\ Logout("down")

Kill ==
    /\ at # "down" /\ WalksOut
    /\ \/ UNCHANGED late
       \/ at \in {"login", "renew"} /\ late' = late + 1
    /\ UNCHANGED <<client, router, losses>>

-----------------------------------------------------------------------------
(* The router and the network.                                             *)

Expire ==
    /\ \E k \in Open : opened' = [opened EXCEPT ![k] = Closed]
    /\ doubt' = TRUE
    /\ UNCHANGED <<at, run, rsa, key, result, issued, pair, late, past>>

(* Sessions do not survive a restart of the router; its RSA key may not.   *)
RouterRestarts ==
    /\ opened' = [k \in Keys |-> Closed]
    /\ pair' \in {pair, pair + 1} /\ pair' <= MaxPairs
    /\ doubt' = TRUE
    /\ UNCHANGED <<at, run, rsa, key, result, issued, late, past>>

LateLogin ==
    /\ late > 0 /\ late' = late - 1
    /\ \/ UNCHANGED router
       \/ \E secret \in 0..run : Opens(secret)
    /\ UNCHANGED <<at, client, past>>

Next ==
    \/ Start \/ FetchRsa \/ Login \/ Info \/ Use \/ Renewal \/ Probe
    \/ LogoutFirst \/ Renew \/ Quit \/ Kill
    \/ Expire \/ RouterRestarts \/ LateLogin

Spec == Init /\ [][Next]_vars

-----------------------------------------------------------------------------
(* Properties.                                                             *)

(* A session that is open on the router without being used, or may yet be  *)
(* opened, is owed to a key that did not arrive, to a logout that did not, *)
(* or to a run that ended without asking for one: it was killed, or its    *)
(* get_basic_information failed, which main does not log out of.  Each     *)
(* such event leaves one session at most, and nothing else leaves any:     *)
(* neither a renewal, however often it is tried, nor a login refused, nor  *)
(* an orderly end.                                                         *)
InUse == IF at = "down" THEN {} ELSE {key}

NoStraySessions == Cardinality(Open \ InUse) + late <= losses + walkouts

(* ensure_authenticated's Ok is worth something: unless a refusal hid in a *)
(* 200 body, a login came back without its key, or the router has dropped  *)
(* a session since, the key is accepted, whatever became of it before.     *)
OkMeansLive == at = "idle" /\ result = "ok" /\ ~doubt => Live(key)

(* The router can decrypt whatever carries an accepted key, in every run,  *)
(* after every renewal, and under every key the session is carried on.     *)
SharedSecret == at # "down" /\ Live(key) => opened[key] = Secret

(* What the requests do to the key is what Session says they do.           *)
Worth == IF key = 0 THEN "none" ELSE IF Live(key) THEN "live" ELSE "stale"

S == INSTANCE Session
       WITH LiveReplies    <- Reply,
            DeadReplies    <- {"refused", "refused_in_body"},
            LoginReplies   <- {"ok", "keyless", "lost", "refused",
                               "refused_with_key"},
            SessionsExpire <- TRUE,
            session        <- Worth

(* The end of ensure_authenticated, and of the first login.                *)
Returns ==
    \/ at \in {"login", "renew"} /\ at' \in {"info", "idle"}
    \/ at = "probe" /\ at' = "idle"

KeepsSession ==
    IF Returns THEN \E misled \in BOOLEAN :
                       /\ S!Renews(result' = "ok", misled)
                       /\ misled => doubt'
    ELSE \/ UNCHANGED Worth
         \/ S!Expire
         \/ at' = "down" \/ (at = "down" /\ Worth' = "none")

(* Monitor and the modules built on it take ensure_authenticated for one   *)
(* step of Session: it is one, and in between the session only expires or  *)
(* starts anew with the program.                                           *)
ImplementsSession == [][KeepsSession]_vars
=============================================================================
