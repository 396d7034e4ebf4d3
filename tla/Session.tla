------------------------------- MODULE Session -------------------------------
(***************************************************************************)
(* The authenticated session between ZyxelClient and the router, as the    *)
(* monitor's callers observe it.                                           *)
(*                                                                         *)
(* The client keeps one number, session_key, which it never clears: 0      *)
(* before the first login, afterwards the key of the last reply that       *)
(* carried one.  All that the callers can tell apart is whether that       *)
(* key is absent, accepted by the router, or no longer accepted.           *)
(*                                                                         *)
(* The router is code outside the repository.  What it answers is an       *)
(* input, drawn from the sets below; what the client makes of an answer    *)
(* is translated from src/src/client and src/src/monitor/auth.rs.          *)
(***************************************************************************)

CONSTANTS
    LiveReplies,     \* answers to a request that carries an accepted key
    DeadReplies,     \* answers to a request whose key is not accepted
    LoginReplies,    \* answers to a login request
    SessionsExpire   \* may the router drop a session by itself?

(***************************************************************************)
(* A request is answered in one of four ways:                              *)
(*   "ok"               done, and acknowledged with a well-formed body;    *)
(*   "lost"             done, but the caller sees an error (timeout, reset *)
(*                      connection, body that does not parse);             *)
(*   "refused"          not done, with an error the caller sees;           *)
(*   "refused_in_body"  not done, reported by HTTP 200 and a JSON body     *)
(*                      whose result is not a success.                     *)
(* A login can also succeed without a key in the answer ("keyless"), or be *)
(* refused by a body that does carry one ("refused_with_key").             *)
(***************************************************************************)
Reply      == {"ok", "lost", "refused", "refused_in_body"}
LoginReply == {"ok", "keyless", "lost", "refused", "refused_with_key"}

ASSUME SessionAssumption ==
    /\ LiveReplies \subseteq Reply /\ LiveReplies # {}
    /\ DeadReplies \subseteq {"refused", "refused_in_body"} /\ DeadReplies # {}
    /\ LoginReplies \subseteq LoginReply /\ LoginReplies # {}
    /\ SessionsExpire \in BOOLEAN

VARIABLE session   \* what session_key is worth to the router

SessionState == {"none", "live", "stale"}

-----------------------------------------------------------------------------
(* One request: execute_path adds the key, sends, and reads the answer.    *)
Replies(key) == IF key = "live" THEN LiveReplies ELSE DeadReplies

Answer(r) == r \in Replies(session)

(***************************************************************************)
(* login.  A key in the answer is stored before the result is looked at    *)
(* (try_extract_session_key runs inside execute_path), so a refusal that   *)
(* carries a key replaces a good one.  A success without a key passes as   *)
(* long as some earlier key is stored, whatever that key is worth.         *)
(***************************************************************************)
LoginSucceeds(key, r) == r = "ok" \/ (r = "keyless" /\ key # "none")

KeyAfterLogin(key, r) ==
    CASE r = "ok"               -> "live"
      [] r = "refused_with_key" -> "stale"
      [] OTHER                  -> key

(* logout.  The stored key is kept; the router may or may not have closed  *)
(* the session, and ensure_authenticated discards the outcome.             *)
KeysAfterLogout(key) == IF key = "live" THEN {"live", "stale"} ELSE {key}

(* Mutant: the probe of the session is satisfied with any answer.          *)
AnyProbePasses(r) == r \in Reply

(***************************************************************************)
(* ensure_authenticated.  The probe asks for the status object as an       *)
(* untyped JSON value, so a refusal inside the body passes it.             *)
(*                                                                         *)
(* misled is not known to the program: the answer it took for a success    *)
(* was a refusal in a 200 body, or a login that brought no key.            *)
(***************************************************************************)
ProbePasses(r) == r \in {"ok", "refused_in_body"}

Renews(ok, misled) ==
    \/ /\ \E r \in Reply :
             /\ Answer(r) /\ ProbePasses(r)
             /\ misled = (r = "refused_in_body")
       /\ ok
       /\ UNCHANGED session
    \/ /\ \E r \in Reply : Answer(r) /\ ~ProbePasses(r)
       /\ \E key \in KeysAfterLogout(session), r \in LoginReplies :
             /\ ok = LoginSucceeds(key, r)
             /\ misled = (r = "keyless")
             /\ session' = KeyAfterLogin(key, r)

EnsureAuthenticated(ok) == \E misled \in BOOLEAN : Renews(ok, misled)

(* The router drops the session: idle timeout, or a login elsewhere.       *)
Expire ==
    /\ SessionsExpire
    /\ session = "live"
    /\ session' = "stale"
=============================================================================
