------------------------------ MODULE Watchdog -------------------------------
(***************************************************************************)
(* What a user of zyxel-nr5103-monitor is promised, without the loop, the  *)
(* tickers, the session and the requests that keep the promise: a router   *)
(* that is watched and, when it is in trouble, recovered; that is          *)
(* restarted only when it may be, and gets its preference back.            *)
(***************************************************************************)
EXTENDS Integers

CONSTANTS
    MinInterval,   \* ages are told apart up to this one
    Prompt         \* how old a restart can be when it is first reported

VARIABLES
    since,        \* the time since the router last restarted
    online,       \* what the last check of connectivity found
    recovering,   \* what the router is being recovered from, or "none"
    permitted,    \* may this recovery restart the router?
    borrowed,     \* is its preference replaced by a temporary one?
    over          \* has the program ended?

vars == <<since, online, recovering, permitted, borrowed, over>>

Never == -1
Cause == {"Connectivity", "SignalQuality"}

Init ==
    /\ since = Never /\ online = TRUE
    /\ recovering = "none" /\ permitted = FALSE
    /\ borrowed = FALSE /\ over = FALSE

(* Every step may take time.                                               *)
Later(age) == IF age = Never THEN {Never} ELSE age..MinInterval
Ages       == since' \in Later(since)

Rested(age) == age = Never \/ age >= MinInterval

Watch ==
    /\ recovering = "none"
    /\ Ages /\ online' \in BOOLEAN
    /\ UNCHANGED <<recovering, permitted, borrowed, over>>

(* A recovery from lost connectivity starts when a check has found none.   *)
(* Whether it may restart the router is settled when it starts.            *)
Detect(cause) ==
    /\ recovering = "none"
    /\ Ages /\ online' \in BOOLEAN
    /\ recovering' = cause
    /\ cause = "Connectivity" => ~online'
    /\ permitted' \in BOOLEAN
    /\ permitted' => Rested(since')
    /\ since' = Never => permitted'
    /\ UNCHANGED <<borrowed, over>>

(* A check during a recovery is made with the router's own preference.     *)
Verify ==
    /\ recovering # "none" /\ ~borrowed
    /\ Ages /\ online' \in BOOLEAN
    /\ UNCHANGED <<recovering, permitted, borrowed, over>>

Lend ==
    /\ recovering # "none"
    /\ Ages /\ borrowed' = ~borrowed
    /\ UNCHANGED <<online, recovering, permitted, over>>

Restart ==
    /\ recovering # "none" /\ permitted /\ ~borrowed
    /\ recovering = "Connectivity" => ~online
    /\ Rested(since)
    /\ since' \in 0..Prompt
    /\ recovering' = "none" /\ permitted' = FALSE
    /\ UNCHANGED <<online, borrowed, over>>

(* A recovery ends without a restart because connectivity has been seen    *)
(* again, or because it must not restart the router.                       *)
EndWithoutRestart ==
    /\ recovering # "none" /\ ~borrowed
    /\ Ages /\ online' \in BOOLEAN
    /\ online' \/ ~permitted
    /\ recovering' = "none" /\ permitted' = FALSE
    /\ UNCHANGED <<borrowed, over>>

Stop ==
    /\ Ages /\ over' = TRUE
    /\ UNCHANGED <<online, recovering, permitted, borrowed>>

Next ==
    /\ ~over
    /\ \/ Watch \/ Verify \/ Lend \/ Restart \/ EndWithoutRestart \/ Stop
       \/ \E cause \in Cause : Detect(cause)

Spec == Init /\ [][Next]_vars
=============================================================================
