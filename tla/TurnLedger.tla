----------------------------- MODULE TurnLedger -----------------------------
(***************************************************************************)
(* What the turn table of the evidence agent promises its readers.         *)
(*                                                                         *)
(* A turn is opened as "pending" in a session that has no other pending    *)
(* turn, and is closed exactly once with an answer, an abstention or an    *)
(* error, whoever of its writers comes first.  Nothing else ever           *)
(* happens to it.  EvidenceTurns, where API handlers and at-least-once     *)
(* executors race on the same rows, is shown to implement this module.     *)
(***************************************************************************)
CONSTANTS
    Sessions,   \* chat sessions
    Turns,      \* turn ids
    NoSession   \* the session of a turn that was never opened

Closed == {"ok", "abstain", "error"}

VARIABLES
    home,       \* home[t]: the session turn t was opened in
    result      \* result[t]: "none", "pending", or how t was closed

vars == <<home, result>>

Init == /\ home = [t \in Turns |-> NoSession]
        /\ result = [t \in Turns |-> "none"]

Open(s, t) ==
    /\ result[t] = "none"
    /\ \A u \in Turns : home[u] = s => result[u] # "pending"
    /\ home' = [home EXCEPT ![t] = s]
    /\ result' = [result EXCEPT ![t] = "pending"]

Close(t) ==
    /\ result[t] = "pending"
    /\ \E r \in Closed : result' = [result EXCEPT ![t] = r]
    /\ UNCHANGED home

Next == \/ \E s \in Sessions, t \in Turns : Open(s, t)
        \/ \E t \in Turns : Close(t)

Spec == Init /\ [][Next]_vars
=============================================================================
