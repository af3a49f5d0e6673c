------------------------------ MODULE StateHistory ------------------------------
(* What the state of a campaign is for its players: the answers of the resolved *)
(* actions, applied whole, one after another.  Nothing is said of statements,   *)
(* locks or failures.                                                           *)
EXTENDS WorldState

VARIABLES
    db,             \* the campaign's rows
    delta           \* delta[a]: the AI's answer to a

Init ==
    /\ db = StartDb
    /\ delta \in [Actions -> Deltas]

Apply(a) ==
    /\ a \notin db.log
    /\ Applicable(db, delta[a])
    /\ db' = Applied(db, a, delta[a])
    /\ UNCHANGED delta

RemovePlayer ==
    /\ Removal \notin db.log
    /\ db' = [db EXCEPT !.present = @ \ Players, !.log = @ \cup {Removal}]
    /\ UNCHANGED delta

Next == RemovePlayer \/ \E a \in Actions : Apply(a)

Spec == Init /\ [][Next]_<<db, delta>>
================================================================================
