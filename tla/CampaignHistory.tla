---------------------------- MODULE CampaignHistory ----------------------------
(* What the event log of one campaign promises its readers, with nothing said   *)
(* of how: a history that only grows at its end, one whole transaction at a     *)
(* time.  A client that has received the first n events (buildCatchUpState asks *)
(* for sequence > n) has missed nothing before n and never will.                *)
EXTENDS Sequences, Integers

CONSTANTS
    Txs,          \* database transactions that append events, each of them used once
    MaxAppends    \* the most events one transaction appends

VARIABLE
    history       \* history[n]: the transaction that wrote the event with sequence n

Repeat(t, k) == [i \in 1..k |-> t]

Wrote(t) == \E n \in DOMAIN history : history[n] = t

Init == history = << >>

\* Transaction t commits: its k events follow everything that is already there.
CommitBlock(t, k) ==
    /\ ~Wrote(t)
    /\ history' = history \o Repeat(t, k)

Next == \E t \in Txs, k \in 1..MaxAppends : CommitBlock(t, k)

Spec == Init /\ [][Next]_history
================================================================================
