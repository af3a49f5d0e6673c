--------------------------------- MODULE Table ---------------------------------
(* What the turns of a scene are for the people at the table: a game in which   *)
(* actions are recorded one after the other, each in the turn and among the     *)
(* members of its moment, and the host switches the mode.  There is one flaw:   *)
(* the action that was being recorded when the host switched may be written     *)
(* afterwards, as if he had not.                                                *)
EXTENDS Integers

CONSTANTS
    Host,       \* the host, who stays
    Guests      \* everybody else who may sit down

Users == Guests \cup {Host}

VARIABLES
    members,    \* who sits at the table
    turn,       \* the mode, the round, and who has acted in it
    undo        \* the turn that an action the host has overtaken would write

vars == <<members, turn, undo>>

StartOf(mode) == [turnMode |-> mode, round |-> 1, acted |-> {}]

\* A round ends with the last of its members.
Recorded(u) ==
    IF members \subseteq turn.acted \cup {u}
    THEN [turnMode |-> "rounds", round |-> turn.round + 1, acted |-> {}]
    ELSE [turnMode |-> "rounds", round |-> turn.round, acted |-> turn.acted \cup {u}]

Init ==
    /\ members = {Host}
    /\ turn = StartOf("free")
    /\ undo = {}

Act(u) ==
    /\ turn.turnMode = "rounds"
    /\ undo = {}
    /\ turn' = Recorded(u)
    /\ UNCHANGED <<members, undo>>

\* The host may have overtaken the action of a player.
Switch(mode) ==
    /\ turn' = StartOf(mode)
    /\ \/ UNCHANGED undo
       \/ /\ turn.turnMode = "rounds"
          /\ undo = {}
          /\ \E u \in Users : undo' = {Recorded(u)}
    /\ UNCHANGED members

\* The overtaken action is written, or comes to nothing.
EndOvertaken ==
    /\ undo # {}
    /\ undo' = {}
    /\ turn' \in {turn} \cup undo
    /\ UNCHANGED members

Join(u) ==
    /\ undo = {}
    /\ members' = members \cup {u}
    /\ UNCHANGED <<turn, undo>>

Leave(u) ==
    /\ undo = {}
    /\ members' = members \ {u}
    /\ UNCHANGED <<turn, undo>>

Next ==
    \/ \E u \in Users : Act(u)
    \/ \E mode \in {"free", "rounds"} : Switch(mode)
    \/ EndOvertaken
    \/ \E u \in Guests : Join(u) \/ Leave(u)

Spec == Init /\ [][Next]_vars
================================================================================
