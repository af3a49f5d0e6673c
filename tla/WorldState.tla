------------------------------- MODULE WorldState -------------------------------
(* The rows of a campaign that the AI's answers change, the answers              *)
(* (stateDeltaSchema in packages/shared/src/schemas.ts), and what an answer is   *)
(* to make of the rows (applyStateDelta in packages/domain/src/state-update.ts). *)
EXTENDS Integers, FiniteSets

CONSTANTS
    Actions,        \* resolved actions
    Removal,        \* the transaction that removes a player
    Touched,        \* the sections that the AI's answers are about
    MaxEntries      \* entries in an answer at most

\* The sections of a delta (stateDeltaSchema).  Each has one row here.
Merging == {"worldTime", "character", "npc"}     \* the new value keeps the old one
Upserting == {"codex", "knowledge"}              \* the row is made when there is none
Skipping == {"character", "npc", "item"}         \* an unknown id is passed over
Sections == Merging \cup Upserting \cup {"item", "quest", "marker"}

ASSUME WorldAssumption ==
    /\ Removal \notin Actions
    /\ Touched \subseteq Sections
    /\ MaxEntries \in Nat

\* The rows of the removed player.
Players == {"character", "marker"}

Nothing == [id |-> "none", by |-> 0]

\* An entry: by is an item's quantityDelta; a new row is asked for by leaving the id
\* out, which a delta can do for items, quests and markers.
EntryType == [id : {"none", "known", "unknown", "new"}, by : {-1, 0, 1}]

Entries(s) ==
    {e \in EntryType :
        /\ e.id = "none" <=> e.by = 0
        /\ e.by = -1 => s = "item" /\ e.id # "unknown"
        /\ e.id = "unknown" => s \notin Upserting \cup {"worldTime"}
        /\ e.id = "new" => s \in {"item", "quest", "marker"}}

Entered(d) == {s \in Touched : d[s] # Nothing}

Deltas == {d \in [Touched -> EntryType] :
             /\ \A s \in Touched : d[s] \in Entries(s)
             /\ Cardinality(Entered(d)) <= MaxEntries}

\* The rows: val goes back to the actions in it; log has who has logged its event.
StartDb ==
    [val |-> [s \in Touched |-> {}], qty |-> 1, present |-> Touched \ Upserting,
     created |-> {}, log |-> {}]

\* A quest or a marker that does not exist makes the answer inapplicable.
Applicable(db, d) ==
    \A s \in Touched \ (Skipping \cup Upserting) :
        /\ d[s].id # "unknown"
        /\ d[s].id = "known" => s \in db.present

Applied(db, a, d) ==
    LET hit == {s \in Touched : d[s].id = "known" /\ s \in db.present \cup Upserting}
        qty == IF "item" \in hit THEN db.qty + d["item"].by ELSE db.qty
        made == {s \in Touched : d[s].id = "new" /\ d[s].by > 0}
    IN  [val |-> [s \in Touched |-> IF s \notin hit \ {"item"} THEN db.val[s]
                                    ELSE IF s \in Merging THEN db.val[s] \cup {a} ELSE {a}],
         qty |-> qty,
         present |-> (db.present \cup hit) \ (IF qty <= 0 THEN {"item"} ELSE {}),
         created |-> db.created \cup (made \X {a}),
         log |-> db.log \cup {a}]
================================================================================
