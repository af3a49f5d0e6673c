------------------------------- MODULE StateDelta -------------------------------
(* The transaction of a resolved action, statement by statement: the event       *)
(* action.submitted, then applyStateDelta section by section                     *)
(* (packages/domain/src/state-update.ts, action-resolver.ts), next to another    *)
(* one and to the host's removal of a player (members.ts).  The campaign's lock  *)
(* is not relied on, since it can lapse.                                         *)
(*                                                                               *)
(* PostgreSQL's READ COMMITTED: a statement reads what is committed, a row that  *)
(* another transaction has written is waited for, and so is the number of an     *)
(* event (EventLog); a deadlock aborts one of its transactions.                  *)
EXTENDS WorldState, Sequences

Order == <<"worldTime", "character", "npc", "item", "quest", "codex", "knowledge", "marker">>

End == Len(Order) + 1

Txs == Actions \cup {Removal}

VARIABLES
    db,             \* the campaign's rows, as committed
    delta,          \* delta[a]: the AI's answer to a
    pc,             \* pc[t]: where transaction t is
    at,             \* at[a]: the section that a is in
    found,          \* found[a]: the row its findFirst has returned
    mine,           \* mine[a]: the rows that a has written
    made,           \* made[a]: sections in which it has made a row
    seen,           \* seen[t]: the log as t has read it for the next number
    holder          \* the transaction whose event has the next number

txVars == <<pc, at, found, mine, made, seen, holder>>
vars == <<db, delta, txVars>>

NoTx == "none"

ASSUME TxAssumption == NoTx \notin Txs

NoRow == [val |-> {}, qty |-> -1]
Rows == [val : SUBSET Actions, qty : Int]

TypeOK ==
    /\ db \in [val : [Touched -> SUBSET Actions], qty : Nat, present : SUBSET Touched,
              created : SUBSET (Touched \X Actions), log : SUBSET Txs]
    /\ "item" \in Touched => ("item" \in db.present <=> db.qty > 0)
    /\ delta \in [Actions -> Deltas]
    /\ pc \in [Txs -> {"idle", "numbering", "open", "over"} \cup Players]
    /\ at \in [Actions -> 1..End]
    /\ found \in [Actions -> Rows]
    /\ mine \in [Actions -> SUBSET [section : Touched, row : Rows]]
    /\ made \in [Actions -> SUBSET Touched]
    /\ seen \in [Txs -> SUBSET Txs]
    /\ holder \in Txs \cup {NoTx}

--------------------------------------------------------------------------------
\* The next section, from number i on, that a's delta has an entry in.
From(a, i) ==
    LET entered == {j \in i..Len(Order) : Order[j] \in Entered(delta[a])}
    IN  IF entered = {} THEN End ELSE CHOOSE j \in entered : \A k \in entered : j <= k

Section(a) == Order[at[a]]

Entry(a) == delta[a][Section(a)]

InSection(a) == pc[a] = "open" /\ at[a] < End

\* Sections whose rows are read before they are written.
Reading == Merging \cup {"item"}

\* The sections whose rows t has written or deleted.
Wrote(t) ==
    CASE t \in Actions -> {w.section : w \in mine[t]}
      [] t = Removal /\ pc[t] \in {"idle", "marker", "over"} -> {}
      [] t = Removal /\ pc[t] = "character" -> {"marker"}
      [] t = Removal /\ pc[t] \in {"numbering", "open"} -> Players

\* Another transaction has written the row of s and is not over.
Locked(t, s) == \E u \in Txs \ {t} : s \in Wrote(u)

Init ==
    /\ db = StartDb
    /\ delta \in [Actions -> Deltas]
    /\ pc = [t \in Txs |-> "idle"]
    /\ at = [a \in Actions |-> 1]
    /\ found = [a \in Actions |-> NoRow]
    /\ mine = [a \in Actions |-> {}]
    /\ made = [a \in Actions |-> {}]
    /\ seen = [t \in Txs |-> {}]
    /\ holder = NoTx

--------------------------------------------------------------------------------
(* The end of a transaction. *)

\* Mutant: the transaction ends for its caller and not for the server.
LeaveUnclosed(t) ==
    /\ pc' = [pc EXCEPT ![t] = "over"]
    /\ UNCHANGED <<at, found, mine, made, seen, holder>>

\* t is over: its locks are free, and what it knew is of no use any more.
Leave(t) ==
    /\ pc' = [pc EXCEPT ![t] = "over"]
    /\ seen' = [seen EXCEPT ![t] = {}]
    /\ holder' = IF holder = t THEN NoTx ELSE holder
    /\ at' = [a \in Actions |-> IF a = t THEN 1 ELSE at[a]]
    /\ found' = [a \in Actions |-> IF a = t THEN NoRow ELSE found[a]]
    /\ mine' = [a \in Actions |-> IF a = t THEN {} ELSE mine[a]]
    /\ made' = [a \in Actions |-> IF a = t THEN {} ELSE made[a]]

Abort(t) ==
    /\ Leave(t)
    /\ UNCHANGED <<db, delta>>

\* The timeout of the transaction, a lost connection, a crash.
RollBack(t) ==
    /\ pc[t] \notin {"idle", "over"}
    /\ Abort(t)

--------------------------------------------------------------------------------
(* appendCampaignEvent, as far as one transaction can feel another. *)

ReadNumber(t) ==
    /\ pc' = [pc EXCEPT ![t] = "numbering"]
    /\ seen' = [seen EXCEPT ![t] = db.log]

\* Mutant: action.submitted is logged outside the transaction.
InsertEventAlone(t) ==
    /\ pc[t] = "numbering"
    /\ holder = NoTx
    /\ pc' = [pc EXCEPT ![t] = "open"]
    /\ at' = [a \in Actions |-> IF a = t THEN From(a, 1) ELSE at[a]]
    /\ UNCHANGED <<db, delta, found, mine, made, seen, holder>>

\* The insert waits for another one with its number, and fails if that one has been
\* committed.
InsertEvent(t) ==
    /\ pc[t] = "numbering"
    /\ holder = NoTx
    /\ \/ /\ seen[t] = db.log
          /\ holder' = t
          /\ pc' = [pc EXCEPT ![t] = "open"]
          /\ at' = [a \in Actions |-> IF a = t THEN From(a, 1) ELSE at[a]]
          /\ UNCHANGED <<db, delta, found, mine, made, seen>>
       \/ /\ seen[t] # db.log
          /\ Abort(t)

--------------------------------------------------------------------------------
(* applyStateDelta. *)

\* action.submitted, before anything of the delta is read.
Submit(a) ==
    /\ pc[a] = "idle"
    /\ ReadNumber(a)
    /\ UNCHANGED <<db, delta, at, found, mine, made, holder>>

Advance(a) == at' = [at EXCEPT ![a] = From(a, @ + 1)]

openRest == <<db, delta, pc, seen, holder>>

\* The loop goes on: the id is unknown, or names a row that has been deleted.
Skip(a) ==
    /\ InSection(a)
    /\ Section(a) \in Skipping
    /\ \/ Entry(a).id = "unknown"
       \/ Entry(a).id = "known" /\ found[a] = NoRow /\ Section(a) \notin db.present
    /\ Advance(a)
    /\ UNCHANGED <<openRest, found, mine, made>>

\* findFirst.
Find(a) ==
    /\ InSection(a)
    /\ Section(a) \in Reading \cap db.present
    /\ Entry(a).id = "known"
    /\ found[a] = NoRow
    /\ found' = [found EXCEPT ![a] = [val |-> db.val[Section(a)], qty |-> db.qty]]
    /\ UNCHANGED <<openRest, at, mine, made>>

\* A row without an id: an item only if its quantity is positive.
Create(a) ==
    /\ InSection(a)
    /\ Entry(a).id = "new"
    /\ made' = IF Entry(a).by > 0 THEN [made EXCEPT ![a] = @ \cup {Section(a)}] ELSE made
    /\ Advance(a)
    /\ UNCHANGED <<openRest, found, mine>>

\* What a writes into its section: an item's new quantity goes back to what it found.
Value(a) ==
    [val |-> CASE Section(a) = "item" -> {}
               [] Section(a) \in Merging -> found[a].val \cup {a}
               [] OTHER -> {a},
     qty |-> IF Section(a) = "item" THEN found[a].qty + Entry(a).by ELSE 0]

\* update, upsert or delete of one row.
Write(a) ==
    /\ InSection(a)
    /\ Entry(a).id = "known"
    /\ Section(a) \in Reading => found[a] # NoRow
    /\ ~Locked(a, Section(a))
    /\ Section(a) \in db.present \cup Upserting
    /\ mine' = [mine EXCEPT ![a] = @ \cup {[section |-> Section(a), row |-> Value(a)]}]
    /\ found' = [found EXCEPT ![a] = NoRow]
    /\ Advance(a)
    /\ UNCHANGED <<openRest, made>>

\* update throws P2025: there is no such row, or none any more.
WriteFails(a) ==
    /\ InSection(a)
    /\ \/ Section(a) \in {"quest", "marker"} /\ Entry(a).id = "unknown"
       \/ /\ Entry(a).id = "known"
          /\ ~Locked(a, Section(a))
          /\ Section(a) \notin db.present \cup Upserting
          /\ Section(a) \in Reading => found[a] # NoRow
    /\ Abort(a)

\* Mutant: an item of which nothing is left stays.
UsedUpBelowZero(qty) == qty < 0

UsedUp(qty) == qty <= 0

\* state.applied, whose number nobody else can have, and COMMIT.
Commit(a) ==
    /\ pc[a] = "open"
    /\ at[a] = End
    /\ LET row(s) == (CHOOSE w \in mine[a] : w.section = s).row
           qty == IF "item" \in Wrote(a) THEN row("item").qty ELSE db.qty
       IN  db' = [val |-> [s \in Touched |-> IF s \in Wrote(a) \ {"item"} THEN row(s).val
                                             ELSE db.val[s]],
                  qty |-> qty,
                  present |-> (db.present \cup Wrote(a)) \ (IF UsedUp(qty) THEN {"item"} ELSE {}),
                  created |-> db.created \cup (made[a] \X {a}),
                  log |-> db.log \cup {a}]
    /\ Leave(a)
    /\ UNCHANGED delta

--------------------------------------------------------------------------------
(* removeCampaignMember: the player's marker, then the character, then the event. *)

StartRemoval ==
    /\ pc[Removal] = "idle"
    /\ pc' = [pc EXCEPT ![Removal] = "marker"]
    /\ UNCHANGED <<db, delta, at, found, mine, made, seen, holder>>

DeleteRow(s) ==
    /\ pc[Removal] = s
    /\ ~Locked(Removal, s)
    /\ \/ /\ s = "marker"
          /\ pc' = [pc EXCEPT ![Removal] = "character"]
          /\ UNCHANGED seen
       \/ /\ s = "character"
          /\ ReadNumber(Removal)
    /\ UNCHANGED <<db, delta, at, found, mine, made, holder>>

CommitRemoval ==
    /\ pc[Removal] = "open"
    /\ db' = [db EXCEPT !.present = @ \ Wrote(Removal), !.log = @ \cup {Removal}]
    /\ Leave(Removal)
    /\ UNCHANGED delta

--------------------------------------------------------------------------------
(* Deadlocks. *)

\* The row that t is about to write or delete.
Wants(t) ==
    IF t = Removal THEN {pc[t]} \cap Players
    ELSE IF InSection(t) /\ Entry(t).id = "known" /\ (Section(t) \in Reading => found[t] # NoRow)
    THEN {Section(t)}
    ELSE {}

WaitsFor(t, u) ==
    /\ t # u
    /\ \/ pc[t] = "numbering" /\ holder = u
       \/ Wants(t) \cap Wrote(u) # {}

\* The server's detector.
BreakDeadlock(t) ==
    /\ \E u \in Txs : WaitsFor(t, u) /\ WaitsFor(u, t)
    /\ Abort(t)

--------------------------------------------------------------------------------
Resolve(a) ==
    Skip(a) \/ Find(a) \/ Create(a) \/ Write(a) \/ WriteFails(a) \/ Commit(a)

Remove == DeleteRow("marker") \/ DeleteRow("character") \/ CommitRemoval

Proceed(t) ==
    \/ InsertEvent(t)
    \/ t \in Actions /\ Resolve(t)
    \/ t = Removal /\ Remove

Next ==
    \/ \E a \in Actions : Submit(a)
    \/ StartRemoval
    \/ \E t \in Txs : Proceed(t) \/ RollBack(t) \/ BreakDeadlock(t)

\* Somewhere the callback of an open transaction goes on, or the server finds a
\* deadlock: every transaction has finitely many steps.
Fairness == WF_vars(\E t \in Txs : Proceed(t) \/ BreakDeadlock(t))

Spec == Init /\ [][Next]_vars /\ Fairness

--------------------------------------------------------------------------------
(* Properties. *)

History == INSTANCE StateHistory

\* Each answer is applied whole or not at all, as if alone, although the quantities
\* and the merged values are read and written back, rows vanish under a running
\* transaction, and two actions may resolve side by side.
ImplementsHistory == History!Spec

\* No resolution and no removal hangs, although each may hold rows that the other
\* waits for.
TransactionsEnd == \A t \in Txs : (pc[t] # "idle") ~> (pc[t] = "over")

\* The server's detector is taken to look for two transactions that wait for each
\* other (BreakDeadlock), though several resolutions may be waiting besides.  That is
\* enough: whenever nobody in a set of transactions can go on without another of the
\* set, two of them wait for each other.
DeadlocksAreMutual ==
    \A S \in (SUBSET Txs) \ {{}} :
        (\A t \in S : \E u \in S : WaitsFor(t, u))
            => \E t, u \in S : WaitsFor(t, u) /\ WaitsFor(u, t)
================================================================================
