---------------------------- MODULE StateDeltaProofs ----------------------------
(* Proofs about StateDelta for any number of resolutions and any answers.       *)
EXTENDS StateDelta, TLAPS

--------------------------------------------------------------------------------
(* The inductive invariant.  What a transaction has read is current until it    *)
(* commits: it reads nothing of the delta before its event has the next number, *)
(* and only the transaction that has it can commit.                             *)

\* The sections that a has left behind.
Done(a) == {Order[j] : j \in 1..(at[a] - 1)} \cap Touched

\* The rows that a's answer is about and that exist.
Hit(a) == {s \in Touched : delta[a][s].id = "known" /\ s \in db.present \cup Upserting}

RowOf(a, s) ==
    [val |-> CASE s = "item" -> {} [] s \in Merging -> db.val[s] \cup {a} [] OTHER -> {a},
     qty |-> IF s = "item" THEN db.qty + delta[a][s].by ELSE 0]

HolderIsOpen == \A t \in Txs : pc[t] = "open" <=> holder = t

LoggedIsOver == \A t \in db.log : pc[t] = "over"

NothingBeforeTheNumber ==
    \A a \in Actions : pc[a] # "open" =>
        at[a] = 1 /\ found[a] = NoRow /\ mine[a] = {} /\ made[a] = {}

SectionEntered(a) == at[a] < End => Section(a) \in Entered(delta[a])

FoundIsCurrent(a) ==
    found[a] # NoRow =>
        /\ at[a] < End
        /\ Section(a) \in Reading \cap db.present
        /\ Entry(a).id = "known"
        /\ found[a] = [val |-> db.val[Section(a)], qty |-> db.qty]

WrittenIsWanted(a) ==
    /\ mine[a] = {[section |-> s, row |-> RowOf(a, s)] : s \in Hit(a) \cap Done(a)}
    /\ made[a] = {s \in Done(a) : delta[a][s].id = "new" /\ delta[a][s].by > 0}
    /\ \A s \in Done(a) \ (Skipping \cup Upserting) :
          /\ delta[a][s].id # "unknown"
          /\ delta[a][s].id = "known" => s \in db.present

WorkIsCurrent ==
    \A a \in Actions : pc[a] = "open" =>
        SectionEntered(a) /\ FoundIsCurrent(a) /\ WrittenIsWanted(a)

IInv ==
    /\ TypeOK
    /\ HolderIsOpen
    /\ LoggedIsOver
    /\ NothingBeforeTheNumber
    /\ WorkIsCurrent

--------------------------------------------------------------------------------
(* The order of the sections. *)

(* OrderOK: it has each section once.                                           *)
LEMMA OrderOK ==
    /\ End = 9 /\ Len(Order) = 8
    /\ \A j \in 1..8 : Order[j] \in Sections
    /\ \A s \in Sections : \E j \in 1..8 : Order[j] = s
    /\ \A j, k \in 1..8 : Order[j] = Order[k] => j = k
<1> DEFINE o == Order
<1>1. /\ o[1] = "worldTime" /\ o[2] = "character" /\ o[3] = "npc" /\ o[4] = "item"
      /\ o[5] = "quest" /\ o[6] = "codex" /\ o[7] = "knowledge" /\ o[8] = "marker"
      /\ Len(Order) = 8 /\ End = 9
  BY DEF Order, End
<1>2. \A j \in 1..8 : j \in {1, 2, 3, 4, 5, 6, 7, 8}
  OBVIOUS
<1> HIDE DEF o
<1>3. \A j \in 1..8 : o[j] \in Sections
  BY <1>1, <1>2 DEF Sections, Merging, Upserting
<1>4. \A s \in Sections : \E j \in 1..8 : o[j] = s
  <2>1. \A s \in Sections : s \in {o[1], o[2], o[3], o[4], o[5], o[6], o[7], o[8]}
    BY <1>1 DEF Sections, Merging, Upserting
  <2> QED
    BY <2>1
<1>5. \A j, k \in 1..8 : o[j] = o[k] => j = k
  BY <1>1, <1>2
<1> QED
  BY <1>1, <1>3, <1>4, <1>5 DEF o

(* LeastOfEight: a non-empty set of sections' numbers has a least one.          *)
LEMMA LeastOfEight ==
    ASSUME NEW S \in SUBSET (1..8), S # {}
    PROVE  \E j \in S : \A k \in S : j <= k
<1>1. \A j \in S : j \in {1, 2, 3, 4, 5, 6, 7, 8}
  OBVIOUS
<1>2. CASE 1 \in S
  BY <1>1, <1>2
<1>3. CASE 1 \notin S /\ 2 \in S
  BY <1>1, <1>3
<1>4. CASE 1 \notin S /\ 2 \notin S /\ 3 \in S
  BY <1>1, <1>4
<1>5. CASE 1 \notin S /\ 2 \notin S /\ 3 \notin S /\ 4 \in S
  BY <1>1, <1>5
<1>6. CASE 1 \notin S /\ 2 \notin S /\ 3 \notin S /\ 4 \notin S /\ 5 \in S
  BY <1>1, <1>6
<1>7. CASE 1 \notin S /\ 2 \notin S /\ 3 \notin S /\ 4 \notin S /\ 5 \notin S /\ 6 \in S
  BY <1>1, <1>7
<1>8. CASE 1 \notin S /\ 2 \notin S /\ 3 \notin S /\ 4 \notin S /\ 5 \notin S /\ 6 \notin S /\ 7 \in S
  BY <1>1, <1>8
<1>9. CASE 1 \notin S /\ 2 \notin S /\ 3 \notin S /\ 4 \notin S /\ 5 \notin S /\ 6 \notin S /\ 7 \notin S
  <2>1. \A j \in S : j = 8
    BY <1>1, <1>9
  <2>2. PICK j \in S : TRUE
    OBVIOUS
  <2>3. j = 8 /\ \A k \in S : j <= k
    BY <2>1, <2>2
  <2> QED
    BY <2>3
<1> QED
  BY <1>2, <1>3, <1>4, <1>5, <1>6, <1>7, <1>8, <1>9

(* FromFinds: From returns the next section with an entry, or the end.          *)
LEMMA FromFinds ==
    ASSUME NEW a, NEW i \in 1..9
    PROVE  /\ From(a, i) \in i..9
           /\ From(a, i) < End => Order[From(a, i)] \in Entered(delta[a])
           /\ \A j \in i..(From(a, i) - 1) : Order[j] \notin Entered(delta[a])
<1> DEFINE entered == {j \in i..Len(Order) : Order[j] \in Entered(delta[a])}
<1>1. End = 9 /\ Len(Order) = 8
  BY OrderOK
<1>2. From(a, i) = IF entered = {} THEN End ELSE CHOOSE j \in entered : \A k \in entered : j <= k
  BY DEF From
<1>3. entered \in SUBSET (1..8) /\ \A j \in i..8 : j \in entered <=> Order[j] \in Entered(delta[a])
  BY <1>1
<1>4. \A j \in entered : j \in i..8 /\ Order[j] \in Entered(delta[a])
  BY <1>1
<1> HIDE DEF entered
<1>5. CASE entered = {}
  BY <1>1, <1>2, <1>3, <1>5
<1>6. CASE entered # {}
  <2>1. \E j \in entered : \A k \in entered : j <= k
    BY <1>3, <1>6, LeastOfEight
  <2>2. From(a, i) \in entered /\ \A k \in entered : From(a, i) <= k
    BY <1>2, <1>6, <2>1
  <2>3. From(a, i) \in i..8 /\ Order[From(a, i)] \in Entered(delta[a])
    BY <1>4, <2>2
  <2>4. ASSUME NEW j \in i..(From(a, i) - 1) PROVE Order[j] \notin Entered(delta[a])
    <3>1. j \in i..8 /\ ~(From(a, i) <= j)
      BY <2>3, <2>4
    <3>2. j \notin entered
      BY <2>2, <3>1
    <3> QED
      BY <1>3, <3>1, <3>2
  <2> QED
    BY <2>3, <2>4
<1> QED
  BY <1>5, <1>6

(* DeltaTyped: an answer has an entry of its section's kind for every section.  *)
LEMMA DeltaTyped ==
    ASSUME TypeOK, NEW a \in Actions, NEW s \in Touched
    PROVE  /\ delta[a][s] \in EntryType /\ delta[a][s] \in Entries(s)
           /\ delta[a][s].id \in {"none", "known", "unknown", "new"}
           /\ delta[a][s].by \in {-1, 0, 1}
           /\ delta[a][s].id = "none" <=> s \notin Entered(delta[a])
           /\ delta[a][s].id = "unknown" => s \notin Upserting
           /\ delta[a][s].id = "new" => s \in {"item", "quest", "marker"}
<1>1. delta[a] \in [Touched -> EntryType] /\ delta[a][s] \in Entries(s)
  BY DEF TypeOK, Deltas
<1>2. /\ delta[a][s] \in EntryType
      /\ delta[a][s].id \in {"none", "known", "unknown", "new"}
      /\ delta[a][s].by \in {-1, 0, 1}
  BY <1>1 DEF EntryType
<1>3. delta[a][s].id = "none" <=> delta[a][s] = Nothing
  <2>1. delta[a][s] = [id |-> delta[a][s].id, by |-> delta[a][s].by]
    BY <1>2 DEF EntryType
  <2>2. delta[a][s].id = "none" <=> delta[a][s].by = 0
    BY <1>1 DEF Entries
  <2> QED
    BY <2>1, <2>2 DEF Nothing
<1>4. delta[a][s].id = "none" <=> s \notin Entered(delta[a])
  BY <1>3 DEF Entered
<1> QED
  BY <1>1, <1>2, <1>4 DEF Entries

(* InitInductive: nothing has begun.                                            *)
LEMMA InitInductive == Init => IInv
<1> SUFFICES ASSUME Init PROVE IInv
  OBVIOUS
<1>1. TypeOK
  <2>1. 1 \in 1..End
    BY OrderOK
  <2>2. NoRow \in Rows
    BY DEF NoRow, Rows
  <2>3. /\ db \in [val : [Touched -> SUBSET Actions], qty : Nat, present : SUBSET Touched,
                  created : SUBSET (Touched \X Actions), log : SUBSET Txs]
        /\ db.qty = 1 /\ db.present = Touched \ Upserting /\ "item" \notin Upserting
    BY DEF Init, StartDb, Upserting
  <2> QED
    BY <2>1, <2>2, <2>3 DEF Init, TypeOK
<1>2. HolderIsOpen /\ LoggedIsOver /\ NothingBeforeTheNumber /\ WorkIsCurrent
  BY TxAssumption DEF Init, StartDb, HolderIsOpen, LoggedIsOver, NothingBeforeTheNumber,
                      WorkIsCurrent, Txs
<1> QED
  BY <1>1, <1>2 DEF IInv

--------------------------------------------------------------------------------
(* Work that goes on. *)

Work(a) == SectionEntered(a) /\ FoundIsCurrent(a) /\ WrittenIsWanted(a)

(* WorkUntouched: what a has done stays current while the rows and a stand still. *)
LEMMA WorkUntouched ==
    ASSUME NEW a \in Actions, UNCHANGED <<db, delta>>, Work(a),
           at'[a] = at[a], found'[a] = found[a], mine'[a] = mine[a], made'[a] = made[a]
    PROVE  Work(a)'
<1>1. Section(a)' = Section(a) /\ Entry(a)' = Entry(a) /\ Done(a)' = Done(a)
      /\ Hit(a)' = Hit(a)
  BY DEF Section, Entry, Done, Hit
<1>2. \A s : RowOf(a, s)' = RowOf(a, s)
  BY DEF RowOf
<1>3. SectionEntered(a)' /\ FoundIsCurrent(a)'
  BY <1>1 DEF Work, SectionEntered, FoundIsCurrent
<1>4. WrittenIsWanted(a)'
  BY <1>1, <1>2 DEF Work, WrittenIsWanted
<1> QED
  BY <1>3, <1>4 DEF Work

(* AdvanceDone: between a section and the next one there are only sections      *)
(* without an entry.                                                            *)
LEMMA AdvanceDone ==
    ASSUME TypeOK, NEW a \in Actions, at[a] < End, Section(a) \in Touched, Advance(a), delta' = delta
    PROVE  /\ at'[a] \in 1..End /\ at' \in [Actions -> 1..End]
           /\ \A b \in Actions \ {a} : at'[b] = at[b]
           /\ SectionEntered(a)'
           /\ Section(a) \in Done(a)' /\ Done(a) \subseteq Done(a)' /\ Done(a)' \subseteq Touched
           /\ \A x \in Done(a)' : \/ x \in Done(a)
                                  \/ x = Section(a)
                                  \/ delta[a][x].id = "none"
<1> DEFINE i == at[a]
           n == From(a, at[a] + 1)
<1>1. i \in 1..8 /\ End = 9
  BY OrderOK DEF TypeOK
<1>2. at' = [at EXCEPT ![a] = n]
  BY DEF Advance
<1>3. /\ n \in (i + 1)..9
      /\ n < End => Order[n] \in Entered(delta[a])
      /\ \A j \in (i + 1)..(n - 1) : Order[j] \notin Entered(delta[a])
  BY <1>1, FromFinds
<1> HIDE DEF n
<1>4. at'[a] = n /\ \A b \in Actions \ {a} : at'[b] = at[b]
  BY <1>2 DEF TypeOK
<1>5. n \in 1..End
  BY <1>1, <1>3
<1>6. SectionEntered(a)'
  <2>1. End' = End /\ Section(a)' = Order[n] /\ Entered(delta[a])' = Entered(delta[a])
    BY <1>4 DEF Section, Entered, End
  <2> QED
    BY <1>3, <1>4, <2>1 DEF SectionEntered
<1>7. Done(a)' = {Order[j] : j \in 1..(n - 1)} \cap Touched /\ Done(a) = {Order[j] : j \in 1..(i - 1)} \cap Touched
  BY <1>4 DEF Done
<1>8. i \in 1..(n - 1) /\ \A j \in 1..(i - 1) : j \in 1..(n - 1)
  BY <1>1, <1>3
<1>9. ASSUME NEW x \in Done(a)' PROVE x \in Done(a) \/ x = Section(a) \/ delta[a][x].id = "none"
  <2>1. PICK j \in 1..(n - 1) : x = Order[j]
    BY <1>7, <1>9
  <2>2. x \in Touched
    BY <1>7, <1>9
  <2>3. CASE j < i
    <3>1. j \in 1..(i - 1)
      BY <1>1, <1>3, <2>1, <2>3
    <3> QED
      BY <1>7, <2>1, <2>2, <3>1
  <2>4. CASE j = i
    BY <2>1, <2>4 DEF Section
  <2>5. CASE i < j
    <3>1. j \in (i + 1)..(n - 1)
      BY <1>1, <1>3, <2>1, <2>5
    <3>2. x \notin Entered(delta[a])
      BY <1>3, <2>1, <3>1
    <3> QED
      BY <2>2, <3>2, DeltaTyped
  <2> QED
    BY <1>1, <1>3, <2>1, <2>3, <2>4, <2>5
<1>10. at' \in [Actions -> 1..End]
  BY <1>2, <1>5 DEF TypeOK
<1> QED
  BY <1>4, <1>5, <1>6, <1>7, <1>8, <1>9, <1>10 DEF Section

(* StartDone: the sections before the first one have no entry.                  *)
LEMMA StartDone ==
    ASSUME TypeOK, NEW a \in Actions, at'[a] = From(a, 1), delta' = delta
    PROVE  /\ at'[a] \in 1..End
           /\ SectionEntered(a)'
           /\ Done(a)' \subseteq Touched
           /\ \A x \in Done(a)' : delta[a][x].id = "none"
<1> DEFINE n == From(a, 1)
<1>1. End = 9
  BY OrderOK
<1>2. /\ n \in 1..9
      /\ n < End => Order[n] \in Entered(delta[a])
      /\ \A j \in 1..(n - 1) : Order[j] \notin Entered(delta[a])
  BY FromFinds
<1> HIDE DEF n
<1>3. at'[a] = n
  BY DEF n
<1>4. SectionEntered(a)'
  <2>1. End' = End /\ Section(a)' = Order[n] /\ Entered(delta[a])' = Entered(delta[a])
    BY <1>3 DEF Section, Entered, End
  <2> QED
    BY <1>2, <1>3, <2>1 DEF SectionEntered
<1>5. Done(a)' = {Order[j] : j \in 1..(n - 1)} \cap Touched
  BY <1>3 DEF Done
<1>6. ASSUME NEW x \in Done(a)' PROVE delta[a][x].id = "none"
  <2>1. x \notin Entered(delta[a]) /\ x \in Touched
    BY <1>2, <1>5, <1>6
  <2> QED
    BY <2>1, DeltaTyped
<1> QED
  BY <1>1, <1>2, <1>3, <1>4, <1>5, <1>6

--------------------------------------------------------------------------------
(* The steps. *)

DbTyped ==
    /\ db \in [val : [Touched -> SUBSET Actions], qty : Nat, present : SUBSET Touched,
              created : SUBSET (Touched \X Actions), log : SUBSET Txs]
    /\ "item" \in Touched => ("item" \in db.present <=> db.qty > 0)

(* LeaveInductive: a transaction that ends takes along what it knew; only the   *)
(* one that has the number may have changed the rows.                           *)
LEMMA LeaveInductive ==
    ASSUME IInv, NEW t \in Txs, Leave(t), delta' = delta, DbTyped',
           db' = db \/ (holder = t /\ db'.log \subseteq db.log \cup {t})
    PROVE  IInv'
<1> USE DEF IInv
<1>1. TypeOK'
  <2>1. 1 \in 1..End /\ NoRow \in Rows
    BY OrderOK DEF NoRow, Rows
  <2>2. /\ pc' = [pc EXCEPT ![t] = "over"]
        /\ seen' = [seen EXCEPT ![t] = {}]
        /\ holder' = IF holder = t THEN NoTx ELSE holder
        /\ at' = [a \in Actions |-> IF a = t THEN 1 ELSE at[a]]
        /\ found' = [a \in Actions |-> IF a = t THEN NoRow ELSE found[a]]
        /\ mine' = [a \in Actions |-> IF a = t THEN {} ELSE mine[a]]
        /\ made' = [a \in Actions |-> IF a = t THEN {} ELSE made[a]]
    BY DEF Leave
  <2>3. /\ pc' \in [Txs -> {"idle", "numbering", "open", "over"} \cup Players]
        /\ seen' \in [Txs -> SUBSET Txs] /\ holder' \in Txs \cup {NoTx}
    BY <2>2 DEF TypeOK
  <2>4. /\ at' \in [Actions -> 1..End] /\ found' \in [Actions -> Rows]
        /\ made' \in [Actions -> SUBSET Touched]
    BY <2>1, <2>2 DEF TypeOK
  <2>5. mine' \in [Actions -> SUBSET [section : Touched, row : Rows]]
    BY <2>2 DEF TypeOK
  <2>6. delta' \in [Actions -> Deltas]
    BY DEF TypeOK
  <2> QED
    BY <2>3, <2>4, <2>5, <2>6 DEF TypeOK, DbTyped
<1>2. /\ pc' \in [Txs -> {"idle", "numbering", "open", "over"} \cup Players] /\ pc'[t] = "over"
      /\ \A u \in Txs \ {t} : pc'[u] = pc[u]
      /\ holder' = IF holder = t THEN NoTx ELSE holder
  BY DEF Leave, TypeOK
<1>3. HolderIsOpen'
  BY <1>2, TxAssumption DEF HolderIsOpen
<1>4. LoggedIsOver'
  BY <1>2 DEF LoggedIsOver, DbTyped
<1>5. NothingBeforeTheNumber'
  BY <1>2 DEF NothingBeforeTheNumber, Leave, Txs
<1>6. ASSUME NEW a \in Actions, pc'[a] = "open" PROVE Work(a)'
  <2>1. a # t /\ pc[a] = "open" /\ a \in Txs
    BY <1>2, <1>6 DEF Txs
  <2>2. holder = a /\ db' = db
    BY <2>1 DEF HolderIsOpen
  <2>3. Work(a)
    BY <2>1 DEF WorkIsCurrent, Work
  <2>4. at'[a] = at[a] /\ found'[a] = found[a] /\ mine'[a] = mine[a] /\ made'[a] = made[a]
    BY <2>1 DEF Leave
  <2> QED
    BY <2>2, <2>3, <2>4, WorkUntouched
<1>7. WorkIsCurrent'
  BY <1>6 DEF WorkIsCurrent, Work
<1> QED
  BY <1>1, <1>3, <1>4, <1>5, <1>7

(* AbortInductive: a transaction that fails changes no row.                     *)
LEMMA AbortInductive ==
    ASSUME IInv, NEW t \in Txs, Abort(t)
    PROVE  IInv' /\ db' = db /\ delta' = delta
<1>1. Leave(t) /\ db' = db /\ delta' = delta
  BY DEF Abort
<1>2. DbTyped'
  BY <1>1 DEF DbTyped, IInv, TypeOK
<1> QED
  BY <1>1, <1>2, LeaveInductive

(* WorkingInductive: a step of a's own callback needs to be looked at for a only. *)
LEMMA WorkingInductive ==
    ASSUME IInv, NEW a \in Actions, pc[a] = "open", UNCHANGED openRest, TypeOK', Work(a)',
           \A b \in Actions \ {a} :
              at'[b] = at[b] /\ found'[b] = found[b] /\ mine'[b] = mine[b] /\ made'[b] = made[b]
    PROVE  IInv'
<1> USE DEF IInv, openRest
<1>1. HolderIsOpen' /\ LoggedIsOver' /\ NothingBeforeTheNumber'
  BY DEF HolderIsOpen, LoggedIsOver, NothingBeforeTheNumber
<1>2. ASSUME NEW b \in Actions, pc'[b] = "open" PROVE Work(b)'
  <2>1. CASE b = a
    BY <2>1
  <2>2. CASE b # a
    BY <1>2, <2>2, WorkUntouched DEF WorkIsCurrent, Work
  <2> QED
    BY <2>1, <2>2
<1> QED
  BY <1>1, <1>2 DEF WorkIsCurrent, Work

(* BeginInductive: until the event is in, nothing of the delta is read.         *)
LEMMA BeginInductive ==
    ASSUME IInv, (\E a \in Actions : Submit(a)) \/ StartRemoval \/ DeleteRow("marker")
                    \/ DeleteRow("character")
    PROVE  IInv' /\ db' = db /\ delta' = delta
<1> USE DEF IInv
<1>1. PICK t \in Txs :
         /\ pc[t] \in {"idle", "marker", "character"}
         /\ \E x \in {"numbering", "marker", "character"} : pc' = [pc EXCEPT ![t] = x]
         /\ seen' = seen \/ seen' = [seen EXCEPT ![t] = db.log]
         /\ UNCHANGED <<db, delta, at, found, mine, made, holder>>
  <2>1. CASE \E a \in Actions : Submit(a)
    BY <2>1 DEF Submit, ReadNumber, Txs
  <2>2. CASE StartRemoval
    BY <2>2 DEF StartRemoval, Txs
  <2>3. CASE DeleteRow("marker") \/ DeleteRow("character")
    <3>1. Removal \in Txs
      BY DEF Txs
    <3> QED
      BY <2>3, <3>1 DEF DeleteRow, ReadNumber
  <2> QED
    BY <2>1, <2>2, <2>3
<1>2. pc'[t] \in {"numbering", "marker", "character"} /\ \A u \in Txs \ {t} : pc'[u] = pc[u]
  BY <1>1 DEF TypeOK
<1>3. TypeOK'
  BY <1>1 DEF TypeOK, Players
<1>4. HolderIsOpen'
  BY <1>1, <1>2 DEF HolderIsOpen
<1>5. LoggedIsOver'
  BY <1>1, <1>2 DEF LoggedIsOver, TypeOK
<1>6. NothingBeforeTheNumber'
  BY <1>1, <1>2 DEF NothingBeforeTheNumber, Txs
<1>7. ASSUME NEW a \in Actions, pc'[a] = "open" PROVE Work(a)'
  <2>1. a \in Txs /\ a # t /\ pc[a] = "open"
    BY <1>2, <1>7 DEF Txs
  <2> QED
    BY <1>1, <2>1, WorkUntouched DEF WorkIsCurrent, Work
<1>8. WorkIsCurrent'
  BY <1>7 DEF WorkIsCurrent, Work
<1> QED
  BY <1>1, <1>3, <1>4, <1>5, <1>6, <1>8

(* InsertInductive: the number goes to one transaction at a time.               *)
LEMMA InsertInductive ==
    ASSUME IInv, NEW t \in Txs, InsertEvent(t)
    PROVE  IInv' /\ db' = db /\ delta' = delta
<1> USE DEF IInv
<1>1. CASE Abort(t)
  BY <1>1, AbortInductive
<1>2. CASE /\ pc[t] = "numbering" /\ holder = NoTx /\ holder' = t
           /\ pc' = [pc EXCEPT ![t] = "open"]
           /\ at' = [a \in Actions |-> IF a = t THEN From(a, 1) ELSE at[a]]
           /\ UNCHANGED <<db, delta, found, mine, made, seen>>
  <2>1. pc'[t] = "open" /\ \A u \in Txs \ {t} : pc'[u] = pc[u]
    BY <1>2 DEF TypeOK
  <2>2. \A a \in Actions : a = t =>
          /\ at'[a] \in 1..End /\ SectionEntered(a)' /\ Done(a)' \subseteq Touched
          /\ \A x \in Done(a)' : delta[a][x].id = "none"
    BY <1>2, StartDone
  <2>3. TypeOK'
    <3>1. at' \in [Actions -> 1..End]
      BY <1>2, <2>2 DEF TypeOK
    <3> QED
      BY <1>2, <3>1 DEF TypeOK
  <2>4. \A u \in Txs : pc[u] # "open"
    BY <1>2, TxAssumption DEF HolderIsOpen
  <2>5. HolderIsOpen' /\ LoggedIsOver'
    BY <1>2, <2>1, <2>4 DEF HolderIsOpen, LoggedIsOver, TypeOK
  <2>6. NothingBeforeTheNumber'
    BY <1>2, <2>1 DEF NothingBeforeTheNumber, Txs
  <2>7. ASSUME NEW a \in Actions, pc'[a] = "open" PROVE Work(a)'
    <3>1. a = t /\ pc[a] # "open"
      BY <2>1, <2>4, <2>7 DEF Txs
    <3>2. found'[a] = NoRow /\ mine'[a] = {} /\ made'[a] = {}
      BY <1>2, <3>1 DEF NothingBeforeTheNumber
    <3>3. FoundIsCurrent(a)'
      BY <3>2 DEF FoundIsCurrent, NoRow
    <3>4. Hit(a)' \cap Done(a)' = {}
      BY <1>2, <2>2, <3>1 DEF Hit
    <3>5. WrittenIsWanted(a)'
      BY <1>2, <2>2, <3>1, <3>2, <3>4 DEF WrittenIsWanted
    <3> QED
      BY <2>2, <3>1, <3>3, <3>5 DEF Work
  <2> QED
    BY <1>2, <2>3, <2>5, <2>6, <2>7 DEF WorkIsCurrent, Work
<1> QED
  BY <1>1, <1>2 DEF InsertEvent

(* InSectionFacts: what a knows about the section that it is in.                *)
LEMMA InSectionFacts ==
    ASSUME IInv, NEW a \in Actions, InSection(a)
    PROVE  /\ pc[a] = "open" /\ at[a] < End /\ Work(a) /\ a \in Txs
           /\ Section(a) \in Touched /\ Section(a) \in Sections
           /\ Entry(a) = delta[a][Section(a)]
           /\ Entry(a).id # "none"
           /\ Entry(a).by \in {-1, 0, 1}
           /\ Entry(a).id = "unknown" => Section(a) \notin Upserting
           /\ Entry(a).id = "new" => Section(a) \in {"item", "quest", "marker"}
<1>1. pc[a] = "open" /\ at[a] < End /\ Work(a) /\ a \in Txs
  BY DEF InSection, IInv, WorkIsCurrent, Work, Txs
<1>2. Section(a) \in Entered(delta[a])
  BY <1>1 DEF Work, SectionEntered
<1>3. Section(a) \in Touched /\ Section(a) \in Sections
  BY <1>2, WorldAssumption DEF Entered
<1>4. TypeOK
  BY DEF IInv
<1> QED
  BY <1>1, <1>2, <1>3, <1>4, DeltaTyped DEF Entry

(* SkipInductive: a section that is passed over asks for no row.                *)
LEMMA SkipInductive ==
    ASSUME IInv, NEW a \in Actions, Skip(a)
    PROVE  IInv' /\ db' = db /\ delta' = delta
<1> DEFINE s == Section(a)
<1>1. /\ InSection(a) /\ s \in Skipping /\ Advance(a)
      /\ UNCHANGED <<openRest, found, mine, made>>
      /\ \/ Entry(a).id = "unknown"
         \/ Entry(a).id = "known" /\ found[a] = NoRow /\ s \notin db.present
  BY DEF Skip
<1>2. db' = db /\ delta' = delta /\ TypeOK
  BY <1>1 DEF openRest, IInv
<1>3. /\ pc[a] = "open" /\ at[a] < End /\ Work(a) /\ s \in Touched
      /\ Entry(a) = delta[a][s]
  BY <1>1, InSectionFacts
<1>4. /\ at'[a] \in 1..End /\ at' \in [Actions -> 1..End]
      /\ \A b \in Actions \ {a} : at'[b] = at[b]
      /\ SectionEntered(a)'
      /\ s \in Done(a)' /\ Done(a) \subseteq Done(a)' /\ Done(a)' \subseteq Touched
      /\ \A x \in Done(a)' : x \in Done(a) \/ x = s \/ delta[a][x].id = "none"
  BY <1>1, <1>2, <1>3, AdvanceDone
<1> HIDE DEF s
<1>5. found[a] = NoRow
  BY <1>1, <1>3 DEF Work, FoundIsCurrent
<1>6. FoundIsCurrent(a)'
  BY <1>1, <1>5 DEF FoundIsCurrent, NoRow
<1>7. s \notin Hit(a) /\ delta[a][s].id # "new"
  BY <1>1, <1>3 DEF Hit, Skipping, Upserting
<1>8. Hit(a)' = Hit(a) /\ \A x : RowOf(a, x)' = RowOf(a, x)
  BY <1>2 DEF Hit, RowOf
<1>9. Hit(a) \cap Done(a)' = Hit(a) \cap Done(a)
  BY <1>4, <1>7 DEF Hit
<1>10. WrittenIsWanted(a)'
  <2>1. mine'[a] = {[section |-> x, row |-> RowOf(a, x)'] : x \in Hit(a)' \cap Done(a)'}
    BY <1>1, <1>3, <1>8, <1>9 DEF Work, WrittenIsWanted
  <2>2. made'[a] = {x \in Done(a)' : delta'[a][x].id = "new" /\ delta'[a][x].by > 0}
    BY <1>1, <1>2, <1>3, <1>4, <1>7 DEF Work, WrittenIsWanted
  <2>3. \A x \in Done(a)' \ (Skipping \cup Upserting) :
           delta[a][x].id # "unknown" /\ (delta[a][x].id = "known" => x \in db.present)
    BY <1>1, <1>3, <1>4 DEF Work, WrittenIsWanted
  <2> QED
    BY <1>2, <2>1, <2>2, <2>3 DEF WrittenIsWanted
<1>11. TypeOK'
  BY <1>1, <1>2, <1>4 DEF TypeOK, openRest
<1> QED
  BY <1>1, <1>2, <1>3, <1>4, <1>6, <1>10, <1>11, WorkingInductive DEF Work

(* FindInductive: a row is read as it is committed.                             *)
LEMMA FindInductive ==
    ASSUME IInv, NEW a \in Actions, Find(a)
    PROVE  IInv' /\ db' = db /\ delta' = delta
<1> DEFINE row == [val |-> db.val[Section(a)], qty |-> db.qty]
<1>1. /\ InSection(a) /\ Section(a) \in Reading \cap db.present /\ Entry(a).id = "known"
      /\ found' = [found EXCEPT ![a] = row]
      /\ UNCHANGED <<openRest, at, mine, made>>
  BY DEF Find
<1>2. db' = db /\ delta' = delta /\ TypeOK
  BY <1>1 DEF openRest, IInv
<1>3. pc[a] = "open" /\ at[a] < End /\ Work(a) /\ Section(a) \in Touched
  BY <1>1, InSectionFacts
<1>4. row \in Rows
  BY <1>2, <1>3 DEF TypeOK, Rows
<1> HIDE DEF row
<1>5. TypeOK'
  <2>1. found' \in [Actions -> Rows]
    BY <1>1, <1>2, <1>4 DEF TypeOK
  <2> QED
    BY <1>1, <1>2, <2>1 DEF TypeOK, openRest
<1>6. found'[a] = row /\ \A b \in Actions \ {a} : found'[b] = found[b]
  BY <1>1, <1>2 DEF TypeOK
<1>7. /\ Section(a)' = Section(a) /\ Entry(a)' = Entry(a) /\ Done(a)' = Done(a)
      /\ Hit(a)' = Hit(a) /\ \A x : RowOf(a, x)' = RowOf(a, x)
  BY <1>1, <1>2 DEF Section, Entry, Done, Hit, RowOf
<1>8. FoundIsCurrent(a)'
  BY <1>1, <1>2, <1>3, <1>6, <1>7 DEF FoundIsCurrent, row
<1>9. SectionEntered(a)' /\ WrittenIsWanted(a)'
  BY <1>1, <1>2, <1>3, <1>7 DEF Work, SectionEntered, WrittenIsWanted
<1> QED
  BY <1>1, <1>2, <1>3, <1>5, <1>6, <1>8, <1>9, WorkingInductive DEF Work

(* CreateInductive: a new row is made where the answer asks for one.            *)
LEMMA CreateInductive ==
    ASSUME IInv, NEW a \in Actions, Create(a)
    PROVE  IInv' /\ db' = db /\ delta' = delta
<1> DEFINE s == Section(a)
<1>1. /\ InSection(a) /\ Entry(a).id = "new" /\ Advance(a)
      /\ made' = IF Entry(a).by > 0 THEN [made EXCEPT ![a] = @ \cup {s}] ELSE made
      /\ UNCHANGED <<openRest, found, mine>>
  BY DEF Create
<1>2. db' = db /\ delta' = delta /\ TypeOK
  BY <1>1 DEF openRest, IInv
<1>3. /\ pc[a] = "open" /\ at[a] < End /\ Work(a) /\ s \in Touched
      /\ Entry(a) = delta[a][s]
  BY <1>1, InSectionFacts
<1>4. /\ at'[a] \in 1..End /\ at' \in [Actions -> 1..End]
      /\ \A b \in Actions \ {a} : at'[b] = at[b]
      /\ SectionEntered(a)'
      /\ s \in Done(a)' /\ Done(a) \subseteq Done(a)' /\ Done(a)' \subseteq Touched
      /\ \A x \in Done(a)' : x \in Done(a) \/ x = s \/ delta[a][x].id = "none"
  BY <1>1, <1>2, <1>3, AdvanceDone
<1> HIDE DEF s
<1>5. found[a] = NoRow
  BY <1>1, <1>3 DEF Work, FoundIsCurrent
<1>6. FoundIsCurrent(a)'
  BY <1>1, <1>5 DEF FoundIsCurrent, NoRow
<1>7. s \notin Hit(a)
  BY <1>1, <1>3 DEF Hit
<1>8. Hit(a)' = Hit(a) /\ \A x : RowOf(a, x)' = RowOf(a, x)
  BY <1>2 DEF Hit, RowOf
<1>9. Hit(a) \cap Done(a)' = Hit(a) \cap Done(a)
  BY <1>4, <1>7 DEF Hit
<1>10. /\ made'[a] = IF delta[a][s].by > 0 THEN made[a] \cup {s} ELSE made[a]
       /\ \A b \in Actions \ {a} : made'[b] = made[b]
       /\ made' \in [Actions -> SUBSET Touched]
  BY <1>1, <1>2, <1>3 DEF TypeOK
<1>11. WrittenIsWanted(a)'
  <2>1. mine'[a] = {[section |-> x, row |-> RowOf(a, x)'] : x \in Hit(a)' \cap Done(a)'}
    BY <1>1, <1>3, <1>8, <1>9 DEF Work, WrittenIsWanted
  <2>2. made'[a] = {x \in Done(a)' : delta'[a][x].id = "new" /\ delta'[a][x].by > 0}
    BY <1>1, <1>2, <1>3, <1>4, <1>10 DEF Work, WrittenIsWanted
  <2>3. \A x \in Done(a)' \ (Skipping \cup Upserting) :
           delta[a][x].id # "unknown" /\ (delta[a][x].id = "known" => x \in db.present)
    BY <1>1, <1>3, <1>4 DEF Work, WrittenIsWanted
  <2> QED
    BY <1>2, <2>1, <2>2, <2>3 DEF WrittenIsWanted
<1>12. TypeOK'
  BY <1>1, <1>2, <1>4, <1>10 DEF TypeOK, openRest
<1> QED
  BY <1>1, <1>2, <1>3, <1>4, <1>6, <1>10, <1>11, <1>12, WorkingInductive DEF Work

(* WriteInductive: what is written is what the answer makes of the rows as they *)
(* are now, since what was read of them is current.                             *)
LEMMA WriteInductive ==
    ASSUME IInv, NEW a \in Actions, Write(a)
    PROVE  IInv' /\ db' = db /\ delta' = delta
<1> DEFINE s == Section(a)
           w == [section |-> s, row |-> Value(a)]
<1>1. /\ InSection(a) /\ Entry(a).id = "known" /\ Advance(a)
      /\ s \in Reading => found[a] # NoRow
      /\ s \in db.present \cup Upserting
      /\ mine' = [mine EXCEPT ![a] = @ \cup {w}]
      /\ found' = [found EXCEPT ![a] = NoRow]
      /\ UNCHANGED <<openRest, made>>
  BY DEF Write
<1>2. db' = db /\ delta' = delta /\ TypeOK
  BY <1>1 DEF openRest, IInv
<1>3. /\ pc[a] = "open" /\ at[a] < End /\ Work(a) /\ s \in Touched
      /\ Entry(a) = delta[a][s] /\ Entry(a).by \in {-1, 0, 1}
  BY <1>1, InSectionFacts
<1>4. /\ at'[a] \in 1..End /\ at' \in [Actions -> 1..End]
      /\ \A b \in Actions \ {a} : at'[b] = at[b]
      /\ SectionEntered(a)'
      /\ s \in Done(a)' /\ Done(a) \subseteq Done(a)' /\ Done(a)' \subseteq Touched
      /\ \A x \in Done(a)' : x \in Done(a) \/ x = s \/ delta[a][x].id = "none"
  BY <1>1, <1>2, <1>3, AdvanceDone
<1>5. Value(a) = RowOf(a, s)
  <2>1. s \in Reading => found[a] = [val |-> db.val[s], qty |-> db.qty]
    BY <1>1, <1>3 DEF Work, FoundIsCurrent
  <2>2. s \in Reading <=> s \in Merging \/ s = "item"
    BY DEF Reading
  <2> QED
    BY <1>3, <2>1, <2>2 DEF Value, RowOf
<1>6. Value(a) \in Rows
  <2>1. db.val[s] \in SUBSET Actions /\ db.qty \in Int
    BY <1>2, <1>3 DEF TypeOK
  <2> QED
    BY <1>3, <1>5, <2>1 DEF RowOf, Rows
<1> HIDE DEF s, w
<1>7. /\ found'[a] = NoRow /\ found' \in [Actions -> Rows]
      /\ \A b \in Actions \ {a} : found'[b] = found[b]
  BY <1>1, <1>2 DEF TypeOK, NoRow, Rows
<1>8. /\ mine'[a] = mine[a] \cup {w} /\ \A b \in Actions \ {a} : mine'[b] = mine[b]
      /\ mine' \in [Actions -> SUBSET [section : Touched, row : Rows]]
  <2>1. w \in [section : Touched, row : Rows]
    BY <1>3, <1>6 DEF w
  <2> QED
    BY <1>1, <1>2, <2>1 DEF TypeOK
<1>9. FoundIsCurrent(a)'
  BY <1>7 DEF FoundIsCurrent, NoRow
<1>10. Hit(a)' = Hit(a) /\ \A x : RowOf(a, x)' = RowOf(a, x)
  BY <1>2 DEF Hit, RowOf
<1>11. s \in Hit(a) /\ delta[a][s].id # "new"
  BY <1>1, <1>3 DEF Hit
<1>12. Hit(a) \cap Done(a)' = (Hit(a) \cap Done(a)) \cup {s}
  BY <1>4, <1>11 DEF Hit
<1>13. WrittenIsWanted(a)'
  <2>1. mine'[a] = {[section |-> x, row |-> RowOf(a, x)'] : x \in Hit(a)' \cap Done(a)'}
    <3>1. mine[a] = {[section |-> x, row |-> RowOf(a, x)] : x \in Hit(a) \cap Done(a)}
      BY <1>3 DEF Work, WrittenIsWanted
    <3>2. w = [section |-> s, row |-> RowOf(a, s)]
      BY <1>5 DEF w
    <3>3. mine'[a] = {[section |-> x, row |-> RowOf(a, x)] : x \in (Hit(a) \cap Done(a)) \cup {s}}
      BY <1>8, <3>1, <3>2
    <3> QED
      BY <1>10, <1>12, <3>3
  <2>2. made'[a] = {x \in Done(a)' : delta'[a][x].id = "new" /\ delta'[a][x].by > 0}
    BY <1>1, <1>2, <1>3, <1>4, <1>11 DEF Work, WrittenIsWanted
  <2>3. \A x \in Done(a)' \ (Skipping \cup Upserting) :
           delta[a][x].id # "unknown" /\ (delta[a][x].id = "known" => x \in db.present)
    BY <1>1, <1>3, <1>4 DEF Work, WrittenIsWanted
  <2> QED
    BY <1>2, <2>1, <2>2, <2>3 DEF WrittenIsWanted
<1>14. TypeOK'
  BY <1>1, <1>2, <1>4, <1>7, <1>8 DEF TypeOK, openRest
<1> QED
  BY <1>1, <1>2, <1>3, <1>4, <1>7, <1>8, <1>9, <1>13, <1>14, WorkingInductive DEF Work

--------------------------------------------------------------------------------
(* Commits. *)

(* AllDone: at the end every section of the answer has been dealt with.         *)
LEMMA AllDone ==
    ASSUME NEW a \in Actions, at[a] = End
    PROVE  Done(a) = Touched
<1>1. ASSUME NEW s \in Touched PROVE s \in Done(a)
  <2>1. PICK j \in 1..8 : Order[j] = s
    BY OrderOK, WorldAssumption
  <2>2. j \in 1..(at[a] - 1)
    BY OrderOK
  <2> QED
    BY <2>1, <2>2 DEF Done
<1> QED
  BY <1>1 DEF Done

(* CommitApplies: what a commit writes is the answer applied to the rows of     *)
(* that moment.                                                                 *)
LEMMA CommitApplies ==
    ASSUME IInv, NEW a \in Actions, Commit(a)
    PROVE  Applicable(db, delta[a]) /\ db' = Applied(db, a, delta[a])
<1> DEFINE pick(s) == CHOOSE w \in mine[a] : w.section = s
           row(s) == pick(s).row
           qty == IF "item" \in Wrote(a) THEN row("item").qty ELSE db.qty
           d == delta[a]
           made2 == {s \in Touched : d[s].id = "new" /\ d[s].by > 0}
           qty2 == IF "item" \in Hit(a) THEN db.qty + d["item"].by ELSE db.qty
<1>1. pc[a] = "open" /\ at[a] = End
  BY DEF Commit
<1>2. WrittenIsWanted(a) /\ Done(a) = Touched
  BY <1>1, AllDone DEF IInv, WorkIsCurrent
<1>3. Hit(a) \subseteq Touched
  BY DEF Hit
<1>4. mine[a] = {[section |-> s, row |-> RowOf(a, s)] : s \in Hit(a)}
  BY <1>2, <1>3 DEF WrittenIsWanted
<1>5. Wrote(a) = Hit(a)
  <2>1. Wrote(a) = {w.section : w \in mine[a]}
    BY WorldAssumption DEF Wrote
  <2>2. ASSUME NEW s \in Hit(a) PROVE s \in {w.section : w \in mine[a]}
    <3>1. [section |-> s, row |-> RowOf(a, s)] \in mine[a]
      BY <1>4
    <3>2. [section |-> s, row |-> RowOf(a, s)].section = s
      OBVIOUS
    <3> QED
      BY <3>1, <3>2
  <2>3. ASSUME NEW w \in mine[a] PROVE w.section \in Hit(a)
    BY <1>4
  <2> QED
    BY <2>1, <2>2, <2>3
<1>6. ASSUME NEW s \in Hit(a) PROVE row(s) = RowOf(a, s)
  <2>1. [section |-> s, row |-> RowOf(a, s)] \in mine[a]
    BY <1>4
  <2>2. \A w \in mine[a] : w.section = s => w = [section |-> s, row |-> RowOf(a, s)]
    BY <1>4
  <2>3. pick(s) \in mine[a] /\ pick(s).section = s
    BY <2>1
  <2> HIDE DEF pick
  <2>4. pick(s) = [section |-> s, row |-> RowOf(a, s)]
    BY <2>2, <2>3
  <2> QED
    BY <2>4
<1>7. db' = [val |-> [s \in Touched |-> IF s \in Wrote(a) \ {"item"} THEN row(s).val ELSE db.val[s]],
             qty |-> qty,
             present |-> (db.present \cup Wrote(a)) \ (IF UsedUp(qty) THEN {"item"} ELSE {}),
             created |-> db.created \cup (made[a] \X {a}),
             log |-> db.log \cup {a}]
  BY DEF Commit
<1> HIDE DEF pick, row
<1>8. qty = qty2
  BY <1>5, <1>6 DEF RowOf
<1>9. \A s \in Hit(a) \ {"item"} :
         row(s).val = IF s \in Merging THEN db.val[s] \cup {a} ELSE {a}
  BY <1>6 DEF RowOf
<1>10. made[a] = made2
  BY <1>2 DEF WrittenIsWanted
<1> HIDE DEF qty, qty2, made2
<1>11. [s \in Touched |-> IF s \in Wrote(a) \ {"item"} THEN row(s).val ELSE db.val[s]]
        = [s \in Touched |-> IF s \notin Hit(a) \ {"item"} THEN db.val[s]
                             ELSE IF s \in Merging THEN db.val[s] \cup {a} ELSE {a}]
  BY <1>5, <1>9
<1>12. Applied(db, a, d)
        = [val |-> [s \in Touched |-> IF s \notin Hit(a) \ {"item"} THEN db.val[s]
                                      ELSE IF s \in Merging THEN db.val[s] \cup {a} ELSE {a}],
           qty |-> qty2,
           present |-> (db.present \cup Hit(a)) \ (IF qty2 <= 0 THEN {"item"} ELSE {}),
           created |-> db.created \cup (made2 \X {a}),
           log |-> db.log \cup {a}]
  BY DEF Applied, Hit, made2, qty2
<1>13. db' = Applied(db, a, d)
  BY <1>5, <1>7, <1>8, <1>10, <1>11, <1>12 DEF UsedUp
<1>14. Applicable(db, d)
  BY <1>2 DEF WrittenIsWanted, Applicable
<1> QED
  BY <1>13, <1>14

(* CommitInductive: the rows an answer leaves are of their types; an item that   *)
(* is used up is gone.                                                          *)
LEMMA CommitInductive ==
    ASSUME IInv, NEW a \in Actions, Commit(a)
    PROVE  IInv'
<1> DEFINE hit == {s \in Touched : delta[a][s].id = "known" /\ s \in db.present \cup Upserting}
           qty == IF "item" \in hit THEN db.qty + delta[a]["item"].by ELSE db.qty
           new == {s \in Touched : delta[a][s].id = "new" /\ delta[a][s].by > 0}
<1>0. db' = [val |-> [s \in Touched |-> IF s \notin hit \ {"item"} THEN db.val[s]
                                      ELSE IF s \in Merging THEN db.val[s] \cup {a} ELSE {a}],
             qty |-> qty,
             present |-> (db.present \cup hit) \ (IF qty <= 0 THEN {"item"} ELSE {}),
             created |-> db.created \cup (new \X {a}),
             log |-> db.log \cup {a}]
  BY CommitApplies DEF Applied
<1>1. /\ db'.val = [s \in Touched |-> IF s \notin hit \ {"item"} THEN db.val[s]
                                      ELSE IF s \in Merging THEN db.val[s] \cup {a} ELSE {a}]
      /\ db'.qty = qty
      /\ db'.present = (db.present \cup hit) \ (IF qty <= 0 THEN {"item"} ELSE {})
      /\ db'.created = db.created \cup (new \X {a})
      /\ db'.log = db.log \cup {a}
  <2> HIDE DEF hit, qty, new
  <2> QED
    BY <1>0
<1>2. TypeOK
  BY DEF IInv
<1>3. hit \subseteq Touched /\ new \subseteq Touched /\ ("item" \in hit => "item" \in db.present)
  BY DEF Upserting
<1>4. "item" \in hit => "item" \in Touched /\ delta[a]["item"].by \in {-1, 0, 1}
  BY <1>2, DeltaTyped
<1> HIDE DEF hit, new
<1>5. db'.qty \in Nat
  BY <1>1, <1>2, <1>3, <1>4 DEF TypeOK
<1>6. "item" \in Touched => ("item" \in db'.present <=> db'.qty > 0)
  <2>1. "item" \in Touched => ("item" \in db.present <=> db.qty > 0) /\ db.qty \in Nat
    BY <1>2 DEF TypeOK
  <2>2. CASE qty <= 0
    BY <1>1, <1>5, <2>2
  <2>3. CASE ~(qty <= 0)
    BY <1>1, <1>2, <1>3, <1>4, <1>5, <2>1, <2>3 DEF TypeOK
  <2> QED
    BY <2>2, <2>3
<1>7. db'.val \in [Touched -> SUBSET Actions] /\ db'.present \subseteq Touched
  BY <1>1, <1>2, <1>3 DEF TypeOK
<1>8. db'.created \subseteq Touched \X Actions /\ db'.log \subseteq Txs
  BY <1>1, <1>2, <1>3 DEF TypeOK, Txs
<1>9. DbTyped'
  <2> HIDE DEF qty
  <2>1. DbTyped' <=> /\ db' \in [val : [Touched -> SUBSET Actions], qty : Nat,
                                 present : SUBSET Touched,
                                 created : SUBSET (Touched \X Actions), log : SUBSET Txs]
                     /\ "item" \in Touched => ("item" \in db'.present <=> db'.qty > 0)
    BY DEF DbTyped, Txs
  <2> QED
    BY <1>0, <1>5, <1>6, <1>7, <1>8, <2>1
<1>10. a \in Txs /\ holder = a
  BY DEF Commit, IInv, HolderIsOpen, Txs
<1>11. Leave(a) /\ delta' = delta
  BY DEF Commit
<1> QED
  BY <1>1, <1>9, <1>10, <1>11, LeaveInductive

(* RemovalApplies: the removal takes the player's rows and no others.           *)
LEMMA RemovalApplies ==
    ASSUME IInv, CommitRemoval
    PROVE  IInv' /\ History!RemovePlayer
<1>1. /\ pc[Removal] = "open" /\ Removal \in Txs /\ Removal \notin Actions /\ holder = Removal
      /\ Leave(Removal) /\ delta' = delta
  BY WorldAssumption DEF CommitRemoval, IInv, HolderIsOpen, Txs
<1>2. Wrote(Removal) = Players
  BY <1>1 DEF Wrote
<1>3. db' = [db EXCEPT !.present = @ \ Players, !.log = @ \cup {Removal}]
  BY <1>2 DEF CommitRemoval
<1>4. Removal \notin db.log
  BY <1>1 DEF IInv, LoggedIsOver
<1>5. History!RemovePlayer
  BY <1>1, <1>3, <1>4 DEF History!RemovePlayer, History!Players, Players
<1>6. DbTyped' /\ db'.log = db.log \cup {Removal}
  <2>1. TypeOK /\ {"character", "marker"} \cap {"item"} = {}
    BY DEF IInv
  <2> QED
    BY <1>1, <1>3, <2>1 DEF TypeOK, DbTyped, Players, Txs
<1> QED
  BY <1>1, <1>5, <1>6, LeaveInductive

--------------------------------------------------------------------------------
(* StepInductive: every step keeps the invariant, and is a step of the history  *)
(* or leaves the rows alone.                                                    *)
LEMMA StepInductive ==
    ASSUME IInv, [Next]_vars
    PROVE  IInv' /\ [History!Next]_<<db, delta>>
<1>1. ASSUME NEW a \in Actions, Submit(a) PROVE IInv' /\ UNCHANGED <<db, delta>>
  BY <1>1, BeginInductive
<1>2. CASE StartRemoval \/ DeleteRow("marker") \/ DeleteRow("character")
  BY <1>2, BeginInductive
<1>3. ASSUME NEW t \in Txs, InsertEvent(t) PROVE IInv' /\ UNCHANGED <<db, delta>>
  BY <1>3, InsertInductive
<1>4. ASSUME NEW t \in Txs, RollBack(t) \/ BreakDeadlock(t)
      PROVE  IInv' /\ UNCHANGED <<db, delta>>
  BY <1>4, AbortInductive DEF RollBack, BreakDeadlock
<1>5. ASSUME NEW a \in Actions, Skip(a) \/ Find(a) \/ Create(a) \/ Write(a)
      PROVE  IInv' /\ UNCHANGED <<db, delta>>
  BY <1>5, SkipInductive, FindInductive, CreateInductive, WriteInductive
<1>6. ASSUME NEW a \in Actions, WriteFails(a) PROVE IInv' /\ UNCHANGED <<db, delta>>
  BY <1>6, AbortInductive DEF WriteFails, Txs
<1>7. ASSUME NEW a \in Actions, Commit(a) PROVE IInv' /\ History!Next
  <2>1. a \notin db.log
    BY <1>7 DEF Commit, IInv, LoggedIsOver
  <2>2. Applicable(db, delta[a]) /\ db' = Applied(db, a, delta[a])
    BY <1>7, CommitApplies
  <2>3. delta' = delta
    BY <1>7 DEF Commit
  <2>4. /\ History!Applicable(db, delta[a]) <=> Applicable(db, delta[a])
        /\ History!Applied(db, a, delta[a]) = Applied(db, a, delta[a])
    BY DEF History!Applicable, Applicable, History!Applied, Applied, History!Skipping, Skipping,
           History!Upserting, Upserting, History!Merging, Merging
  <2>5. History!Apply(a)
    BY <2>1, <2>2, <2>3, <2>4 DEF History!Apply
  <2> QED
    BY <1>7, <2>5, CommitInductive DEF History!Next
<1>8. CASE CommitRemoval
  BY <1>8, RemovalApplies DEF History!Next
<1>9. CASE UNCHANGED vars
  <2>1. UNCHANGED <<db, delta, pc, at, found, mine, made, seen, holder>>
    BY <1>9 DEF vars, txVars
  <2>2. \A a \in Actions : Work(a) => Work(a)'
    BY <2>1, WorkUntouched
  <2>3. TypeOK' /\ HolderIsOpen' /\ LoggedIsOver' /\ NothingBeforeTheNumber'
    BY <2>1 DEF IInv, TypeOK, HolderIsOpen, LoggedIsOver, NothingBeforeTheNumber
  <2>4. WorkIsCurrent'
    BY <2>1, <2>2 DEF IInv, WorkIsCurrent, Work
  <2> QED
    BY <2>1, <2>3, <2>4 DEF IInv
<1> QED
  BY <1>1, <1>2, <1>3, <1>4, <1>5, <1>6, <1>7, <1>8, <1>9, BeginInductive
     DEF Next, Proceed, Resolve, Remove

(* Invariance: what an open transaction has read and written is what the        *)
(* answers make of the rows that are committed.                                 *)
THEOREM Invariance == Spec => []IInv
<1>1. IInv /\ [Next]_vars => IInv'
  BY StepInductive
<1> QED
  BY InitInductive, <1>1, PTL DEF Spec

(* TypeCorrect: the types, and no item of quantity zero, for any number of      *)
(* resolutions (TypeOK).                                                        *)
THEOREM TypeCorrect == Spec => []TypeOK
<1>1. IInv => TypeOK
  BY DEF IInv
<1> QED
  BY Invariance, <1>1, PTL

(* AnswersApplyWhole: the statements of concurrent resolutions, their lost      *)
(* rows and failures implement answers applied whole, one after the other       *)
(* (ImplementsHistory).                                                         *)
THEOREM AnswersApplyWhole == Spec => ImplementsHistory
<1>1. Init => History!Init
  <2>1. History!StartDb = StartDb
    BY DEF StartDb, History!StartDb, Upserting, History!Upserting
  <2>2. History!EntryType = EntryType
    BY DEF EntryType, History!EntryType
  <2>3. \A s : History!Entries(s) = Entries(s)
    BY <2>2 DEF Entries, History!Entries, Upserting, History!Upserting
  <2>4. \A d : History!Entered(d) = Entered(d)
    BY DEF Entered, History!Entered, Nothing, History!Nothing
  <2>5. History!Deltas = Deltas
    <3>1. ASSUME NEW d \in [Touched -> EntryType]
          PROVE  d \in History!Deltas <=> d \in Deltas
      <4>1. d \in Deltas <=> /\ \A s \in Touched : d[s] \in Entries(s)
                             /\ Cardinality(Entered(d)) <= MaxEntries
        BY DEF Deltas
      <4>2. d \in History!Deltas <=> /\ \A s \in Touched : d[s] \in History!Entries(s)
                                     /\ History!Cardinality(History!Entered(d)) <= MaxEntries
        BY <2>2 DEF History!Deltas
      <4>3. History!Cardinality(Entered(d)) = Cardinality(Entered(d))
        BY DEF History!Cardinality, Cardinality
      <4> QED
        BY <2>3, <2>4, <4>1, <4>2, <4>3
    <3>2. /\ Deltas \subseteq [Touched -> EntryType]
          /\ History!Deltas \subseteq [Touched -> EntryType]
      BY <2>2 DEF Deltas, History!Deltas
    <3> QED
      BY <3>1, <3>2
  <2> QED
    BY <2>1, <2>5 DEF Init, History!Init
<1>2. IInv /\ [Next]_vars => [History!Next]_<<db, delta>>
  BY StepInductive
<1> QED
  BY <1>1, <1>2, Invariance, PTL DEF Spec, History!Spec, ImplementsHistory

--------------------------------------------------------------------------------
(* Who waits for whom. *)

(* WritersAreFew: only the holder of the number and the removal have rows.      *)
LEMMA WritersAreFew ==
    ASSUME IInv, NEW u \in Txs, Wrote(u) # {}
    PROVE  u = Removal \/ (u \in Actions /\ holder = u)
<1>1. CASE u \in Actions
  <2>1. Wrote(u) = {w.section : w \in mine[u]}
    BY <1>1, WorldAssumption DEF Wrote
  <2>2. pc[u] = "open"
    BY <1>1, <2>1 DEF IInv, NothingBeforeTheNumber
  <2> QED
    BY <1>1, <2>2 DEF IInv, HolderIsOpen, Txs
<1> QED
  BY <1>1 DEF Txs

(* WaitsAreFew: a transaction waits for the holder or for the removal; the      *)
(* holder waits for the removal only, and the removal for the holder only,      *)
(* unless it is the holder, and then for nobody.                                *)
LEMMA WaitsAreFew ==
    ASSUME IInv, NEW t \in Txs, NEW u \in Txs, WaitsFor(t, u)
    PROVE  /\ t # u
           /\ u = Removal \/ u = holder
           /\ t = holder => t # Removal /\ u = Removal
           /\ t = Removal => u = holder
<1>1. t # u /\ ((pc[t] = "numbering" /\ holder = u) \/ Wants(t) \cap Wrote(u) # {})
  BY DEF WaitsFor
<1>2. CASE pc[t] = "numbering" /\ holder = u
  <2>1. t # holder
    BY <1>1, <1>2
  <2> QED
    BY <1>1, <1>2, <2>1
<1>3. CASE Wants(t) \cap Wrote(u) # {}
  <2>1. u = Removal \/ (u \in Actions /\ holder = u)
    BY <1>3, WritersAreFew
  <2>2. CASE t = Removal
    <3>1. pc[t] \in Players
      BY <1>3, <2>2 DEF Wants
    <3>2. holder # t
      BY <3>1 DEF IInv, HolderIsOpen, Players
    <3> QED
      BY <1>1, <2>1, <2>2, <3>2
  <2>3. CASE t # Removal
    <3>1. pc[t] = "open"
      BY <1>3, <2>3 DEF Wants, InSection
    <3>2. holder = t
      BY <3>1 DEF IInv, HolderIsOpen
    <3> QED
      BY <1>1, <2>1, <2>3, <3>2
  <2> QED
    BY <2>2, <2>3
<1> QED
  BY <1>1, <1>2, <1>3

(* DetectorSuffices: however many resolutions there are, a deadlock is one      *)
(* between the removal and the resolution whose event has the next number, and  *)
(* the detector need only look for pairs.                                       *)
THEOREM DetectorSuffices == Spec => []DeadlocksAreMutual
<1>1. IInv => DeadlocksAreMutual
  <2> SUFFICES ASSUME IInv, NEW S \in (SUBSET Txs) \ {{}}, \A t \in S : \E u \in S : WaitsFor(t, u)
               PROVE  \E t, u \in S : WaitsFor(t, u) /\ WaitsFor(u, t)
    BY DEF DeadlocksAreMutual
  <2>1. PICK t \in S : TRUE
    OBVIOUS
  <2>2. PICK u \in S : WaitsFor(t, u)
    BY <2>1
  <2>3. PICK v \in S : WaitsFor(u, v)
    BY <2>2
  <2>4. PICK w \in S : WaitsFor(v, w)
    BY <2>3
  <2>5. u = Removal \/ u = holder
    BY <2>2, WaitsAreFew
  <2>6. CASE u = Removal
    <3>1. v = holder /\ w = Removal
      BY <2>3, <2>4, <2>6, WaitsAreFew
    <3> QED
      BY <2>3, <2>4, <2>6, <3>1
  <2>7. CASE u = holder
    <3>1. v = Removal /\ w = holder
      BY <2>3, <2>4, <2>7, WaitsAreFew
    <3> QED
      BY <2>3, <2>4, <2>7, <3>1
  <2> QED
    BY <2>5, <2>6, <2>7
<1> QED
  BY <1>1, Invariance, PTL
================================================================================
