----------------------------- MODULE EventLogProofs -----------------------------
(* Proofs about EventLog for every set of transactions and every MaxAppends.    *)
EXTENDS EventLog, SequenceTheorems, TLAPS

Last == LastOf(Committed)

LastSeen(t) == LastOf(Visible(t))

--------------------------------------------------------------------------------
(* The inductive invariant.  NoGapsNoDuplicates and OneWriter are not inductive *)
(* on their own: what keeps them is that an uncommitted row continues exactly   *)
(* the committed ones, and that a sequence once read can only have become too   *)
(* small.                                                                       *)

CommittedIsPrefix ==
    /\ Last \in Nat
    /\ Committed = 1..Last

RowsContinue ==
    \A t \in Txs :
        /\ LastSeen(t) \in Nat
        /\ Visible(t) = 1..LastSeen(t)
        /\ rows[t] = (Last + 1)..LastSeen(t)

ReadsAreLowerBounds ==
    \A t \in Txs : pc[t] = "inserting" => next[t] \in 1..(LastSeen(t) + 1)

RowsBelongToOpenTxs ==
    \A t \in Txs : rows[t] # {} => pc[t] \in {"open", "inserting"}

CommittedOnce ==
    /\ \A e, f \in log : e.sequence = f.sequence => e = f
    /\ \A e \in log : pc[e.tx] = "committed"

AppendsAreBounded ==
    \A t \in Txs : pc[t] \in {"open", "inserting"} =>
        /\ LastSeen(t) - Last + todo[t] <= MaxAppends
        /\ pc[t] = "inserting" => todo[t] > 0

IInv ==
    /\ TypeOK
    /\ CommittedIsPrefix
    /\ RowsContinue
    /\ OneWriter
    /\ ReadsAreLowerBounds
    /\ RowsBelongToOpenTxs
    /\ CommittedOnce
    /\ AppendsAreBounded

--------------------------------------------------------------------------------
(* LastOfInterval: the highest of 1..n is n, and 0 when the interval is empty.  *)
LEMMA LastOfInterval ==
    ASSUME NEW n \in Nat
    PROVE  LastOf(1..n) = n
<1>1. CASE n = 0
  <2>1. 1..n = {}
    BY <1>1
  <2> QED
    BY <1>1, <2>1 DEF LastOf
<1>2. CASE n # 0
  <2>1. n \in 1..n /\ 1..n # {}
    BY <1>2
  <2>2. \A m \in 1..n : m <= n
    OBVIOUS
  <2>3. \A x \in 1..n : (\A m \in 1..n : m <= x) => x = n
    BY <2>1
  <2> DEFINE c == CHOOSE x \in 1..n : \A m \in 1..n : m <= x
  <2>4. c \in 1..n /\ \A m \in 1..n : m <= c
    BY <2>1, <2>2
  <2>5. c = n
    BY <2>3, <2>4
  <2> QED
    BY <2>1, <2>5 DEF LastOf
<1> QED
  BY <1>1, <1>2

(* InitInductive: the empty log satisfies the invariant.                        *)
LEMMA InitInductive == Init => IInv
<1> SUFFICES ASSUME Init PROVE IInv
  OBVIOUS
<1> USE MaxAppendsAssumption DEF Init
<1>1. Committed = {} /\ \A t \in Txs : Visible(t) = {} /\ rows[t] = {}
  BY DEF Committed, Visible
<1>2. Last = 0 /\ \A t \in Txs : LastSeen(t) = 0
  BY <1>1 DEF Last, LastSeen, LastOf
<1>3. TypeOK
  BY DEF TypeOK, Row
<1>4. CommittedIsPrefix /\ RowsContinue
  BY <1>1, <1>2 DEF CommittedIsPrefix, RowsContinue
<1>5. OneWriter /\ ReadsAreLowerBounds /\ RowsBelongToOpenTxs /\ CommittedOnce /\ AppendsAreBounded
  BY <1>1, <1>2 DEF OneWriter, ReadsAreLowerBounds, RowsBelongToOpenTxs, CommittedOnce,
                    AppendsAreBounded
<1> QED
  BY <1>3, <1>4, <1>5 DEF IInv

(* NextIsFresh: a sequence that the index accepts is the one after everything   *)
(* the transaction sees, however long ago it was read.                          *)
LEMMA NextIsFresh ==
    ASSUME IInv, NEW t \in Txs, pc[t] = "inserting", next[t] \notin Visible(t)
    PROVE  next[t] = LastSeen(t) + 1
<1>1. next[t] \in 1..(LastSeen(t) + 1) /\ LastSeen(t) \in Nat /\ Visible(t) = 1..LastSeen(t)
  BY DEF IInv, ReadsAreLowerBounds, RowsContinue
<1> QED
  BY <1>1

(* LogUntouched: a step that touches neither the committed rows nor those of a  *)
(* transaction leaves what that transaction sees as it was.                     *)
LEMMA LogUntouched ==
    ASSUME log' = log
    PROVE  /\ Committed' = Committed
           /\ Last' = Last
           /\ \A t \in Txs : rows'[t] = rows[t] =>
                 Visible(t)' = Visible(t) /\ LastSeen(t)' = LastSeen(t)
BY DEF Committed, Last, Visible, LastSeen

(* ReadingInductive: steps that only move a transaction or its read value.      *)
LEMMA ReadingInductive ==
    ASSUME IInv, NEW t \in Txs,
           (\E k \in 1..MaxAppends : Begin(t, k)) \/ GetNextEventSequence(t)
    PROVE  IInv'
<1> USE MaxAppendsAssumption
<1>1. log' = log /\ rows' = rows
  BY DEF Begin, GetNextEventSequence
<1>2. /\ Committed' = Committed
      /\ Last' = Last
      /\ \A u \in Txs : Visible(u)' = Visible(u) /\ LastSeen(u)' = LastSeen(u)
  BY <1>1, LogUntouched
<1>3. TypeOK'
  <2>1. CASE \E k \in 1..MaxAppends : Begin(t, k)
    BY <2>1 DEF IInv, TypeOK, Begin
  <2>2. CASE GetNextEventSequence(t)
    <3>1. LastSeen(t) + 1 \in Nat
      BY DEF IInv, RowsContinue
    <3> QED
      BY <2>2, <3>1 DEF IInv, TypeOK, GetNextEventSequence, LastSeen
  <2> QED
    BY <2>1, <2>2
<1>4. CommittedIsPrefix' /\ RowsContinue' /\ OneWriter'
  BY <1>1, <1>2 DEF IInv, CommittedIsPrefix, RowsContinue, OneWriter
<1>5. ReadsAreLowerBounds'
  <2>1. CASE \E k \in 1..MaxAppends : Begin(t, k)
    BY <1>2, <2>1 DEF IInv, TypeOK, ReadsAreLowerBounds, Begin
  <2>2. CASE GetNextEventSequence(t)
    <3>1. LastSeen(t) \in Nat
      BY DEF IInv, RowsContinue
    <3>2. LastSeen(t) + 1 \in 1..(LastSeen(t) + 1)
      BY <3>1
    <3>3. next' = [next EXCEPT ![t] = LastSeen(t) + 1] /\ pc' = [pc EXCEPT ![t] = "inserting"]
      BY <2>2 DEF GetNextEventSequence, LastSeen
    <3> QED
      BY <1>2, <3>2, <3>3 DEF IInv, TypeOK, ReadsAreLowerBounds
  <2> QED
    BY <2>1, <2>2
<1>6. RowsBelongToOpenTxs'
  BY <1>1 DEF IInv, TypeOK, RowsBelongToOpenTxs, Begin, GetNextEventSequence
<1>7. CommittedOnce'
  <2>1. \A e \in log : e.tx \in Txs
    BY DEF IInv, TypeOK, Row
  <2> QED
    BY <1>1, <2>1 DEF IInv, TypeOK, CommittedOnce, Begin, GetNextEventSequence
<1>8. AppendsAreBounded'
  <2>1. CASE \E k \in 1..MaxAppends : Begin(t, k)
    <3>1. rows[t] = {}
      BY <2>1 DEF IInv, RowsBelongToOpenTxs, Begin
    <3>2. Visible(t) = Committed
      BY <3>1 DEF Visible
    <3>3. LastSeen(t) = Last /\ Last \in Nat
      BY <3>2 DEF LastSeen, Last, IInv, CommittedIsPrefix
    <3> QED
      BY <1>2, <2>1, <3>3 DEF IInv, TypeOK, AppendsAreBounded, Begin
  <2>2. CASE GetNextEventSequence(t)
    BY <1>2, <2>2 DEF IInv, TypeOK, AppendsAreBounded, GetNextEventSequence
  <2> QED
    BY <2>1, <2>2
<1> QED
  BY <1>3, <1>4, <1>5, <1>6, <1>7, <1>8 DEF IInv

(* AbortInductive: a transaction that ends without effect.                      *)
LEMMA AbortInductive ==
    ASSUME IInv, NEW t \in Txs, UniqueViolation(t) \/ Rollback(t)
    PROVE  IInv'
<1>1. /\ log' = log /\ todo' = todo /\ next' = next
      /\ rows' = [rows EXCEPT ![t] = {}]
      /\ pc' = [pc EXCEPT ![t] = "aborted"]
      /\ pc[t] \in {"open", "inserting"}
  BY DEF UniqueViolation, Rollback
<1>2. TypeOK /\ TypeOK'
  BY <1>1 DEF IInv, TypeOK
<1>3. Committed' = Committed /\ Last' = Last /\ Last \in Nat /\ Committed = 1..Last
  BY <1>1, LogUntouched DEF IInv, CommittedIsPrefix
<1>4. rows'[t] = {} /\ Visible(t)' = Committed /\ LastSeen(t)' = Last
  <2>1. rows'[t] = {}
    BY <1>1, <1>2 DEF TypeOK
  <2>2. Visible(t)' = Committed
    BY <1>3, <2>1 DEF Visible
  <2> QED
    BY <2>1, <2>2 DEF LastSeen, Last
<1>5. \A u \in Txs \ {t} :
        rows'[u] = rows[u] /\ Visible(u)' = Visible(u) /\ LastSeen(u)' = LastSeen(u)
  <2>1. \A u \in Txs \ {t} : rows'[u] = rows[u]
    BY <1>1, <1>2 DEF TypeOK
  <2> QED
    BY <1>1, <2>1, LogUntouched
<1>6. CommittedIsPrefix'
  BY <1>3 DEF CommittedIsPrefix
<1>7. RowsContinue'
  <2>1. (Last + 1)..Last = {}
    BY <1>3
  <2> QED
    BY <1>3, <1>4, <1>5, <2>1 DEF IInv, RowsContinue
<1>8. OneWriter'
  BY <1>4, <1>5 DEF IInv, OneWriter
<1>9. ReadsAreLowerBounds' /\ RowsBelongToOpenTxs' /\ AppendsAreBounded'
  BY <1>1, <1>2, <1>3, <1>4, <1>5
     DEF IInv, TypeOK, ReadsAreLowerBounds, RowsBelongToOpenTxs, AppendsAreBounded
<1>10. CommittedOnce'
  <2>1. \A e \in log : e.tx \in Txs /\ e.tx # t
    BY <1>1 DEF IInv, TypeOK, Row, CommittedOnce
  <2> QED
    BY <1>1, <1>2, <2>1 DEF IInv, TypeOK, CommittedOnce
<1> QED
  BY <1>2, <1>6, <1>7, <1>8, <1>9, <1>10 DEF IInv

(* InsertInductive: the index lets a second writer in only after the first one  *)
(* has ended, and then its stale sequence collides.                             *)
LEMMA InsertInductive ==
    ASSUME IInv, NEW t \in Txs, InsertRow(t)
    PROVE  IInv'
<1> DEFINE n == LastSeen(t)
<1>1. /\ pc[t] = "inserting" /\ Uncontended(t) /\ next[t] \notin Visible(t)
      /\ rows' = [rows EXCEPT ![t] = @ \cup {next[t]}]
      /\ todo' = [todo EXCEPT ![t] = @ - 1]
      /\ pc' = [pc EXCEPT ![t] = "open"]
      /\ log' = log /\ next' = next
  BY DEF InsertRow
<1>2. next[t] = n + 1 /\ n \in Nat
  BY <1>1, NextIsFresh DEF IInv, RowsContinue
<1>3. Committed' = Committed /\ Last' = Last /\ Last \in Nat /\ Committed = 1..Last
  BY <1>1, LogUntouched DEF IInv, CommittedIsPrefix
<1>4. todo[t] \in 1..MaxAppends
  BY <1>1 DEF IInv, TypeOK, AppendsAreBounded
<1>5. TypeOK /\ TypeOK'
  <2>1. todo[t] - 1 \in 0..MaxAppends
    BY <1>4, MaxAppendsAssumption
  <2> QED
    BY <1>1, <1>2, <2>1 DEF IInv, TypeOK
<1>6. Last <= n
  BY <1>2, <1>3 DEF IInv, RowsContinue, Visible
<1>7. rows'[t] = (Last + 1)..(n + 1)
  <2>1. rows[t] = (Last + 1)..n
    BY DEF IInv, RowsContinue
  <2>2. rows'[t] = rows[t] \cup {n + 1}
    BY <1>1, <1>2, <1>5 DEF TypeOK
  <2> QED
    BY <1>2, <1>3, <1>6, <2>1, <2>2
<1>8. Visible(t)' = 1..(n + 1) /\ LastSeen(t)' = n + 1
  <2>1. Visible(t)' = 1..(n + 1)
    BY <1>2, <1>3, <1>6, <1>7 DEF Visible
  <2> QED
    BY <1>2, <2>1, LastOfInterval DEF LastSeen
<1>9. \A u \in Txs \ {t} :
        rows'[u] = rows[u] /\ Visible(u)' = Visible(u) /\ LastSeen(u)' = LastSeen(u)
  <2>1. \A u \in Txs \ {t} : rows'[u] = rows[u]
    BY <1>1, <1>5 DEF TypeOK
  <2> QED
    BY <1>1, <2>1, LogUntouched
<1>10. \A u \in Txs \ {t} : rows[u] = {}
  <2> SUFFICES ASSUME NEW u \in Txs \ {t}, rows[u] # {} PROVE FALSE
    OBVIOUS
  <2>1. rows[t] = {}
    BY DEF IInv, OneWriter
  <2>2. n = Last
    BY <2>1 DEF Visible, LastSeen, Last
  <2>3. rows[u] = (Last + 1)..LastSeen(u) /\ LastSeen(u) \in Nat
    BY DEF IInv, RowsContinue
  <2>4. Last + 1 \in rows[u]
    BY <1>3, <2>3
  <2> QED
    BY <1>1, <1>2, <2>2, <2>4 DEF Uncontended
<1>11. CommittedIsPrefix' /\ OneWriter'
  BY <1>3, <1>9, <1>10 DEF CommittedIsPrefix, OneWriter
<1>12. RowsContinue'
  BY <1>2, <1>3, <1>7, <1>8, <1>9 DEF IInv, RowsContinue
<1>13. ReadsAreLowerBounds' /\ RowsBelongToOpenTxs'
  BY <1>1, <1>5, <1>9 DEF IInv, TypeOK, ReadsAreLowerBounds, RowsBelongToOpenTxs
<1>14. CommittedOnce'
  <2>1. \A e \in log : e.tx \in Txs /\ e.tx # t
    BY <1>1 DEF IInv, TypeOK, Row, CommittedOnce
  <2> QED
    BY <1>1, <1>5, <2>1 DEF IInv, TypeOK, CommittedOnce
<1>15. AppendsAreBounded'
  <2>1. n - Last + todo[t] <= MaxAppends
    BY <1>1 DEF IInv, AppendsAreBounded
  <2>2. (n + 1) - Last + (todo[t] - 1) <= MaxAppends
    BY <1>2, <1>3, <1>4, <2>1, MaxAppendsAssumption
  <2> QED
    BY <1>1, <1>3, <1>5, <1>8, <1>9, <2>2 DEF IInv, TypeOK, AppendsAreBounded
<1> QED
  BY <1>5, <1>11, <1>12, <1>13, <1>14, <1>15 DEF IInv

(* CommitEffect: what COMMIT does to the committed rows: they grow from 1..Last *)
(* to everything the transaction saw, and all the new ones are its own.         *)
LEMMA CommitEffect ==
    ASSUME IInv, NEW t \in Txs, Commit(t)
    PROVE  /\ LastSeen(t) \in Nat /\ Last \in Nat /\ Last <= LastSeen(t)
           /\ Committed' = 1..LastSeen(t)
           /\ Last' = LastSeen(t)
           /\ log' = log \cup [sequence : (Last + 1)..LastSeen(t), tx : {t}]
<1>1. Last \in Nat /\ Committed = 1..Last
  BY DEF IInv, CommittedIsPrefix
<1>2. /\ LastSeen(t) \in Nat /\ Visible(t) = 1..LastSeen(t)
      /\ rows[t] = (Last + 1)..LastSeen(t)
  BY DEF IInv, RowsContinue
<1>3. Last <= LastSeen(t)
  BY <1>1, <1>2 DEF Visible
<1>4. log' = log \cup [sequence : rows[t], tx : {t}]
  BY DEF Commit
<1>5. Committed' = Committed \cup rows[t]
  <2>1. \A e \in [sequence : rows[t], tx : {t}] : e.sequence \in rows[t]
    OBVIOUS
  <2>2. \A s \in rows[t] : \E e \in [sequence : rows[t], tx : {t}] : e.sequence = s
    <3> TAKE s \in rows[t]
    <3> WITNESS [sequence |-> s, tx |-> t] \in [sequence : rows[t], tx : {t}]
    <3> QED
      OBVIOUS
  <2> QED
    BY <1>4, <2>1, <2>2 DEF Committed
<1>6. Committed' = 1..LastSeen(t)
  BY <1>2, <1>5 DEF Visible
<1>7. Last' = LastSeen(t)
  BY <1>2, <1>6, LastOfInterval DEF Last
<1> QED
  BY <1>1, <1>2, <1>3, <1>4, <1>6, <1>7

(* CommitInductive: a commit extends the prefix and leaves every other          *)
(* transaction without rows, so that each of them continues the longer prefix.  *)
LEMMA CommitInductive ==
    ASSUME IInv, NEW t \in Txs, Commit(t)
    PROVE  IInv'
<1> DEFINE n == LastSeen(t)
<1>1. /\ pc[t] = "open" /\ todo[t] = 0
      /\ rows' = [rows EXCEPT ![t] = {}]
      /\ pc' = [pc EXCEPT ![t] = "committed"]
      /\ todo' = todo /\ next' = next
  BY DEF Commit
<1>2. /\ n \in Nat /\ Last \in Nat /\ Last <= n /\ Committed' = 1..n /\ Last' = n
      /\ log' = log \cup [sequence : (Last + 1)..n, tx : {t}]
  BY CommitEffect
<1>3. TypeOK /\ TypeOK'
  <2>1. [sequence : (Last + 1)..n, tx : {t}] \subseteq Row
    BY <1>2 DEF Row
  <2> QED
    BY <1>1, <1>2, <2>1 DEF IInv, TypeOK
<1>4. rows'[t] = {} /\ \A u \in Txs \ {t} : rows'[u] = rows[u]
  BY <1>1, <1>3 DEF TypeOK
<1>5. \A u \in Txs : rows'[u] = {} => Visible(u)' = 1..n /\ LastSeen(u)' = n
  <2> SUFFICES ASSUME NEW u \in Txs, rows'[u] = {} PROVE Visible(u)' = 1..n /\ LastSeen(u)' = n
    OBVIOUS
  <2>1. Visible(u)' = 1..n
    BY <1>2 DEF Visible
  <2> QED
    BY <2>1, <1>2 DEF LastSeen, Last, Visible
<1>6. \A u \in Txs : rows'[u] # {} => n = Last /\ Visible(u)' = Visible(u) /\ LastSeen(u)' = LastSeen(u)
  <2> SUFFICES ASSUME NEW u \in Txs, rows'[u] # {}
               PROVE  n = Last /\ Visible(u)' = Visible(u) /\ LastSeen(u)' = LastSeen(u)
    OBVIOUS
  <2>1. u # t /\ rows'[u] = rows[u]
    BY <1>4
  <2>2. rows[t] = {}
    BY <2>1 DEF IInv, OneWriter
  <2>3. Visible(t) = Committed
    BY <2>2 DEF Visible
  <2>4. n = Last
    BY <2>3 DEF LastSeen, Last
  <2>5. Committed' = Committed
    BY <1>2, <2>4 DEF IInv, CommittedIsPrefix
  <2>6. Visible(u)' = Visible(u)
    BY <2>1, <2>5 DEF Visible
  <2> QED
    BY <2>4, <2>6 DEF LastSeen
<1>7. \A u \in Txs : LastSeen(u) <= LastSeen(u)' /\ LastSeen(u)' \in Nat /\ LastSeen(u) \in Nat
  <2> SUFFICES ASSUME NEW u \in Txs
               PROVE  LastSeen(u) <= LastSeen(u)' /\ LastSeen(u)' \in Nat /\ LastSeen(u) \in Nat
    OBVIOUS
  <2>1. LastSeen(u) \in Nat
    BY DEF IInv, RowsContinue
  <2>2. CASE rows'[u] # {}
    BY <1>6, <2>1, <2>2
  <2>3. CASE rows'[u] = {} /\ u # t
    <3>1. rows[u] = {}
      BY <1>4, <2>3
    <3>2. LastSeen(u) = Last
      BY <3>1 DEF LastSeen, Last, Visible
    <3> QED
      BY <1>2, <1>5, <2>3, <3>2
  <2>4. CASE u = t
    BY <1>2, <1>4, <1>5, <2>4
  <2> QED
    BY <2>2, <2>3, <2>4
<1>8. CommittedIsPrefix'
  BY <1>2 DEF CommittedIsPrefix
<1>9. RowsContinue'
  <2> SUFFICES ASSUME NEW u \in Txs
               PROVE  /\ LastSeen(u)' \in Nat
                      /\ Visible(u)' = 1..LastSeen(u)'
                      /\ rows'[u] = (Last' + 1)..LastSeen(u)'
    BY DEF RowsContinue
  <2>1. CASE rows'[u] = {}
    <3>1. (n + 1)..n = {}
      BY <1>2
    <3> QED
      BY <1>2, <1>5, <2>1, <3>1
  <2>2. CASE rows'[u] # {}
    BY <1>2, <1>4, <1>6, <2>2 DEF IInv, RowsContinue
  <2> QED
    BY <2>1, <2>2
<1>10. OneWriter'
  BY <1>4 DEF IInv, OneWriter
<1>11. ReadsAreLowerBounds'
  <2> SUFFICES ASSUME NEW u \in Txs, pc'[u] = "inserting"
               PROVE  next'[u] \in 1..(LastSeen(u)' + 1)
    BY DEF ReadsAreLowerBounds
  <2>1. pc[u] = "inserting"
    BY <1>1, <1>3 DEF TypeOK
  <2>2. next[u] \in 1..(LastSeen(u) + 1)
    BY <2>1 DEF IInv, ReadsAreLowerBounds
  <2> QED
    BY <1>1, <1>7, <2>2
<1>12. RowsBelongToOpenTxs'
  BY <1>1, <1>3, <1>4 DEF IInv, TypeOK, RowsBelongToOpenTxs
<1>13. CommittedOnce'
  <2>1. \A e \in log : e.tx \in Txs /\ e.tx # t /\ e.sequence \in 1..Last
    BY <1>1 DEF IInv, TypeOK, Row, CommittedOnce, CommittedIsPrefix, Committed
  <2>2. \A e, f \in log' : e.sequence = f.sequence => e = f
    <3>1. \A e \in [sequence : (Last + 1)..n, tx : {t}] : e.sequence \notin 1..Last
      BY <1>2
    <3> QED
      BY <1>2, <2>1, <3>1 DEF IInv, CommittedOnce
  <2>3. \A e \in log' : pc'[e.tx] = "committed"
    BY <1>1, <1>2, <1>3, <2>1 DEF IInv, TypeOK, CommittedOnce
  <2> QED
    BY <2>2, <2>3 DEF CommittedOnce
<1>14. AppendsAreBounded'
  <2> SUFFICES ASSUME NEW u \in Txs, pc'[u] \in {"open", "inserting"}
               PROVE  /\ LastSeen(u)' - Last' + todo'[u] <= MaxAppends
                      /\ pc'[u] = "inserting" => todo'[u] > 0
    BY DEF AppendsAreBounded
  <2>1. u # t /\ pc'[u] = pc[u]
    BY <1>1, <1>3 DEF TypeOK
  <2>2. /\ LastSeen(u) - Last + todo[u] <= MaxAppends
        /\ pc[u] = "inserting" => todo[u] > 0
    BY <2>1 DEF IInv, AppendsAreBounded
  <2>3. CASE rows'[u] = {}
    <3>1. todo[u] \in Nat /\ todo[u] <= MaxAppends
      BY <1>3, MaxAppendsAssumption DEF TypeOK
    <3> QED
      BY <1>1, <1>2, <1>5, <2>1, <2>2, <2>3, <3>1, MaxAppendsAssumption
  <2>4. CASE rows'[u] # {}
    BY <1>1, <1>2, <1>6, <2>1, <2>2, <2>4
  <2> QED
    BY <2>3, <2>4
<1> QED
  BY <1>3, <1>8, <1>9, <1>10, <1>11, <1>12, <1>13, <1>14 DEF IInv

(* StutterInductive: a step that changes no variable.                           *)
LEMMA StutterInductive == IInv /\ UNCHANGED vars => IInv'
BY DEF vars, IInv, TypeOK, CommittedIsPrefix, RowsContinue, OneWriter, ReadsAreLowerBounds,
       RowsBelongToOpenTxs, CommittedOnce, AppendsAreBounded, Last, LastSeen, Visible, Committed

(* NextInductive: every step of a transaction preserves the invariant.          *)
LEMMA NextInductive == IInv /\ [Next]_vars => IInv'
<1> SUFFICES ASSUME IInv, [Next]_vars PROVE IInv'
  OBVIOUS
<1>1. CASE \E t \in Txs, k \in 1..MaxAppends : Begin(t, k)
  BY <1>1, ReadingInductive
<1>2. CASE \E t \in Txs : GetNextEventSequence(t)
  BY <1>2, ReadingInductive
<1>3. CASE \E t \in Txs : InsertRow(t)
  BY <1>3, InsertInductive
<1>4. CASE \E t \in Txs : UniqueViolation(t) \/ Rollback(t)
  BY <1>4, AbortInductive
<1>5. CASE \E t \in Txs : Commit(t)
  BY <1>5, CommitInductive
<1>6. CASE AllEnded \/ UNCHANGED vars
  BY <1>6, StutterInductive DEF AllEnded
<1> QED
  BY <1>1, <1>2, <1>3, <1>4, <1>5, <1>6 DEF Next, Step

(* Invariance: the inductive invariant holds in every reachable state.          *)
THEOREM Invariance == Spec => []IInv
<1>1. Init => IInv
  BY InitInductive
<1>2. IInv /\ [Next]_vars => IInv'
  BY NextInductive
<1> QED
  BY <1>1, <1>2, PTL DEF Spec

(* TypeCorrect: every variable of the log keeps its type (event-log.ts:15-40).  *)
THEOREM TypeCorrect == Spec => []TypeOK
<1>1. IInv => TypeOK
  BY DEF IInv
<1> QED
  BY <1>1, Invariance, PTL

(* LogIsContiguous: for any number of concurrent transactions the committed     *)
(* sequences are 1..n without a gap or a duplicate.                             *)
THEOREM LogIsContiguous == Spec => []NoGapsNoDuplicates
<1>1. IInv => NoGapsNoDuplicates
  BY DEF IInv, CommittedIsPrefix, CommittedOnce, NoGapsNoDuplicates, Last
<1> QED
  BY <1>1, Invariance, PTL

(* WritersTakeTurns: however many transactions run, one at most holds           *)
(* uncommitted events; the unique index serialises what the lock does not.      *)
THEOREM WritersTakeTurns == Spec => []OneWriter
<1>1. IInv => OneWriter
  BY DEF IInv
<1> QED
  BY <1>1, Invariance, PTL

(* NobodyWaitsInALine: for any number of transactions an insert only ever waits *)
(* for the one transaction that holds uncommitted events, which nothing holds   *)
(* up: the part of TransactionsEnd that does not depend on fairness.            *)
THEOREM NobodyWaitsInALine == Spec => []BlockersGoOn
<1>1. IInv => BlockersGoOn
  <2> SUFFICES ASSUME IInv, NEW t \in Txs, NEW u \in Txs, WaitsFor(t, u)
               PROVE  ~Ended(u) /\ \A v \in Txs : ~WaitsFor(u, v)
    BY DEF BlockersGoOn
  <2>1. rows[u] # {}
    BY DEF WaitsFor
  <2>2. \A v \in Txs : v # u => rows[v] = {}
    BY <2>1 DEF IInv, OneWriter
  <2> QED
    BY <2>1, <2>2 DEF IInv, RowsBelongToOpenTxs, Ended, WaitsFor
<1> QED
  BY <1>1, Invariance, PTL

(* ReadersMissNothing: a commit never adds an event below one already readable, *)
(* which is what a catch-up by "sequence > last" needs.                         *)
THEOREM ReadersMissNothing == Spec => NeverBehindAReader
<1> DEFINE Ordered == /\ log \subseteq log'
                      /\ \A e \in log' \ log : \A f \in log : f.sequence < e.sequence
<1>1. IInv /\ [Next]_vars => [Ordered]_vars
  <2> SUFFICES ASSUME IInv, Next PROVE Ordered
    BY DEF vars
  <2>1. CASE log' = log
    BY <2>1
  <2>2. CASE \E t \in Txs : Commit(t)
    <3> PICK t \in Txs : Commit(t)
      BY <2>2
    <3>1. /\ Last \in Nat /\ LastSeen(t) \in Nat
          /\ log' = log \cup [sequence : (Last + 1)..LastSeen(t), tx : {t}]
      BY CommitEffect
    <3>2. \A f \in log : f.sequence \in 1..Last
      BY DEF IInv, CommittedIsPrefix, Committed
    <3> QED
      BY <3>1, <3>2
  <2> QED
    BY <2>1, <2>2 DEF Next, Step, Begin, GetNextEventSequence, InsertRow, UniqueViolation,
                      Rollback, AllEnded, vars
<1> QED
  BY <1>1, Invariance, PTL DEF Spec, NeverBehindAReader

--------------------------------------------------------------------------------
(* The refinement of CampaignHistory. *)

(* WriterOfRow: a committed sequence determines the transaction that wrote it.  *)
LEMMA WriterOfRow ==
    ASSUME CommittedOnce, NEW e \in log
    PROVE  Writer(e.sequence) = e.tx
<1> DEFINE c == CHOOSE f \in log : f.sequence = e.sequence
<1>1. c \in log /\ c.sequence = e.sequence
  OBVIOUS
<1>2. c = e
  BY <1>1 DEF CommittedOnce
<1> QED
  BY <1>2 DEF Writer

(* HistoryIsSequence: the committed rows can be read as a sequence of writers.  *)
LEMMA HistoryIsSequence ==
    ASSUME IInv
    PROVE  /\ WrittenHistory \in Seq(Txs)
           /\ Len(WrittenHistory) = Last
           /\ \A n \in 1..Last : WrittenHistory[n] = Writer(n) /\ \E e \in log : e.sequence = n
<1>1. Last \in Nat /\ Committed = 1..Last
  BY DEF IInv, CommittedIsPrefix
<1>2. \A n \in 1..Last : \E e \in log : e.sequence = n /\ Writer(n) = e.tx /\ e.tx \in Txs
  <2> TAKE n \in 1..Last
  <2>1. PICK e \in log : e.sequence = n
    BY <1>1 DEF Committed
  <2>2. Writer(n) = e.tx /\ e.tx \in Txs
    BY <2>1, WriterOfRow DEF IInv, TypeOK, Row
  <2> QED
    BY <2>1, <2>2
<1>3. WrittenHistory = [n \in 1..Last |-> Writer(n)]
  BY DEF WrittenHistory, Last
<1>4. WrittenHistory \in [1..Last -> Txs]
  BY <1>2, <1>3
<1> QED
  BY <1>1, <1>2, <1>3, <1>4

(* CommitAppends: the commit of t appends one block, written by t alone.        *)
LEMMA CommitAppends ==
    ASSUME IInv, NEW t \in Txs, Commit(t)
    PROVE  \/ WrittenHistory' = WrittenHistory
           \/ \E k \in 1..MaxAppends : History!CommitBlock(t, k)
<1> DEFINE n == LastSeen(t)
           k == n - Last
           old == WrittenHistory
           new == WrittenHistory'
<1>1. /\ n \in Nat /\ Last \in Nat /\ Last <= n /\ Last' = n
      /\ log' = log \cup [sequence : (Last + 1)..n, tx : {t}]
  BY CommitEffect
<1>2. IInv'
  BY CommitInductive
<1>3. /\ old \in Seq(Txs) /\ Len(old) = Last
      /\ \A i \in 1..Last : old[i] = Writer(i) /\ \E e \in log : e.sequence = i
  BY HistoryIsSequence
<1>4. new = [i \in 1..n |-> Writer(i)']
  BY <1>1 DEF WrittenHistory, Last
<1>5. \A e \in log' : Writer(e.sequence)' = e.tx
  <2>1. CommittedOnce'
    BY <1>2 DEF IInv
  <2> QED
    BY <2>1 DEF CommittedOnce, Writer
<1>6. \A i \in 1..Last : Writer(i)' = old[i]
  <2> TAKE i \in 1..Last
  <2>1. PICK e \in log : e.sequence = i
    BY <1>3
  <2>2. Writer(i) = e.tx
    BY <2>1, WriterOfRow DEF IInv
  <2>3. e \in log'
    BY <1>1
  <2> QED
    BY <1>3, <1>5, <2>1, <2>2, <2>3
<1>7. \A i \in (Last + 1)..n : Writer(i)' = t
  <2> TAKE i \in (Last + 1)..n
  <2>1. [sequence |-> i, tx |-> t] \in log'
    BY <1>1
  <2> QED
    BY <1>5, <2>1
<1>8. CASE k = 0
  <2>1. n = Last
    BY <1>1, <1>8
  <2>2. old = [i \in 1..Last |-> old[i]]
    BY <1>3 DEF WrittenHistory, Last
  <2> QED
    BY <1>4, <1>6, <2>1, <2>2
<1>9. CASE k # 0
  <2>1. k \in 1..MaxAppends
    <3>1. pc[t] = "open" /\ todo[t] = 0
      BY DEF Commit
    <3>2. k + 0 <= MaxAppends
      BY <3>1 DEF IInv, AppendsAreBounded
    <3> QED
      BY <1>1, <1>9, <3>2, MaxAppendsAssumption
  <2>2. ~History!Wrote(t)
    <3> SUFFICES ASSUME NEW i \in DOMAIN WrittenHistory, WrittenHistory[i] = t PROVE FALSE
      BY DEF History!Wrote
    <3>1. i \in 1..Last
      BY DEF WrittenHistory, Last
    <3>2. PICK e \in log : e.sequence = i
      BY <1>3, <3>1
    <3>3. e.tx = t
      BY <1>3, <3>1, <3>2, WriterOfRow DEF IInv
    <3>4. pc[t] = "committed"
      BY <3>3 DEF IInv, CommittedOnce
    <3> QED
      BY <3>4 DEF Commit
  <2> DEFINE block == [i \in 1..k |-> t]
  <2>3. block \in Seq(Txs) /\ Len(block) = k
    BY <2>1
  <2>4. old \o block = [i \in 1..(Last + k) |-> IF i <= Last THEN old[i] ELSE block[i - Last]]
    BY <1>1, <1>3, <2>3
  <2>5. Last + k = n
    BY <1>1
  <2>6. \A i \in 1..n :
          Writer(i)' = IF i <= Last THEN old[i] ELSE block[i - Last]
    <3> TAKE i \in 1..n
    <3>1. CASE i <= Last
      BY <1>1, <1>6, <3>1
    <3>2. CASE ~(i <= Last)
      <4>1. i - Last \in 1..k /\ i \in (Last + 1)..n
        BY <1>1, <3>2
      <4> QED
        BY <1>7, <3>2, <4>1
    <3> QED
      BY <3>1, <3>2
  <2>7. new = old \o block
    BY <1>4, <2>4, <2>5, <2>6
  <2>8. History!CommitBlock(t, k)
    BY <2>2, <2>7 DEF History!CommitBlock, History!Repeat
  <2> QED
    BY <2>1, <2>8
<1> QED
  BY <1>8, <1>9

(* LogImplementsHistory: appendCampaignEvent, the unique index and READ         *)
(* COMMITTED together implement an append-only history of whole transactions.   *)
THEOREM LogImplementsHistory == Spec => ImplementsHistory
<1>1. Init => History!Init
  <2> SUFFICES ASSUME Init PROVE WrittenHistory = << >>
    BY DEF History!Init
  <2>1. Committed = {}
    BY DEF Init, Committed
  <2>2. LastOf(Committed) = 0
    BY <2>1 DEF LastOf
  <2> QED
    BY <2>2 DEF WrittenHistory
<1>2. IInv /\ [Next]_vars => [History!Next]_WrittenHistory
  <2> SUFFICES ASSUME IInv, [Next]_vars PROVE [History!Next]_WrittenHistory
    OBVIOUS
  <2>1. CASE log' = log
    BY <2>1 DEF WrittenHistory, Writer, Committed
  <2>2. CASE \E t \in Txs : Commit(t)
    BY <2>2, CommitAppends DEF History!Next
  <2> QED
    BY <2>1, <2>2 DEF Next, Step, Begin, GetNextEventSequence, InsertRow, UniqueViolation,
                      Rollback, AllEnded, vars
<1> QED
  BY <1>1, <1>2, Invariance, PTL DEF Spec, History!Spec, ImplementsHistory
================================================================================
