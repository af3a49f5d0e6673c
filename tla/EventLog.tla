-------------------------------- MODULE EventLog --------------------------------
(* The campaign event log: packages/domain/src/event-log.ts, called from         *)
(* database transactions that run concurrently in the worker, the realtime       *)
(* service and the web server.  appendCampaignEvent reads the highest sequence   *)
(* and inserts the next one; nothing in the code orders the read of one          *)
(* transaction and the insert of another.  What does is outside the code: the    *)
(* unique index on (campaignId, sequence) under PostgreSQL's READ COMMITTED      *)
(* isolation (Prisma's default).  An insert that collides with a committed row   *)
(* fails its transaction; one that collides with another transaction's           *)
(* uncommitted row waits until that transaction has ended.                       *)
EXTENDS Integers

CONSTANTS
    Txs,          \* transactions that append to this campaign's log, each used once
    MaxAppends    \* the most events a transaction appends (a resolved action: 3)

ASSUME MaxAppendsAssumption == MaxAppends \in Nat \ {0}

VARIABLES
    log,      \* the committed rows: records [sequence, tx]
    rows,     \* rows[t]: the sequences of the rows t has inserted and not committed
    todo,     \* todo[t]: how many events t has still to append
    next,     \* next[t]: the sequence getNextEventSequence returned to t
    pc        \* pc[t]: where t is

vars == <<log, rows, todo, next, pc>>

Row == [sequence : Nat \ {0}, tx : Txs]

TypeOK ==
    /\ log \subseteq Row
    /\ rows \in [Txs -> SUBSET (Nat \ {0})]
    /\ todo \in [Txs -> 0..MaxAppends]
    /\ next \in [Txs -> Nat]
    /\ pc \in [Txs -> {"new", "open", "inserting", "committed", "aborted"}]

--------------------------------------------------------------------------------
Committed == {e.sequence : e \in log}

\* What a statement of transaction t sees: the rows committed by now, and its own.
Visible(t) == Committed \cup rows[t]

\* The highest of a finite set of sequences, 0 when there is none.
LastOf(S) == IF S = {} THEN 0 ELSE CHOOSE n \in S : \A m \in S : m <= n

--------------------------------------------------------------------------------
Init ==
    /\ log = {}
    /\ rows = [t \in Txs |-> {}]
    /\ todo = [t \in Txs |-> 0]
    /\ next = [t \in Txs |-> 0]
    /\ pc = [t \in Txs |-> "new"]

\* BEGIN, for a transaction that will append k events.
Begin(t, k) ==
    /\ pc[t] = "new"
    /\ pc' = [pc EXCEPT ![t] = "open"]
    /\ todo' = [todo EXCEPT ![t] = k]
    /\ UNCHANGED <<log, rows, next>>

\* Mutant: the last sequence is returned instead of the one after it.
GetLastEventSequence(t) ==
    /\ pc[t] = "open"
    /\ todo[t] > 0
    /\ next' = [next EXCEPT ![t] = LastOf(Visible(t))]
    /\ pc' = [pc EXCEPT ![t] = "inserting"]
    /\ UNCHANGED <<log, rows, todo>>

\* getNextEventSequence: the highest sequence this transaction can see, plus one.
GetNextEventSequence(t) ==
    /\ pc[t] = "open"
    /\ todo[t] > 0
    /\ next' = [next EXCEPT ![t] = LastOf(Visible(t)) + 1]
    /\ pc' = [pc EXCEPT ![t] = "inserting"]
    /\ UNCHANGED <<log, rows, todo>>

\* Mutant: an index that does not see uncommitted rows.
NeverContended(t) == t \in Txs

Uncontended(t) == \A u \in Txs \ {t} : next[t] \notin rows[u]

\* Mutant: no unique index on (campaignId, sequence).
InsertRowUnindexed(t) ==
    /\ pc[t] = "inserting"
    /\ rows' = [rows EXCEPT ![t] = @ \cup {next[t]}]
    /\ todo' = [todo EXCEPT ![t] = @ - 1]
    /\ pc' = [pc EXCEPT ![t] = "open"]
    /\ UNCHANGED <<log, next>>

\* Mutant: appendCampaignEvent is given prisma instead of the transaction's client.
InsertRowOutsideTx(t) ==
    /\ pc[t] = "inserting"
    /\ Uncontended(t)
    /\ next[t] \notin Visible(t)
    /\ log' = log \cup {[sequence |-> next[t], tx |-> t]}
    /\ todo' = [todo EXCEPT ![t] = @ - 1]
    /\ pc' = [pc EXCEPT ![t] = "open"]
    /\ UNCHANGED <<rows, next>>

\* The INSERT of appendCampaignEvent goes through.
InsertRow(t) ==
    /\ pc[t] = "inserting"
    /\ Uncontended(t)
    /\ next[t] \notin Visible(t)
    /\ rows' = [rows EXCEPT ![t] = @ \cup {next[t]}]
    /\ todo' = [todo EXCEPT ![t] = @ - 1]
    /\ pc' = [pc EXCEPT ![t] = "open"]
    /\ UNCHANGED <<log, next>>

\* It meets a row with its sequence: the error aborts the whole transaction.
UniqueViolation(t) ==
    /\ pc[t] = "inserting"
    /\ Uncontended(t)
    /\ next[t] \in Visible(t)
    /\ rows' = [rows EXCEPT ![t] = {}]
    /\ pc' = [pc EXCEPT ![t] = "aborted"]
    /\ UNCHANGED <<log, todo, next>>

\* Mutant: the transaction is never closed, its index entries stay locked.
CommitLeavesRows(t) ==
    /\ pc[t] = "open"
    /\ todo[t] = 0
    /\ log' = log \cup [sequence : rows[t], tx : {t}]
    /\ pc' = [pc EXCEPT ![t] = "committed"]
    /\ UNCHANGED <<rows, todo, next>>

Commit(t) ==
    /\ pc[t] = "open"
    /\ todo[t] = 0
    /\ log' = log \cup [sequence : rows[t], tx : {t}]
    /\ rows' = [rows EXCEPT ![t] = {}]
    /\ pc' = [pc EXCEPT ![t] = "committed"]
    /\ UNCHANGED <<todo, next>>

\* Any statement between the appends may fail (an unknown quest or marker in the
\* AI's delta, a deadlock, Prisma's transaction timeout, the process dying).
Rollback(t) ==
    /\ pc[t] \in {"open", "inserting"}
    /\ rows' = [rows EXCEPT ![t] = {}]
    /\ pc' = [pc EXCEPT ![t] = "aborted"]
    /\ UNCHANGED <<log, todo, next>>

Step(t) ==
    \/ GetNextEventSequence(t)
    \/ InsertRow(t)
    \/ UniqueViolation(t)
    \/ Commit(t)

Ended(t) == pc[t] \in {"committed", "aborted"}

\* Every transaction has ended: the only state the log may stop in.
AllEnded == (\A t \in Txs : Ended(t)) /\ UNCHANGED vars

Next ==
    \/ \E t \in Txs, k \in 1..MaxAppends : Begin(t, k)
    \/ \E t \in Txs : Step(t) \/ Rollback(t)
    \/ AllEnded

Spec == Init /\ [][Next]_vars

\* The database runs the statements it is given.
FairSpec == Spec /\ \A t \in Txs : WF_vars(Step(t))

--------------------------------------------------------------------------------
(* NoGapsNoDuplicates: the committed sequences are exactly 1..n for some n, and *)
(* no two committed rows share one.  getNextEventSequence alone guarantees      *)
(* neither: two transactions may read the same maximum (event-log.ts:3-13).     *)
NoGapsNoDuplicates ==
    /\ Committed = 1..LastOf(Committed)
    /\ \A e, f \in log : e.sequence = f.sequence => e = f

(* OneWriter: at most one transaction holds uncommitted events, so transactions *)
(* that append first (resolveActionIntent) run their state updates one after    *)
(* the other even when the campaign's lock in Redis has expired under them.     *)
OneWriter ==
    \A t, u \in Txs : rows[t] # {} /\ rows[u] # {} => t = u

(* NeverBehindAReader: no step commits an event at or below a sequence that was *)
(* readable before it, so a reader that asks for "sequence > the last I have"   *)
(* (action-resolver.ts:280-284) never skips one.                                *)
NeverBehindAReader ==
    [][/\ log \subseteq log'
       /\ \A e \in log' \ log : \A f \in log : f.sequence < e.sequence]_vars

\* u holds the uncommitted row that t's insert collides with.
WaitsFor(t, u) == t # u /\ pc[t] = "inserting" /\ next[t] \in rows[u]

(* BlockersGoOn: whoever an insert waits for is still running and waits for     *)
(* nobody itself.  Transactions that only append can neither deadlock nor queue *)
(* up behind a transaction that has ended.                                      *)
BlockersGoOn ==
    \A t, u \in Txs : WaitsFor(t, u) => ~Ended(u) /\ \A v \in Txs : ~WaitsFor(u, v)

(* TransactionsEnd: no transaction waits forever for another's uncommitted row. *)
TransactionsEnd ==
    \A t \in Txs : pc[t] = "open" ~> Ended(t)

\* The history the committed rows stand for.
Writer(n) == (CHOOSE e \in log : e.sequence = n).tx

WrittenHistory == [n \in 1..LastOf(Committed) |-> Writer(n)]

History == INSTANCE CampaignHistory WITH history <- WrittenHistory

(* ImplementsHistory: the log is the append-only history of whole transactions  *)
(* that CampaignHistory describes: a transaction's events are never interleaved *)
(* with another's, although their inserts are separate statements.              *)
ImplementsHistory == History!Spec
================================================================================
