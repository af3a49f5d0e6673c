------------------------------ MODULE RoundsProofs ------------------------------
(* Proofs about Rounds for any number of guests, any cap and any bound on the   *)
(* rounds.                                                                      *)
EXTENDS Rounds, TLAPS

\* The groups of variables that an UNCHANGED names are always written out.
USE DEF actionVars, switchVars

--------------------------------------------------------------------------------
(* The inductive invariant.  The action properties say what a commit may do to  *)
(* the turn; they hold because what a transaction is going to write is exactly  *)
(* what the turn and the memberships of this moment call for, unless setTurnMode*)
(* has overtaken it.                                                            *)

HostStays == Host \in members

OneResolution ==
    \A u, v \in Users : tx[u].step # "none" /\ tx[v].step # "none" => u = v

ResolvesWhatIsInFlight ==
    \A u \in Users : tx[u].step # "none" => inFlight[u] > 0

FreeModeForgets == turn.turnMode = "free" => turn.acted = {}

ReadsAreCurrent ==
    \A u \in Users :
        tx[u].step = "read" /\ ~tx[u].overtaken => tx[u].turn = turn

WritesAreCurrent ==
    \A u \in Users :
        tx[u].step = "written" /\ tx[u].turn.turnMode = "rounds" /\ ~tx[u].overtaken =>
            turn.turnMode = "rounds" /\ tx[u].turn = TurnRecorded(turn, u)

OvertakenHasRead ==
    \A u \in Users : tx[u].overtaken => tx[u].step \in {"read", "written"}

\* Who has one action in flight, and has had no two at once, has yet to act.
InFlightHasToAct ==
    ~switchLost =>
        \A u \in Users : inFlight[u] > 0 /\ u \notin doubled => u \notin turn.acted

DoublesAreKnown == \A u \in Users : inFlight[u] > 1 => u \in doubled

IInv ==
    /\ TypeOK
    /\ HostStays
    /\ OneResolution
    /\ ResolvesWhatIsInFlight
    /\ FreeModeForgets
    /\ ReadsAreCurrent
    /\ WritesAreCurrent
    /\ OvertakenHasRead
    /\ InFlightHasToAct
    /\ DoublesAreKnown

--------------------------------------------------------------------------------
(* TurnRecordedOK: what recordTurnAction makes of a turn.                       *)
LEMMA TurnRecordedOK ==
    ASSUME NEW t \in Turn, NEW u \in Users
    PROVE  /\ TurnRecorded(t, u) \in Turn
           /\ TurnRecorded(t, u).turnMode = t.turnMode
           /\ members \subseteq t.acted \cup {u} =>
                 TurnRecorded(t, u).round = t.round + 1 /\ TurnRecorded(t, u).acted = {}
           /\ ~(members \subseteq t.acted \cup {u}) =>
                 TurnRecorded(t, u).round = t.round /\ TurnRecorded(t, u).acted = t.acted \cup {u}
<1>1. t = [turnMode |-> t.turnMode, round |-> t.round, acted |-> t.acted]
      /\ t.turnMode \in Modes /\ t.round \in Nat \ {0} /\ t.acted \in SUBSET Users
  BY DEF Turn
<1>2. CASE members \subseteq t.acted \cup {u}
  <2>1. TurnRecorded(t, u) = [turnMode |-> t.turnMode, round |-> t.round + 1, acted |-> {}]
    BY <1>1, <1>2 DEF TurnRecorded
  <2> QED
    BY <1>1, <1>2, <2>1 DEF Turn
<1>3. CASE ~(members \subseteq t.acted \cup {u})
  <2>1. TurnRecorded(t, u) =
            [turnMode |-> t.turnMode, round |-> t.round, acted |-> t.acted \cup {u}]
    BY <1>1, <1>3 DEF TurnRecorded
  <2> QED
    BY <1>1, <1>3, <2>1 DEF Turn
<1> QED
  BY <1>2, <1>3

(* NewTurnOK: what setTurnMode makes of it.                                     *)
LEMMA NewTurnOK ==
    ASSUME NEW mode \in Modes
    PROVE  NewTurn(mode) \in Turn /\ NewTurn(mode).turnMode = mode /\ NewTurn(mode).acted = {}
BY DEF NewTurn, Turn

(* InitInductive: the host alone, in free mode.                                 *)
LEMMA InitInductive == Init => IInv
<1> SUFFICES ASSUME Init PROVE IInv
  OBVIOUS
<1> USE RoundsAssumption DEF Init
<1>1. NewTurn("free") \in Turn /\ NewTurn("free").acted = {}
  BY NewTurnOK DEF Modes
<1>2. TypeOK
  <2>1. NoTx \in [step : {"none", "appended", "read", "written"}, turn : Turn, overtaken : BOOLEAN]
    BY <1>1 DEF NoTx
  <2>2. inFlight \in [Users -> 0..InFlightLimit]
    OBVIOUS
  <2> QED
    BY <1>1, <2>1, <2>2 DEF TypeOK, Users, Modes
<1>3. \A u \in Users : tx[u].step = "none" /\ ~tx[u].overtaken
  BY DEF NoTx
<1> QED
  BY <1>1, <1>2, <1>3 DEF IInv, HostStays, OneResolution, ResolvesWhatIsInFlight,
     FreeModeForgets, ReadsAreCurrent, WritesAreCurrent, OvertakenHasRead, InFlightHasToAct, DoublesAreKnown

--------------------------------------------------------------------------------
(* Every action preserves the invariant. *)

(* SubmitInductive: an accepted action is of somebody who has yet to act.       *)
LEMMA SubmitInductive ==
    ASSUME IInv, NEW u \in Users, Submit(u)
    PROVE  IInv'
<1> USE RoundsAssumption DEF IInv, Submit, Accept
<1>1. TypeOK'
  BY DEF TypeOK
<1>2. ResolvesWhatIsInFlight'
  BY DEF ResolvesWhatIsInFlight, TypeOK
<1>3. u \notin turn.acted
  BY DEF MayAct, FreeModeForgets, TypeOK, Turn, Modes
<1>4. InFlightHasToAct' /\ DoublesAreKnown'
  BY <1>3 DEF InFlightHasToAct, DoublesAreKnown, TypeOK
<1> QED
  BY <1>1, <1>2, <1>4 DEF HostStays, OneResolution, OvertakenHasRead, FreeModeForgets,
     ReadsAreCurrent, WritesAreCurrent, TurnRecorded

(* TransactionInductive: the statements of a resolution before its commit.      *)
LEMMA TransactionInductive ==
    ASSUME IInv, NEW u \in Users, BeginResolution(u) \/ ReadTurn(u) \/ WriteTurn(u)
    PROVE  IInv'
<1> USE RoundsAssumption DEF IInv
<1>1. CASE BeginResolution(u)
  <2>1. TypeOK'
    BY <1>1 DEF BeginResolution, TypeOK
  <2>2. \A v \in Users : tx'[v].step # "none" => v = u /\ tx'[v].step = "appended"
    BY <1>1 DEF BeginResolution, LogIsFree, TypeOK
  <2>3. OvertakenHasRead'
    BY <1>1 DEF BeginResolution, LogIsFree, TypeOK, OvertakenHasRead
  <2> QED
    BY <1>1, <2>1, <2>2, <2>3 DEF BeginResolution, HostStays, OneResolution, ResolvesWhatIsInFlight,
       FreeModeForgets, ReadsAreCurrent, WritesAreCurrent, InFlightHasToAct, DoublesAreKnown
<1>2. CASE ReadTurn(u)
  <2>1. TypeOK'
    BY <1>2 DEF ReadTurn, TypeOK
  <2>2. \A v \in Users : tx'[v].step # "none" => v = u /\ tx'[v].step = "read"
    BY <1>2 DEF ReadTurn, OneResolution, TypeOK
  <2>3. tx'[u].turn = turn
    BY <1>2 DEF ReadTurn, TypeOK
  <2>4. OneResolution' /\ ReadsAreCurrent' /\ WritesAreCurrent'
    BY <1>2, <2>2, <2>3 DEF ReadTurn, OneResolution, ReadsAreCurrent, WritesAreCurrent
  <2>5. ResolvesWhatIsInFlight'
    BY <1>2, <2>2 DEF ReadTurn, ResolvesWhatIsInFlight
  <2>6. OvertakenHasRead'
    BY <1>2 DEF ReadTurn, TypeOK, OvertakenHasRead
  <2> QED
    BY <1>2, <2>1, <2>4, <2>5, <2>6 DEF ReadTurn, HostStays, FreeModeForgets, InFlightHasToAct, DoublesAreKnown
<1>3. CASE WriteTurn(u)
  <2>1. tx[u].turn \in Turn /\ TurnRecorded(tx[u].turn, u) \in Turn
        /\ TurnRecorded(tx[u].turn, u).turnMode = tx[u].turn.turnMode
    BY TurnRecordedOK DEF TypeOK
  <2> DEFINE written == IF tx[u].turn.turnMode = "rounds"
                        THEN TurnRecorded(tx[u].turn, u) ELSE tx[u].turn
  <2> DEFINE Tx == [step : {"none", "appended", "read", "written"}, turn : Turn,
                    overtaken : BOOLEAN]
  <2> HIDE DEF written
  <2>0. written \in Turn
    BY <2>1 DEF written
  <2>2. /\ tx \in [Users -> Tx]
        /\ tx' = [tx EXCEPT ![u].step = "written", ![u].turn = written]
    BY <1>3 DEF WriteTurn, written, TypeOK
  <2>3. TypeOK'
    <3>1. tx' \in [Users -> Tx]
      BY <2>0, <2>2
    <3> QED
      BY <1>3, <3>1 DEF WriteTurn, TypeOK
  <2>4. \A v \in Users : tx'[v].step # "none" => v = u
    BY <1>3, <2>2 DEF WriteTurn, OneResolution, TypeOK
  <2>5. tx'[u].step = "written" /\ tx'[u].turn = written /\ tx'[u].overtaken = tx[u].overtaken
    BY <2>2
  <2>6. WritesAreCurrent'
    <3> SUFFICES ASSUME tx'[u].turn.turnMode = "rounds", ~tx[u].overtaken
                 PROVE  turn.turnMode = "rounds" /\ written = TurnRecorded(turn, u)
      BY <1>3, <2>4, <2>5 DEF WriteTurn, WritesAreCurrent, TurnRecorded
    <3>1. tx[u].turn = turn
      BY <1>3 DEF WriteTurn, ReadsAreCurrent
    <3> QED
      BY <2>1, <2>5, <3>1 DEF written
  <2>7. OvertakenHasRead'
    BY <2>2, <2>5 DEF OvertakenHasRead
  <2> QED
    BY <1>3, <2>3, <2>4, <2>5, <2>6, <2>7 DEF WriteTurn, HostStays, OneResolution,
       ResolvesWhatIsInFlight, FreeModeForgets, ReadsAreCurrent, InFlightHasToAct, DoublesAreKnown
<1> QED
  BY <1>1, <1>2, <1>3

(* CommitEffect: unless setTurnMode has overtaken it, a commit records the      *)
(* action in the turn of this moment.                                           *)
LEMMA CommitEffect ==
    ASSUME IInv, NEW u \in Users, CommitResolution(u), ~switchLost'
    PROVE  \/ turn' = turn
           \/ turn.turnMode = "rounds" /\ turn' = TurnRecorded(turn, u)
BY DEF IInv, CommitResolution, WritesAreCurrent, TypeOK

(* CommitInductive: a commit ends the action or has it run again, and leaves    *)
(* nobody's transaction behind.                                                 *)
LEMMA CommitInductive ==
    ASSUME IInv, NEW u \in Users, CommitResolution(u)
    PROVE  IInv'
<1> USE RoundsAssumption DEF IInv
<1>1. NoTx \in [step : {"none", "appended", "read", "written"}, turn : Turn, overtaken : BOOLEAN]
  BY NewTurnOK DEF NoTx, Modes
<1>2. inFlight[u] \in 1..InFlightLimit
  BY DEF CommitResolution, TypeOK, ResolvesWhatIsInFlight
<1>3. \A v \in Users : tx'[v].step = "none" /\ ~tx'[v].overtaken
  BY DEF CommitResolution, TypeOK, OneResolution, OvertakenHasRead, NoTx
<1>4. TypeOK'
  BY <1>1, <1>2 DEF CommitResolution, EndAction, RunsAgain, LogGrows, TypeOK
<1>5. FreeModeForgets'
  BY DEF CommitResolution, FreeModeForgets, TypeOK, Turn
<1>6. InFlightHasToAct'
  <2> SUFFICES ASSUME ~switchLost', NEW v \in Users, inFlight'[v] > 0, v \notin doubled'
               PROVE  v \notin turn'.acted
    BY DEF InFlightHasToAct
  <2>1. v # u /\ inFlight[v] > 0 /\ v \notin doubled
    BY <1>2 DEF CommitResolution, EndAction, RunsAgain, DoublesAreKnown, TypeOK
  <2>2. v \notin turn.acted
    BY <2>1 DEF InFlightHasToAct, CommitResolution
  <2>3. CASE turn' = turn
    BY <2>2, <2>3
  <2>4. CASE turn' = TurnRecorded(turn, u)
    <3>1. turn \in Turn
      BY DEF TypeOK
    <3>2. TurnRecorded(turn, u).acted \subseteq turn.acted \cup {u}
      BY <3>1, TurnRecordedOK
    <3> QED
      BY <2>1, <2>2, <2>4, <3>2
  <2> QED
    BY <2>3, <2>4, CommitEffect
<1>7. DoublesAreKnown'
  BY <1>2 DEF CommitResolution, EndAction, RunsAgain, DoublesAreKnown, TypeOK
<1> QED
  BY <1>3, <1>4, <1>5, <1>6, <1>7 DEF CommitResolution, HostStays, OneResolution, OvertakenHasRead,
     ResolvesWhatIsInFlight, ReadsAreCurrent, WritesAreCurrent

(* FailureInductive: a rollback, and a job that fails for good.                 *)
LEMMA FailureInductive ==
    ASSUME IInv, NEW u \in Users, RollbackResolution(u) \/ ActionFails(u)
    PROVE  IInv'
<1> USE RoundsAssumption DEF IInv
<1>1. NoTx \in [step : {"none", "appended", "read", "written"}, turn : Turn, overtaken : BOOLEAN]
  BY NewTurnOK DEF NoTx, Modes
<1>2. CASE RollbackResolution(u)
  <2>1. TypeOK'
    BY <1>1, <1>2 DEF RollbackResolution, TypeOK
  <2>2. \A v \in Users : tx'[v].step = "none" /\ ~tx'[v].overtaken
    BY <1>2 DEF RollbackResolution, TypeOK, OneResolution, OvertakenHasRead, NoTx
  <2> QED
    BY <1>2, <2>1, <2>2 DEF RollbackResolution, HostStays, OneResolution,
       ResolvesWhatIsInFlight, FreeModeForgets, ReadsAreCurrent, WritesAreCurrent,
       OvertakenHasRead, InFlightHasToAct, DoublesAreKnown
<1>3. CASE ActionFails(u)
  <2>1. TypeOK'
    BY <1>3 DEF ActionFails, EndAction, TypeOK
  <2>2. ResolvesWhatIsInFlight' /\ InFlightHasToAct' /\ DoublesAreKnown'
    BY <1>3 DEF ActionFails, EndAction, TypeOK, ResolvesWhatIsInFlight, InFlightHasToAct,
       DoublesAreKnown
  <2> QED
    BY <1>3, <2>1, <2>2 DEF ActionFails, HostStays, OneResolution, OvertakenHasRead,
       FreeModeForgets, ReadsAreCurrent, WritesAreCurrent, TurnRecorded
<1> QED
  BY <1>2, <1>3

(* SwitchInductive: setTurnMode waits for a transaction that has written the    *)
(* scene, and marks one that has only read it.                                  *)
LEMMA SwitchInductive ==
    ASSUME IInv, \/ \E mode \in Modes : SwitchMode(mode)
                 \/ ReadLogEnd \/ LogSwitch \/ LogSwitchFails
    PROVE  IInv'
<1> USE RoundsAssumption DEF IInv
<1>1. ASSUME NEW mode \in Modes, SwitchMode(mode) PROVE IInv'
  <2>1. turn' \in Turn /\ turn'.acted = {}
    BY <1>1, NewTurnOK DEF SwitchMode
  <2>2. \A v \in Users : /\ tx'[v].step = tx[v].step
                         /\ tx'[v].turn = tx[v].turn
                         /\ tx'[v].overtaken = (tx[v].step = "read")
    BY <1>1 DEF SwitchMode, TypeOK
  <2>3. TypeOK'
    BY <1>1, <2>1 DEF SwitchMode, TypeOK
  <2>4. ReadsAreCurrent' /\ WritesAreCurrent'
    BY <1>1, <2>2 DEF SwitchMode, SceneIsFree, ReadsAreCurrent, WritesAreCurrent
  <2>5. OvertakenHasRead'
    BY <2>2 DEF OvertakenHasRead
  <2>6. HostStays' /\ FreeModeForgets'
    BY <1>1, <2>1 DEF SwitchMode, HostStays, FreeModeForgets
  <2>7. OneResolution' /\ ResolvesWhatIsInFlight'
    <3>1. inFlight' = inFlight
      BY <1>1 DEF SwitchMode
    <3> QED
      BY <2>2, <3>1 DEF OneResolution, ResolvesWhatIsInFlight
  <2>8. \A v \in Users : v \notin turn'.acted
    BY <2>1
  <2>9. InFlightHasToAct' /\ DoublesAreKnown'
    BY <1>1, <2>8 DEF SwitchMode, InFlightHasToAct, DoublesAreKnown
  <2> QED
    BY <2>3, <2>4, <2>5, <2>6, <2>7, <2>9
<1>2. CASE ReadLogEnd \/ LogSwitch \/ LogSwitchFails
  <2>1. TypeOK' /\ UNCHANGED <<members, turn, actionVars, tx, switchLost>>
    <3>1. CASE ReadLogEnd
      BY <3>1 DEF ReadLogEnd, TypeOK
    <3>2. CASE LogSwitch \/ LogSwitchFails
      <4>1. SwitchEnds
        BY <3>2 DEF LogSwitch, LogSwitchFails
      <4> QED
        BY <4>1 DEF SwitchEnds, TypeOK
    <3> QED
      BY <1>2, <3>1, <3>2
  <2>2. HostStays' /\ FreeModeForgets' /\ ReadsAreCurrent' /\ WritesAreCurrent'
    BY <2>1 DEF HostStays, FreeModeForgets, ReadsAreCurrent, WritesAreCurrent, TurnRecorded
  <2>3. OneResolution' /\ ResolvesWhatIsInFlight' /\ OvertakenHasRead'
    BY <2>1 DEF OneResolution, ResolvesWhatIsInFlight, OvertakenHasRead
  <2>4. InFlightHasToAct' /\ DoublesAreKnown'
    BY <2>1 DEF InFlightHasToAct, DoublesAreKnown
  <2> QED
    BY <2>1, <2>2, <2>3, <2>4
<1> QED
  BY <1>1, <1>2

(* MembershipInductive: memberships change while no resolution has read them.   *)
LEMMA MembershipInductive ==
    ASSUME IInv, NEW u \in Guests,
           \/ CheckJoin(u) \/ CommitJoin(u) \/ JoinFails(u)
           \/ CheckRemove(u) \/ CommitRemove(u) \/ RemoveFails(u)
    PROVE  IInv'
<1> USE RoundsAssumption DEF IInv
<1>1. CASE CheckJoin(u) \/ JoinFails(u) \/ CheckRemove(u) \/ RemoveFails(u)
  <2>1. TypeOK'
    BY <1>1 DEF CheckJoin, JoinFails, CheckRemove, RemoveFails, TypeOK
  <2>2. UNCHANGED <<members, turn, actionVars, tx, switchLost>>
    BY <1>1 DEF CheckJoin, JoinFails, CheckRemove, RemoveFails
  <2> QED
    BY <2>1, <2>2 DEF HostStays, OneResolution, ResolvesWhatIsInFlight, FreeModeForgets,
       ReadsAreCurrent, WritesAreCurrent, OvertakenHasRead, InFlightHasToAct,
     DoublesAreKnown, TurnRecorded
<1>2. CASE CommitJoin(u) \/ CommitRemove(u)
  <2>1. TypeOK' /\ HostStays'
    BY <1>2 DEF CommitJoin, CommitRemove, LogGrows, TypeOK, HostStays, Users
  <2>2. LogIsFree /\ UNCHANGED <<turn, actionVars, tx, switchLost>>
    BY <1>2 DEF CommitJoin, CommitRemove
  <2> QED
    BY <2>1, <2>2 DEF LogIsFree, OneResolution, ResolvesWhatIsInFlight, FreeModeForgets,
       ReadsAreCurrent, WritesAreCurrent, OvertakenHasRead, InFlightHasToAct, DoublesAreKnown
<1> QED
  BY <1>1, <1>2

(* NextInductive: every step of the table preserves the invariant.              *)
LEMMA NextInductive == IInv /\ [Next]_vars => IInv'
<1> SUFFICES ASSUME IInv, [Next]_vars PROVE IInv'
  OBVIOUS
<1>1. CASE UNCHANGED vars
  BY <1>1 DEF vars, IInv, TypeOK, HostStays, OneResolution, ResolvesWhatIsInFlight,
     FreeModeForgets, ReadsAreCurrent, WritesAreCurrent, OvertakenHasRead, InFlightHasToAct,
     DoublesAreKnown, TurnRecorded
<1>2. ASSUME NEW u \in Users, Submit(u) \/ Resolve(u) PROVE IInv'
  BY <1>2, SubmitInductive, TransactionInductive, CommitInductive, FailureInductive DEF Resolve
<1>3. CASE HostActs
  BY <1>3, SwitchInductive, MembershipInductive DEF HostActs
<1>4. ASSUME NEW u \in Guests, CheckJoin(u) \/ CommitJoin(u) \/ JoinFails(u) PROVE IInv'
  BY <1>4, MembershipInductive
<1> QED
  BY <1>1, <1>2, <1>3, <1>4 DEF Next

(* Invariance: the inductive invariant holds in every reachable state.          *)
THEOREM Invariance == Spec => []IInv
BY InitInductive, NextInductive, PTL DEF Spec

--------------------------------------------------------------------------------
(* What follows from it. *)

(* LostStays: the history variable remembers.                                   *)
LEMMA LostStays ==
    ASSUME [Next]_vars, switchLost
    PROVE  switchLost'
<1> USE DEF Next, Resolve, HostActs, Submit, BeginResolution, ReadTurn, WriteTurn,
    CommitResolution, RollbackResolution, ActionFails, SwitchMode, ReadLogEnd, LogSwitch,
    LogSwitchFails, SwitchEnds, CheckJoin, CommitJoin, JoinFails, CheckRemove, CommitRemove, RemoveFails, vars
<1> QED
  OBVIOUS

(* TurnChanges: all that can happen to the turn and the memberships in a step   *)
(* that overwrites no switch.                                                   *)
LEMMA TurnChanges ==
    ASSUME IInv, [Next]_vars, ~switchLost'
    PROVE  \/ UNCHANGED <<turn, members>>
           \/ /\ members' = members
              /\ turn.turnMode = "rounds"
              /\ \E u \in Users : turn' = TurnRecorded(turn, u)
           \/ /\ members' = members
              /\ switching' # switching
              /\ \E mode \in Modes : turn' = NewTurn(mode)
           \/ turn' = turn /\ members \subseteq members'
           \/ turn' = turn /\ members' \subseteq members /\ members' # members
<1>1. CASE UNCHANGED vars
  BY <1>1 DEF vars
<1>2. ASSUME NEW u \in Users, Submit(u) \/ Resolve(u), ~CommitResolution(u)
      PROVE  UNCHANGED <<turn, members>>
  BY <1>2 DEF Submit, Resolve, BeginResolution, ReadTurn, WriteTurn, RollbackResolution, ActionFails
<1>3. ASSUME NEW u \in Users, CommitResolution(u)
      PROVE  /\ members' = members
             /\ \/ turn' = turn
                \/ turn.turnMode = "rounds" /\ turn' = TurnRecorded(turn, u)
  <2>1. members' = members
    BY <1>3 DEF CommitResolution
  <2> QED
    BY <1>3, <2>1, CommitEffect
<1>4. ASSUME NEW mode \in Modes, SwitchMode(mode)
      PROVE  members' = members /\ switching' # switching /\ turn' = NewTurn(mode)
  BY <1>4 DEF SwitchMode, Modes
<1>5. ASSUME ReadLogEnd \/ LogSwitch \/ LogSwitchFails PROVE UNCHANGED <<turn, members>>
  BY <1>5 DEF ReadLogEnd, LogSwitch, LogSwitchFails, SwitchEnds
<1>6. ASSUME NEW u \in Guests, CheckJoin(u) \/ JoinFails(u) \/ CheckRemove(u) \/ RemoveFails(u)
      PROVE  UNCHANGED <<turn, members>>
  BY <1>6 DEF CheckJoin, JoinFails, CheckRemove, RemoveFails
<1>7. ASSUME NEW u \in Guests, CommitJoin(u) PROVE turn' = turn /\ members \subseteq members'
  BY <1>7 DEF CommitJoin
<1>8. ASSUME NEW u \in Guests, CommitRemove(u)
      PROVE  turn' = turn /\ members' \subseteq members /\ members' # members
  BY <1>8 DEF CommitRemove
<1>9. CASE \E u \in Users : Submit(u) \/ Resolve(u)
  BY <1>2, <1>3, <1>9 DEF Resolve
<1>10. CASE HostActs
  BY <1>4, <1>5, <1>6, <1>8, <1>10 DEF HostActs
<1>11. CASE \E u \in Guests : CheckJoin(u) \/ CommitJoin(u) \/ JoinFails(u)
  BY <1>6, <1>7, <1>11
<1> QED
  BY <1>1, <1>9, <1>10, <1>11 DEF Next

(* TypeCorrect: every variable of the table keeps its type; in particular an    *)
(* action that is over was in flight.                                           *)
THEOREM TypeCorrect == Spec => []TypeOK
<1>1. IInv => TypeOK
  BY DEF IInv
<1> QED
  BY <1>1, Invariance, PTL

(* OthersActOnce: however many actions the reservation lets through, no action  *)
(* is recorded in a round its player has already acted in, except for a player  *)
(* with two in flight at once, for one that is run again after its commit, or   *)
(* after an overwritten switch.                                                 *)
THEOREM OthersActOnce == Spec => OnlyDoublesActTwice
<1>1. IInv /\ [Next]_vars =>
        [\A u \in Users :
           /\ tx[u].step = "written" /\ tx'[u].step = "none"
           /\ tx[u].turn.turnMode = "rounds" /\ turn.turnMode = "rounds"
           /\ u \in turn.acted
           => u \in doubled \/ switchLost']_vars
  BY LostStays DEF IInv, ResolvesWhatIsInFlight, InFlightHasToAct
<1> QED
  BY <1>1, Invariance, PTL DEF Spec, OnlyDoublesActTwice

(* NoTurnIsLost: the read-modify-write of the scene's metadata drops nobody who *)
(* has acted in the round, and leaves it only with the action of the last one   *)
(* it waits for, however resolutions, joins and removals overlap.               *)
THEOREM NoTurnIsLost == Spec => NoLostTurn
<1>1. IInv /\ [Next]_vars =>
        [PlayersMoveTheRound =>
           \/ turn'.round = turn.round /\ turn.acted \subseteq turn'.acted
           \/ /\ turn'.round = turn.round + 1
              /\ \E u \in Users : members \subseteq turn.acted \cup {u}]_vars
  <2> SUFFICES ASSUME IInv, [Next]_vars, PlayersMoveTheRound
               PROVE  \/ turn'.round = turn.round /\ turn.acted \subseteq turn'.acted
                      \/ /\ turn'.round = turn.round + 1
                         /\ \E u \in Users : members \subseteq turn.acted \cup {u}
    OBVIOUS
  <2>1. turn' = turn \/ \E u \in Users : turn' = TurnRecorded(turn, u)
    BY TurnChanges DEF PlayersMoveTheRound
  <2>2. turn \in Turn
    BY DEF IInv, TypeOK
  <2> QED
    BY <2>1, <2>2, TurnRecordedOK
<1> QED
  BY <1>1, Invariance, PTL DEF Spec, NoLostTurn

(* DeparturesStall: a round that nobody can end is left behind by the removal   *)
(* of a member only.                                                            *)
THEOREM DeparturesStall == Spec => OnlyDeparturesStall
<1>1. IInv /\ [Next]_vars =>
        [~Stalled /\ Stalled' /\ ~switchLost'
           => members' \subseteq members /\ members' # members]_vars
  <2> SUFFICES ASSUME IInv, [Next]_vars, ~Stalled, Stalled', ~switchLost'
               PROVE  members' \subseteq members /\ members' # members
    OBVIOUS
  <2>1. Host \in members /\ turn \in Turn
    BY DEF IInv, TypeOK, HostStays
  <2>2. ASSUME NEW u \in Users, turn' = TurnRecorded(turn, u), members' = members PROVE FALSE
    BY <2>1, <2>2, TurnRecordedOK DEF Stalled
  <2>3. ASSUME NEW mode \in Modes, turn' = NewTurn(mode), members' = members PROVE FALSE
    BY <2>1, <2>3, NewTurnOK DEF Stalled
  <2> QED
    BY <2>2, <2>3, TurnChanges DEF Stalled
<1> QED
  BY <1>1, Invariance, PTL DEF Spec, OnlyDeparturesStall

--------------------------------------------------------------------------------
(* The refinement of Table. *)

\* What the transaction of u would write over a switch.
OvertakenBy(u) ==
    IF tx[u].overtaken /\ tx[u].turn.turnMode = "rounds"
    THEN {IF tx[u].step = "read" THEN TurnRecorded(tx[u].turn, u) ELSE tx[u].turn}
    ELSE {}

Reads(u) == tx[u].step \in {"read", "written"}

(* OvertakenIsOnes: it is the business of one transaction, if of any.           *)
LEMMA OvertakenIsOnes ==
    OneResolution =>
        /\ (\A u \in Users : ~Reads(u)) => OvertakenTurns = {}
        /\ \A u \in Users : Reads(u) => OvertakenTurns = OvertakenBy(u)
<1> SUFFICES ASSUME OneResolution
             PROVE  /\ (\A u \in Users : ~Reads(u)) => OvertakenTurns = {}
                    /\ \A u \in Users : Reads(u) => OvertakenTurns = OvertakenBy(u)
  OBVIOUS
<1>1. ASSUME \A u \in Users : ~Reads(u) PROVE OvertakenTurns = {}
  BY <1>1 DEF OvertakenTurns, Reads
<1>2. ASSUME NEW u \in Users, Reads(u) PROVE OvertakenTurns = OvertakenBy(u)
  <2>1. \A v \in Users : Reads(v) => v = u
    BY <1>2 DEF OneResolution, Reads
  <2> DEFINE overtaken == {v \in Users : /\ tx[v].step \in {"read", "written"}
                                        /\ tx[v].overtaken
                                        /\ tx[v].turn.turnMode = "rounds"}
  <2>2. overtaken = IF tx[u].overtaken /\ tx[u].turn.turnMode = "rounds" THEN {u} ELSE {}
    BY <1>2, <2>1 DEF Reads
  <2> QED
    BY <2>2 DEF OvertakenTurns, OvertakenBy
<1> QED
  BY <1>1, <1>2

(* OvertakenAfter: the same after a step.                                       *)
LEMMA OvertakenAfter ==
    ASSUME IInv, [Next]_vars
    PROVE  /\ (\A u \in Users : ~Reads(u)') => OvertakenTurns' = {}
           /\ \A u \in Users : Reads(u)' => OvertakenTurns' = OvertakenBy(u)'
<1>1. OneResolution'
  BY NextInductive DEF IInv
<1>2. (OneResolution =>
          /\ (\A u \in Users : ~Reads(u)) => OvertakenTurns = {}
          /\ \A u \in Users : Reads(u) => OvertakenTurns = OvertakenBy(u))'
  BY OvertakenIsOnes, PTL
<1> QED
  BY <1>1, <1>2

(* OvertakenLasts: a step that leaves the transactions and the memberships as   *)
(* they are leaves it as it is.                                                 *)
LEMMA OvertakenLasts ==
    ASSUME UNCHANGED <<members, tx>>
    PROVE  OvertakenTurns' = OvertakenTurns
BY DEF OvertakenTurns, TurnRecorded

(* RecordedAgrees: recordTurnAction does to a turn what an action does to it.   *)
LEMMA RecordedAgrees ==
    ASSUME IInv, NEW u \in Users, turn.turnMode = "rounds"
    PROVE  TurnRecorded(turn, u) = TableView!Recorded(u)
<1>1. turn = [turnMode |-> "rounds", round |-> turn.round, acted |-> turn.acted]
  BY DEF IInv, TypeOK, Turn
<1>2. CASE members \subseteq turn.acted \cup {u}
  <2>1. TurnRecorded(turn, u) = [turnMode |-> "rounds", round |-> turn.round + 1, acted |-> {}]
    BY <1>1, <1>2 DEF TurnRecorded
  <2> QED
    BY <1>2, <2>1 DEF TableView!Recorded
<1>3. CASE ~(members \subseteq turn.acted \cup {u})
  <2>1. TurnRecorded(turn, u) =
            [turnMode |-> "rounds", round |-> turn.round, acted |-> turn.acted \cup {u}]
    BY <1>1, <1>3 DEF TurnRecorded
  <2> QED
    BY <1>3, <2>1 DEF TableView!Recorded
<1> QED
  BY <1>2, <1>3

(* StatementsAreUnseen: the table does not see a resolution before its end.     *)
LEMMA StatementsAreUnseen ==
    ASSUME IInv, [Next]_vars, NEW u \in Users,
           BeginResolution(u) \/ ReadTurn(u) \/ WriteTurn(u)
    PROVE  UNCHANGED TableView!vars
<1>1. UNCHANGED <<members, turn>>
  BY DEF BeginResolution, ReadTurn, WriteTurn
<1>2. OneResolution
  BY DEF IInv
<1>3. CASE BeginResolution(u)
  <2>1. \A v \in Users : ~Reads(v) /\ ~Reads(v)'
    BY <1>3 DEF BeginResolution, LogIsFree, Reads, IInv, TypeOK
  <2> QED
    BY <1>1, <1>2, <2>1, OvertakenIsOnes, OvertakenAfter DEF TableView!vars
<1>4. CASE ReadTurn(u)
  <2>1. \A v \in Users : ~Reads(v)
    BY <1>4 DEF ReadTurn, Reads, IInv, OneResolution
  <2>2. Reads(u)' /\ ~tx'[u].overtaken
    BY <1>4 DEF ReadTurn, Reads, IInv, TypeOK, OvertakenHasRead
  <2>3. OvertakenBy(u)' = {}
    BY <2>2 DEF OvertakenBy
  <2> QED
    BY <1>1, <1>2, <2>1, <2>2, <2>3, OvertakenIsOnes, OvertakenAfter DEF TableView!vars
<1>5. CASE WriteTurn(u)
  <2>1. Reads(u) /\ Reads(u)'
    BY <1>5 DEF WriteTurn, Reads, IInv, TypeOK
  <2>2. /\ tx[u].step = "read" /\ tx'[u].step = "written"
        /\ tx'[u].overtaken = tx[u].overtaken
        /\ tx'[u].turn = IF tx[u].turn.turnMode = "rounds" THEN TurnRecorded(tx[u].turn, u)
                         ELSE tx[u].turn
    BY <1>5 DEF WriteTurn, IInv, TypeOK
  <2>3. tx[u].turn.turnMode = "rounds" => tx'[u].turn.turnMode = "rounds"
    BY <2>2, TurnRecordedOK DEF IInv, TypeOK
  <2>4. OvertakenBy(u)' = OvertakenBy(u)
    BY <2>2, <2>3 DEF OvertakenBy
  <2> QED
    BY <1>1, <1>2, <2>1, <2>4, OvertakenIsOnes, OvertakenAfter DEF TableView!vars
<1> QED
  BY <1>3, <1>4, <1>5

(* CommitIsAMove: a commit is the recording of an action, or of the overtaken   *)
(* one.                                                                         *)
LEMMA CommitIsAMove ==
    ASSUME IInv, [Next]_vars, NEW u \in Users, CommitResolution(u)
    PROVE  [TableView!Next]_(TableView!vars)
<1>1. Reads(u) /\ OneResolution
  BY DEF CommitResolution, Reads, IInv
<1>2. OvertakenTurns = OvertakenBy(u)
  BY <1>1, OvertakenIsOnes
<1>3. OvertakenTurns' = {}
  <2>1. \A v \in Users : ~Reads(v)'
    BY DEF CommitResolution, IInv, TypeOK, OneResolution, Reads, NoTx
  <2> QED
    BY <2>1, OvertakenAfter
<1>4. CASE tx[u].turn.turnMode # "rounds"
  <2>1. OvertakenTurns = {} /\ UNCHANGED <<members, turn>>
    BY <1>2, <1>4 DEF OvertakenBy, CommitResolution
  <2> QED
    BY <1>3, <2>1 DEF TableView!vars
<1>5. CASE tx[u].turn.turnMode = "rounds" /\ tx[u].overtaken
  <2>1. OvertakenTurns = {tx[u].turn} /\ turn' = tx[u].turn /\ members' = members
    BY <1>2, <1>5 DEF OvertakenBy, CommitResolution
  <2> QED
    BY <1>3, <2>1 DEF TableView!Next, TableView!EndOvertaken
<1>6. CASE tx[u].turn.turnMode = "rounds" /\ ~tx[u].overtaken
  <2>1. OvertakenTurns = {} /\ turn' = tx[u].turn /\ members' = members
    BY <1>2, <1>6 DEF OvertakenBy, CommitResolution
  <2>2. turn.turnMode = "rounds" /\ turn' = TurnRecorded(turn, u)
    BY <1>6, <2>1 DEF CommitResolution, IInv, WritesAreCurrent
  <2>3. TableView!Act(u)
    BY <1>3, <2>1, <2>2, RecordedAgrees DEF TableView!Act
  <2> QED
    BY <2>3 DEF TableView!Next, TableView!Users, Users
<1> QED
  BY <1>4, <1>5, <1>6

(* RollbackIsUnseen: an action that comes to nothing takes with it what it has  *)
(* not written.                                                                 *)
LEMMA RollbackIsUnseen ==
    ASSUME IInv, [Next]_vars, NEW u \in Users, RollbackResolution(u)
    PROVE  [TableView!Next]_(TableView!vars)
<1>1. OvertakenTurns' = {} /\ UNCHANGED <<members, turn>>
  <2>1. \A v \in Users : ~Reads(v)'
    BY DEF RollbackResolution, IInv, TypeOK, OneResolution, Reads, NoTx
  <2> QED
    BY <2>1, OvertakenAfter DEF RollbackResolution
<1> QED
  BY <1>1 DEF TableView!Next, TableView!EndOvertaken, TableView!vars

(* SwitchIsAMove: the host's switch overtakes a resolution that has read.       *)
LEMMA SwitchIsAMove ==
    ASSUME IInv, [Next]_vars, NEW mode \in Modes, SwitchMode(mode)
    PROVE  TableView!Switch(mode)
<1>1. turn' = TableView!StartOf(mode) /\ members' = members
  BY DEF SwitchMode, NewTurn, TableView!StartOf
<1>2. OneResolution
  BY DEF IInv
<1>3. \A v \in Users : /\ tx'[v].step = tx[v].step
                       /\ tx'[v].turn = tx[v].turn
                       /\ tx'[v].overtaken = (tx[v].step = "read")
  BY DEF SwitchMode, IInv, TypeOK
<1>4. CASE \A v \in Users : ~Reads(v)
  <2>1. \A v \in Users : ~Reads(v)'
    BY <1>3, <1>4 DEF Reads
  <2>2. OvertakenTurns = {} /\ OvertakenTurns' = {}
    BY <1>2, <1>4, <2>1, OvertakenIsOnes, OvertakenAfter
  <2> QED
    BY <1>1, <2>2 DEF TableView!Switch
<1>5. ASSUME NEW u \in Users, Reads(u) PROVE TableView!Switch(mode)
  <2>1. OvertakenTurns = OvertakenBy(u) /\ OvertakenTurns' = OvertakenBy(u)'
    BY <1>2, <1>3, <1>5, OvertakenIsOnes, OvertakenAfter DEF Reads
  <2>2. TurnRecorded(tx[u].turn, u)' = TurnRecorded(tx[u].turn, u)
    BY <1>1, <1>3 DEF TurnRecorded
  <2>3. CASE tx[u].turn.turnMode # "rounds"
    BY <1>1, <1>3, <2>1, <2>3 DEF OvertakenBy, TableView!Switch
  <2>4. CASE tx[u].turn.turnMode = "rounds" /\ tx[u].step = "read" /\ ~tx[u].overtaken
    <3>1. tx[u].turn = turn
      BY <2>4 DEF IInv, ReadsAreCurrent
    <3>2. OvertakenTurns = {} /\ OvertakenTurns' = {TableView!Recorded(u)}
      BY <1>3, <2>1, <2>2, <2>4, <3>1, RecordedAgrees DEF OvertakenBy
    <3> QED
      BY <1>1, <2>4, <3>1, <3>2 DEF TableView!Switch, TableView!Users, Users
  <2>5. CASE tx[u].turn.turnMode = "rounds" /\ tx[u].step = "read" /\ tx[u].overtaken
    BY <1>1, <1>3, <2>1, <2>2, <2>5 DEF OvertakenBy, TableView!Switch
  <2>6. CASE tx[u].turn.turnMode = "rounds" /\ tx[u].step = "written"
    BY <2>6 DEF SwitchMode, SceneIsFree
  <2> QED
    BY <1>5, <2>3, <2>4, <2>5, <2>6 DEF Reads
<1> QED
  BY <1>4, <1>5

(* MembershipIsAMove: members come and go while no resolution has read.         *)
LEMMA MembershipIsAMove ==
    ASSUME IInv, [Next]_vars, NEW u \in Guests, CommitJoin(u) \/ CommitRemove(u)
    PROVE  TableView!Join(u) \/ TableView!Leave(u)
<1>1. OneResolution /\ turn' = turn
  BY DEF IInv, CommitJoin, CommitRemove
<1>2. \A v \in Users : ~Reads(v) /\ ~Reads(v)'
  BY DEF CommitJoin, CommitRemove, LogIsFree, Reads
<1>3. OvertakenTurns = {} /\ OvertakenTurns' = {}
  BY <1>1, <1>2, OvertakenIsOnes, OvertakenAfter
<1> QED
  BY <1>1, <1>3 DEF CommitJoin, CommitRemove, TableView!Join, TableView!Leave

(* TurnsImplementTable: for any number of players the statements of resolutions,*)
(* joins, removals and switches amount to the game that Table describes.        *)
THEOREM TurnsImplementTable == Spec => ImplementsTable
<1>1. Init => TableView!Init
  <2> SUFFICES ASSUME Init PROVE TableView!Init
    OBVIOUS
  <2>1. \A v \in Users : ~Reads(v)
    BY DEF Init, NoTx, Reads
  <2>2. OneResolution
    BY InitInductive DEF IInv
  <2> QED
    BY <2>1, <2>2, OvertakenIsOnes DEF Init, NewTurn, TableView!Init, TableView!StartOf
<1>2. IInv /\ [Next]_vars => [TableView!Next]_(TableView!vars)
  <2> SUFFICES ASSUME IInv, [Next]_vars PROVE [TableView!Next]_(TableView!vars)
    OBVIOUS
  <2>1. ASSUME UNCHANGED <<members, turn, tx>> PROVE UNCHANGED TableView!vars
    BY <2>1, OvertakenLasts DEF TableView!vars
  <2>2. CASE UNCHANGED vars
    BY <2>1, <2>2 DEF vars
  <2>3. ASSUME NEW u \in Users, Submit(u) \/ Resolve(u)
        PROVE  [TableView!Next]_(TableView!vars)
    <3>1. CASE Submit(u) \/ ActionFails(u)
      BY <2>1, <3>1 DEF Submit, ActionFails
    <3> QED
      BY <2>3, <3>1, StatementsAreUnseen, CommitIsAMove, RollbackIsUnseen DEF Resolve
  <2>4. ASSUME NEW u \in Guests,
               \/ CheckJoin(u) \/ CommitJoin(u) \/ JoinFails(u)
               \/ CheckRemove(u) \/ CommitRemove(u) \/ RemoveFails(u)
        PROVE  [TableView!Next]_(TableView!vars)
    <3>1. CASE CheckJoin(u) \/ JoinFails(u) \/ CheckRemove(u) \/ RemoveFails(u)
      BY <2>1, <3>1 DEF CheckJoin, JoinFails, CheckRemove, RemoveFails
    <3> QED
      BY <2>4, <3>1, MembershipIsAMove DEF TableView!Next
  <2>5. CASE ReadLogEnd \/ LogSwitch \/ LogSwitchFails
    BY <2>1, <2>5 DEF ReadLogEnd, LogSwitch, LogSwitchFails, SwitchEnds
  <2>6. ASSUME NEW mode \in Modes, SwitchMode(mode) PROVE TableView!Next
    BY <2>6, SwitchIsAMove DEF TableView!Next, Modes
  <2> QED
    BY <2>2, <2>3, <2>4, <2>5, <2>6 DEF Next, HostActs
<1> QED
  BY <1>1, <1>2, Invariance, PTL DEF Spec, ImplementsTable, TableView!Spec
================================================================================
