--------------------------------- MODULE Rounds ---------------------------------
(* The table of one campaign: who sits at it and whose turn it is.  Round-based *)
(* turns of a scene (packages/domain/src/turns.ts), the gate on submissions and *)
(* the turn recorded by a resolution (action-resolver.ts), joining by invite    *)
(* (invites.ts) and removal by the host (members.ts).                           *)
(*                                                                              *)
(* A resolution is a transaction that appends its first event before it reads   *)
(* anything; EventLog shows that such transactions run one after the other.     *)
(* Joining and removal append last, so they collide with a resolution under way *)
(* and are rolled back.  setTurnMode uses no transaction.                       *)
EXTENDS Integers, FiniteSets

CONSTANTS
    Host,            \* the host, who is never removed
    Guests,          \* everybody else who may join
    MaxPlayers,      \* campaign.maxPlayers; the host counts
    InFlightLimit,   \* bound on a player's accepted and unresolved actions
    MaxRound         \* bound on the rounds explored

Users == Guests \cup {Host}

ASSUME RoundsAssumption ==
    /\ Host \notin Guests
    /\ MaxPlayers \in Nat \ {0}
    /\ InFlightLimit \in Nat \ {0}
    /\ MaxRound \in Nat \ {0}

VARIABLES
    members,     \* the committed HOST and PLAYER memberships
    turn,        \* the turn fields of scene.metadata, as committed
    inFlight,    \* inFlight[u]: u's accepted actions whose job is not over
    doubled,     \* history: users with an action in flight beside another one, or beside
                 \* its own earlier run
    tx,          \* tx[u]: the transaction that resolves an action of u
    joining,     \* users past the checks of joinCampaignByCode
    removing,    \* users past the checks of removeCampaignMember
    switching,   \* the mode setTurnMode has written and not yet logged, or "none"
    logEnd,      \* whether the end of the log that setTurnMode has read is still its end
    switchLost   \* history: a resolution has overwritten a mode it had not seen

actionVars == <<inFlight, doubled>>

switchVars == <<switching, logEnd, switchLost>>

vars == <<members, turn, actionVars, tx, joining, removing, switchVars>>

Modes == {"free", "rounds"}

Turn == [turnMode : Modes, round : Nat \ {0}, acted : SUBSET Users]

NewTurn(mode) == [turnMode |-> mode, round |-> 1, acted |-> {}]

TypeOK ==
    /\ members \in SUBSET Users
    /\ turn \in Turn
    /\ inFlight \in [Users -> 0..InFlightLimit]
    /\ doubled \in SUBSET Users
    /\ tx \in [Users -> [step : {"none", "appended", "read", "written"}, turn : Turn,
                      overtaken : BOOLEAN]]
    /\ joining \in SUBSET Guests
    /\ removing \in SUBSET Guests
    /\ switching \in Modes \cup {"none"}
    /\ logEnd \in {"unread", "current", "stale"}
    /\ switchLost \in BOOLEAN

\* overtaken: setTurnMode has written since the transaction read.
NoTx == [step |-> "none", turn |-> NewTurn("free"), overtaken |-> FALSE]

Init ==
    /\ members = {Host}
    /\ turn = NewTurn("free")
    /\ inFlight = [u \in Users |-> 0]
    /\ doubled = {}
    /\ tx = [u \in Users |-> NoTx]
    /\ joining = {}
    /\ removing = {}
    /\ switching = "none"
    /\ logEnd = "unread"
    /\ switchLost = FALSE

--------------------------------------------------------------------------------
\* No transaction holds uncommitted events (EventLog's OneWriter).
LogIsFree == \A u \in Users : tx[u].step = "none"

\* An UPDATE of the scene row waits for a transaction that has updated it.
SceneIsFree == \A u \in Users : ~(tx[u].step = "written" /\ tx[u].turn.turnMode = "rounds")

\* assertMayActThisRound.
MayAct(u) == turn.turnMode = "rounds" => u \notin turn.acted

\* A player's action is accepted.
Accept(u) ==
    /\ inFlight' = [inFlight EXCEPT ![u] = @ + 1]
    /\ doubled' = IF inFlight[u] > 0 THEN doubled \cup {u} ELSE doubled

\* Mutant: the gate on submissions is forgotten.
SubmitUngated(u) ==
    /\ u \in members
    /\ inFlight[u] < InFlightLimit
    /\ Accept(u)
    /\ UNCHANGED <<members, turn, tx, joining, removing, switchVars>>

\* submitActionIntent accepts an action of u.  The reservation does not keep it to
\* one: it runs out after 30 s, is given back before a retry, and two submissions
\* can pass it at once (ActionPipeline).
Submit(u) ==
    /\ u \in members
    /\ inFlight[u] < InFlightLimit
    /\ MayAct(u)
    /\ Accept(u)
    /\ UNCHANGED <<members, turn, tx, joining, removing, switchVars>>

\* Mutant: a log without its unique index lets transactions overlap.
BeginResolutionAnyTime(u) ==
    /\ inFlight[u] > 0
    /\ tx[u].step = "none"
    /\ tx' = [tx EXCEPT ![u].step = "appended"]
    /\ UNCHANGED <<members, turn, actionVars, joining, removing, switchVars>>

\* The transaction of resolveActionIntent appends "action.submitted".  Membership
\* was checked before the AI was asked; nothing checks it, or the round, again.
BeginResolution(u) ==
    /\ inFlight[u] > 0
    /\ LogIsFree
    /\ tx' = [tx EXCEPT ![u].step = "appended"]
    /\ UNCHANGED <<members, turn, actionVars, joining, removing, switchVars>>

\* recordTurnAction reads the scene.  (MaxRound bounds the exploration here.)
ReadTurn(u) ==
    /\ tx[u].step = "appended"
    /\ turn.round < MaxRound
    /\ tx' = [tx EXCEPT ![u].step = "read", ![u].turn = turn]
    /\ UNCHANGED <<members, turn, actionVars, joining, removing, switchVars>>

\* What recordTurnAction makes of turn t for an action of u, with the members
\* committed by now.
TurnRecorded(t, u) ==
    LET acted == t.acted \cup {u}
    IN  IF members \subseteq acted
        THEN [t EXCEPT !.round = @ + 1, !.acted = {}]
        ELSE [t EXCEPT !.acted = acted]

\* recordTurnAction writes the scene's metadata as a whole.
WriteTurn(u) ==
    /\ tx[u].step = "read"
    /\ tx[u].turn.turnMode = "rounds" => SceneIsFree
    /\ LET t == tx[u].turn
       IN  tx' = [tx EXCEPT ![u].step = "written",
                            ![u].turn = IF t.turnMode = "rounds" THEN TurnRecorded(t, u) ELSE t]
    /\ UNCHANGED <<members, turn, actionVars, joining, removing, switchVars>>

EndAction(u) ==
    /\ inFlight' = [inFlight EXCEPT ![u] = @ - 1]
    /\ doubled' = IF inFlight[u] = 1 THEN doubled \ {u} ELSE doubled

\* The run is interrupted after its commit and before the row is COMPLETED: the job
\* runs again and applies the same action once more (ActionPipeline's late).
RunsAgain(u) ==
    /\ doubled' = doubled \cup {u}
    /\ UNCHANGED inFlight

\* A transaction commits its events: the log goes on.
LogGrows == logEnd' = IF logEnd = "current" THEN "stale" ELSE logEnd

\* In free mode recordTurnAction wrote nothing.
CommitResolution(u) ==
    /\ tx[u].step = "written"
    /\ IF tx[u].turn.turnMode = "rounds"
       THEN turn' = tx[u].turn /\ switchLost' = (switchLost \/ tx[u].overtaken)
       ELSE UNCHANGED <<turn, switchLost>>
    /\ tx' = [tx EXCEPT ![u] = NoTx]
    /\ EndAction(u) \/ RunsAgain(u)
    /\ LogGrows
    /\ UNCHANGED <<members, joining, removing, switching>>

\* The transaction rolls back; the job may run again.
RollbackResolution(u) ==
    /\ tx[u].step # "none"
    /\ tx' = [tx EXCEPT ![u] = NoTx]
    /\ UNCHANGED <<members, turn, actionVars, joining, removing, switchVars>>

\* Mutant: a job is given up while its transaction goes on.
ActionFailsAnyTime(u) ==
    /\ inFlight[u] > 0
    /\ EndAction(u)
    /\ UNCHANGED <<members, turn, tx, joining, removing, switchVars>>

\* The job fails for good: the attempts are used up, or u is no longer a member.
ActionFails(u) ==
    /\ inFlight[u] > 0
    /\ tx[u].step = "none"
    /\ EndAction(u)
    /\ UNCHANGED <<members, turn, tx, joining, removing, switchVars>>

--------------------------------------------------------------------------------
(* setTurnMode: an UPDATE, then an append outside any transaction. *)

SwitchMode(mode) ==
    /\ switching = "none"
    /\ SceneIsFree
    /\ turn' = NewTurn(mode)
    /\ switching' = mode
    /\ logEnd' = "unread"
    /\ tx' = [u \in Users |-> [tx[u] EXCEPT !.overtaken = tx[u].step = "read"]]
    /\ UNCHANGED <<members, actionVars, joining, removing, switchLost>>

\* appendCampaignEvent asks for the last sequence that is committed.
ReadLogEnd ==
    /\ switching # "none"
    /\ logEnd = "unread"
    /\ logEnd' = "current"
    /\ UNCHANGED <<members, turn, actionVars, tx, joining, removing, switching, switchLost>>

SwitchEnds ==
    /\ switching' = "none"
    /\ logEnd' = "unread"
    /\ UNCHANGED <<members, turn, actionVars, tx, joining, removing, switchLost>>

\* "turn.mode_changed" takes the next one: it waits for a transaction that has it.
LogSwitch ==
    /\ switching # "none"
    /\ logEnd = "current"
    /\ LogIsFree
    /\ SwitchEnds

\* That sequence has been committed meanwhile: setTurnMode throws, the mode stays.
LogSwitchFails ==
    /\ switching # "none"
    /\ logEnd = "stale"
    /\ SwitchEnds

--------------------------------------------------------------------------------
(* Membership. *)

\* The checks of joinCampaignByCode, before its transaction.
CheckJoin(u) ==
    /\ u \notin members \cup joining
    /\ Cardinality(members) < MaxPlayers
    /\ joining' = joining \cup {u}
    /\ UNCHANGED <<members, turn, actionVars, tx, removing, switchVars>>

\* Mutant: "member.joined" is logged after the transaction, which then meets no other.
CommitJoinAnyTime(u) ==
    /\ u \in joining
    /\ u \notin members
    /\ members' = members \cup {u}
    /\ joining' = joining \ {u}
    /\ LogGrows
    /\ UNCHANGED <<turn, actionVars, tx, removing, switching, switchLost>>

CommitJoin(u) ==
    /\ u \in joining
    /\ u \notin members
    /\ LogIsFree
    /\ members' = members \cup {u}
    /\ joining' = joining \ {u}
    /\ LogGrows
    /\ UNCHANGED <<turn, actionVars, tx, removing, switching, switchLost>>

\* "member.joined" collides with another transaction's event.
JoinFails(u) ==
    /\ u \in joining
    /\ joining' = joining \ {u}
    /\ UNCHANGED <<members, turn, actionVars, tx, removing, switchVars>>

CheckRemove(u) ==
    /\ u \in members \ removing
    /\ u # Host
    /\ removing' = removing \cup {u}
    /\ UNCHANGED <<members, turn, actionVars, tx, joining, switchVars>>

\* Mutant: "member.removed" is logged after the transaction, which then meets no other.
CommitRemoveAnyTime(u) ==
    /\ u \in removing
    /\ u \in members
    /\ members' = members \ {u}
    /\ removing' = removing \ {u}
    /\ LogGrows
    /\ UNCHANGED <<turn, actionVars, tx, joining, switching, switchLost>>

\* The round is not looked at.
CommitRemove(u) ==
    /\ u \in removing
    /\ u \in members
    /\ LogIsFree
    /\ members' = members \ {u}
    /\ removing' = removing \ {u}
    /\ LogGrows
    /\ UNCHANGED <<turn, actionVars, tx, joining, switching, switchLost>>

RemoveFails(u) ==
    /\ u \in removing
    /\ removing' = removing \ {u}
    /\ UNCHANGED <<members, turn, actionVars, tx, joining, switchVars>>

--------------------------------------------------------------------------------
Resolve(u) ==
    \/ BeginResolution(u) \/ ReadTurn(u) \/ WriteTurn(u) \/ CommitResolution(u)
    \/ RollbackResolution(u) \/ ActionFails(u)

HostActs ==
    \/ \E mode \in Modes : SwitchMode(mode)
    \/ ReadLogEnd \/ LogSwitch \/ LogSwitchFails
    \/ \E u \in Guests : CheckRemove(u) \/ CommitRemove(u) \/ RemoveFails(u)

Next ==
    \/ \E u \in Users : Submit(u) \/ Resolve(u)
    \/ HostActs
    \/ \E u \in Guests : CheckJoin(u) \/ CommitJoin(u) \/ JoinFails(u)

Spec == Init /\ [][Next]_vars

--------------------------------------------------------------------------------
\* In rounds mode, everybody who is expected to act has acted.
Stalled == turn.turnMode = "rounds" /\ members \subseteq turn.acted

(* OnlyDoublesActTwice: no resolution ends with an action recorded of a player  *)
(* who has already acted in the round, unless he has had two actions in flight  *)
(* at once, or the same one is run again after it was committed, or a switch of *)
(* mode has been overwritten.  Only the submission looks at the round, which may*)
(* move on before the action is resolved; recordTurnAction does not look again. *)
OnlyDoublesActTwice ==
    [][\A u \in Users :
          /\ tx[u].step = "written" /\ tx'[u].step = "none"
          /\ tx[u].turn.turnMode = "rounds" /\ turn.turnMode = "rounds"
          /\ u \in turn.acted
          => u \in doubled \/ switchLost']_vars

\* A step that leaves the table in rounds mode without a setTurnMode.
PlayersMoveTheRound ==
    /\ turn.turnMode = "rounds" /\ turn'.turnMode = "rounds"
    /\ switching' = switching
    /\ ~switchLost'

(* NoLostTurn: no commit drops a player who has acted in the round, and a round *)
(* is left for the next one, with the action of its last expected player by the *)
(* memberships committed at that moment.  The read-modify-write of the scene's  *)
(* metadata has no lock of its own, and the members are read on another         *)
(* connection than the transaction's (turns.ts:135); that the transaction       *)
(* appends an event first protects both from the other resolutions, the joins   *)
(* and the removals, and nothing protects it from setTurnMode.                  *)
NoLostTurn ==
    [][PlayersMoveTheRound =>
          \/ turn'.round = turn.round /\ turn.acted \subseteq turn'.acted
          \/ /\ turn'.round = turn.round + 1
             /\ \E u \in Users : members \subseteq turn.acted \cup {u}]_vars

(* OnlyDeparturesStall: only the removal of a member, or an overwritten switch, *)
(* can leave a round with nobody to wait for and nobody allowed to act.         *)
OnlyDeparturesStall ==
    [][~Stalled /\ Stalled' /\ ~switchLost'
          => members' \subseteq members /\ members' # members]_vars

\* What the resolution that setTurnMode has overtaken would write, if there is one.
OvertakenTurns ==
    {IF tx[u].step = "read" THEN TurnRecorded(tx[u].turn, u) ELSE tx[u].turn :
        u \in {v \in Users : /\ tx[v].step \in {"read", "written"}
                             /\ tx[v].overtaken
                             /\ tx[v].turn.turnMode = "rounds"}}

TableView == INSTANCE Table WITH undo <- OvertakenTurns

(* ImplementsTable: although a resolution reads the scene, the memberships and  *)
(* the scene again in statements of their own, what the players see is one game *)
(* move after the other, and an overwritten switch costs no more than that: the *)
(* overtaken action is recorded in the turn it has read.                        *)
ImplementsTable == TableView!Spec

(* RoundsAdvance: a round whose expected players have all acted has advanced    *)
(* ("auto-advance when all HOST/PLAYER members have acted", BACKLOG.md:55).     *)
RoundsAdvance == ~Stalled

(* OnlyTheHostSwitches: the turn mode changes by setTurnMode alone              *)
(* ("Host-only: switch a scene between free-form and round-based turns",        *)
(* packages/domain/src/turns.ts:67).                                            *)
OnlyTheHostSwitches ==
    [][turn'.turnMode # turn.turnMode => switching' = turn'.turnMode]_vars
================================================================================
