----------------------------- MODULE BrowserSession -----------------------------
(* One player's browser on the play page: useRealtimeCampaign and the composer  *)
(* (apps/web/src/hooks/use-realtime-campaign.ts, components/scene-panel.tsx),   *)
(* the RealtimeClient under it, and the service it talks to (Gateway).          *)
(*                                                                              *)
(* What the other components decide is a choice here: whether a submission is   *)
(* accepted, whether its resolution commits, when it is published.              *)
(*                                                                              *)
(* Of what a resolution changes the page's markers are followed: one of them,   *)
(* which every resolution moves, stands for all.  A campaign that can be played *)
(* has its host's marker, so no list of them is ever empty.  The narration and  *)
(* what is fetched again because of it are PlayPage's subject.                  *)
EXTENDS Gateway, FiniteSets

CONSTANTS
    Own,            \* actions this player submits
    Foreign,        \* actions of other players, in resolution from the start
    Modes,          \* the deployments to consider, a subset of AllModes
    NoConn,         \* the client has no socket
    MaxEchoes       \* further copies of broadcasts that are delivered at most

Requests == Own \cup Foreign

\* The effect of the hook runs when the page opens and again when the campaign's
\* scene is known, since connect depends on the scene.  Connection e is the one
\* whose socket effect e opens.
Effects == {1, 2}

AllModes == {"rest", "worker", "inline"}

ASSUME SessionAssumption ==
    /\ Conns = Effects
    /\ IsFiniteSet(Own) /\ IsFiniteSet(Foreign)
    /\ Own \cap Foreign = {}
    /\ NoConn \notin Conns
    /\ Modes \subseteq AllModes
    /\ MaxEchoes \in Nat
    /\ MaxInbox \in Nat \ {0}

VARIABLES
    mode,           \* the deployment; "rest" has no NEXT_PUBLIC_REALTIME_URL
    page,           \* whether the page is open, left, or crashed in a cleanup
    sceneKnown,     \* which effect is the current one
    conn,           \* conn[e]: how far connect() of effect e has come
    sock,           \* sock[c]: the state of a Socket.IO client socket
    cur,            \* the socket the RealtimeClient holds
    connected,      \* the hook's two flags
    connecting,
    status,         \* actionStatus
    watchdog,       \* the 180 s timer is armed
    asked,          \* asked[e]: how far presence:join and catch-up of e have come
    askedOn,        \* askedOn[e]: the connection that they went over
    snapshot,       \* snapshot[e]: the version its catch-up has read
    server,         \* server[r]: how far request r has come
    via,            \* via[r]: the connection its status messages go to
    version,        \* resolutions committed so far: each moves the marker
    seq,            \* seq[r]: the version that r's resolution produced
    echoes,         \* copies of broadcasts sent after the first
    view,           \* the version of the markers that the page shows
    overtaken       \* history: a packet followed one of a newer version

pageVars == <<page, sceneKnown, conn, sock, cur, connected, connecting>>
composerVars == <<status, watchdog>>
serviceVars == <<asked, askedOn, snapshot, server, via, version, seq, echoes>>
viewVars == <<view, overtaken>>

vars == <<mode, pageVars, composerVars, serviceVars, viewVars, gatewayVars>>

\* "loading" is received, queued or processing: all lock the composer.
Statuses == {"loading", "completed"}

Messages ==
    [type : {"status"}, status : Statuses] \cup [type : {"resolved", "token", "state"}, version : Nat]

\* How far a request has come: heard of, accepted, committed; told, resolved and
\* published name the last packet of its result that was sent.
Stages == {"unsent", "sent", "heard", "queued", "committed", "told", "resolved", "published",
           "dropped"}

TypeOK ==
    /\ mode \in Modes
    /\ page \in {"open", "left", "crashed"}
    /\ sceneKnown \in BOOLEAN
    /\ conn \in [Effects -> {"idle", "fetching", "polling", "over"}]
    /\ sock \in [Conns -> {"new", "connecting", "up", "lost", "closed"}]
    /\ cur \in Conns \cup {NoConn}
    /\ connected \in BOOLEAN
    /\ connecting \in BOOLEAN
    /\ status \in Statuses \cup {"null"}
    /\ watchdog \in BOOLEAN
    /\ asked \in [Effects -> {"no", "sent", "joined", "read", "answered", "lost"}]
    /\ askedOn \in [Effects -> Conns \cup {NoConn}]
    /\ snapshot \in [Effects -> 0..version]
    /\ server \in [Requests -> Stages]
    /\ via \in [Requests -> Conns \cup {NoConn}]
    /\ version \in 0..Cardinality(Requests)
    /\ seq \in [Requests -> 0..version]
    /\ echoes \in 0..MaxEchoes
    /\ view \in 0..version
    /\ overtaken \in BOOLEAN
    /\ joined \subseteq Conns
    /\ inbox \in [Conns -> Seq(Messages)]

--------------------------------------------------------------------------------
Realtime == mode # "rest"

\* RealtimeClient.connected
ClientConnected == cur # NoConn /\ sock[cur] = "up"

Loading == status = "loading"

StatusMsg(s) == [type |-> "status", status |-> s]

ResolvedMsg(r) == [type |-> "resolved", version |-> seq[r]]

TokenMsg(r) == [type |-> "token", version |-> seq[r]]

StateMsg(v) == [type |-> "state", version |-> v]

\* action:resolved of r has been sent.
ResultIsOut(r) == server[r] \in {"resolved", "published"}

\* A packet of version v follows a newer one to the page that c is the connection of.
Overtakes(c, v) ==
    \/ view > v
    \/ \E i \in DOMAIN inbox[c] : inbox[c][i].type # "status" /\ inbox[c][i].version > v

Init ==
    /\ mode \in Modes
    /\ page = "open"
    /\ sceneKnown = FALSE
    /\ conn = [e \in Effects |-> IF e = 1 /\ Realtime THEN "fetching" ELSE "idle"]
    /\ sock = [c \in Conns |-> "new"]
    /\ cur = NoConn
    /\ connected = ~Realtime
    /\ connecting = Realtime
    /\ status = "null"
    /\ watchdog = FALSE
    /\ asked = [e \in Effects |-> "no"]
    /\ askedOn = [e \in Effects |-> NoConn]
    /\ snapshot = [e \in Effects |-> 0]
    /\ server = [r \in Requests |-> IF r \in Own THEN "unsent" ELSE "queued"]
    /\ via = [r \in Requests |-> NoConn]
    /\ version = 0
    /\ seq = [r \in Requests |-> 0]
    /\ echoes = 0
    /\ view = 0
    /\ overtaken = FALSE
    /\ GatewayInit

--------------------------------------------------------------------------------
(* Connecting. *)

\* The token arrives and RealtimeClient.connect opens a socket unless the client
\* is connected.  Nothing stops this when the effect has been cleaned up.
TokenArrives(e) ==
    /\ conn[e] = "fetching"
    /\ conn' = [conn EXCEPT ![e] = "polling"]
    /\ \/ /\ ClientConnected
          /\ UNCHANGED <<sock, cur>>
       \/ /\ ~ClientConnected
          /\ sock' = [sock EXCEPT ![e] = "connecting"]
          /\ cur' = e
    /\ UNCHANGED <<mode, page, sceneKnown, connected, connecting, composerVars, serviceVars,
                   viewVars, gatewayVars>>

\* connect() returns without a word: "connecting" stays.
TokenFails(e) ==
    /\ conn[e] = "fetching"
    /\ conn' = [conn EXCEPT ![e] = "idle"]
    /\ UNCHANGED <<mode, page, sceneKnown, sock, cur, connected, connecting, composerVars,
                   serviceVars, viewVars, gatewayVars>>

SocketConnects(c) ==
    /\ sock[c] = "connecting"
    /\ sock' = [sock EXCEPT ![c] = "up"]
    /\ UNCHANGED <<mode, page, sceneKnown, conn, cur, connected, connecting, composerVars,
                   serviceVars, viewVars, gatewayVars>>

\* Mutant: the page asks for the catch-up only.
OnConnectCatchesUpOnly(e) ==
    /\ conn[e] = "polling"
    /\ ClientConnected
    /\ conn' = [conn EXCEPT ![e] = "over"]
    /\ connected' = TRUE
    /\ connecting' = FALSE
    /\ asked' = [asked EXCEPT ![e] = "joined"]
    /\ askedOn' = [askedOn EXCEPT ![e] = cur]
    /\ UNCHANGED <<mode, page, sceneKnown, sock, cur, composerVars, snapshot, server, via,
                   version, seq, echoes, viewVars, gatewayVars>>

\* The poll of effect e finds the client connected and stops: presence:join and
\* catch-up:request leave together.  The poll outlives its effect.
OnConnect(e) ==
    /\ conn[e] = "polling"
    /\ ClientConnected
    /\ conn' = [conn EXCEPT ![e] = "over"]
    /\ connected' = TRUE
    /\ connecting' = FALSE
    /\ asked' = [asked EXCEPT ![e] = "sent"]
    /\ askedOn' = [askedOn EXCEPT ![e] = cur]
    /\ UNCHANGED <<mode, page, sceneKnown, sock, cur, composerVars, snapshot, server, via,
                   version, seq, echoes, viewVars, gatewayVars>>

--------------------------------------------------------------------------------
(* The page goes, or its effect runs again. *)

\* Connection c is over, what was asked over it void.
LoseAnswers(c) ==
    /\ asked' = [e \in Effects |-> IF askedOn[e] = c THEN "lost" ELSE asked[e]]
    /\ snapshot' = [e \in Effects |-> IF askedOn[e] = c THEN 0 ELSE snapshot[e]]
    /\ via' = [r \in Requests |-> IF via[r] = c THEN NoConn ELSE via[r]]

\* Mutant: send on a client that is not connected does nothing.
SendIsSilent == FALSE

\* The cleanup of the effect: handlers off, presence:leave, disconnect.
\* RealtimeClient.send throws when the client is not connected.
CleanupThrows == Realtime /\ ~ClientConnected

Crash ==
    /\ page' = "crashed"
    /\ UNCHANGED <<sceneKnown, conn, sock, cur, connected, connecting, asked, snapshot, via,
                   gatewayVars>>

Disconnect ==
    /\ cur' = NoConn
    /\ \/ /\ Realtime
          /\ sock' = [sock EXCEPT ![cur] = "closed"]
          /\ LoseAnswers(cur)
          /\ Forget(cur)
       \/ /\ ~Realtime
          /\ UNCHANGED <<sock, asked, snapshot, via, gatewayVars>>

cleanupRest == <<mode, composerVars, askedOn, server, version, seq, echoes, viewVars>>

\* loadCampaign has told the scene: a new connect, so the effect runs again.
SceneKnown ==
    /\ page = "open"
    /\ ~sceneKnown
    /\ \/ /\ CleanupThrows
          /\ Crash
       \/ /\ ~CleanupThrows
          /\ Disconnect
          /\ sceneKnown' = TRUE
          /\ conn' = [conn EXCEPT ![2] = IF Realtime THEN "fetching" ELSE "idle"]
          /\ connected' = ~Realtime
          /\ connecting' = Realtime
          /\ UNCHANGED page
    /\ UNCHANGED cleanupRest

LeavePage ==
    /\ page = "open"
    /\ \/ /\ CleanupThrows
          /\ Crash
       \/ /\ ~CleanupThrows
          /\ Disconnect
          /\ page' = "left"
          /\ UNCHANGED <<sceneKnown, conn, connected, connecting>>
    /\ UNCHANGED cleanupRest

--------------------------------------------------------------------------------
(* The link. *)

linkRest == <<mode, page, sceneKnown, conn, cur, connected, connecting, composerVars, askedOn,
              version, seq, echoes, viewVars>>

\* The link of c is lost.  What the client had sent and the service has not seen
\* is lost; what is sent to c is kept for two minutes (connectionStateRecovery).
LinkDrops(c) ==
    /\ sock[c] = "up"
    /\ sock' = [sock EXCEPT ![c] = "lost"]
    /\ server' = [r \in Requests |->
                    IF server[r] = "sent" /\ via[r] = c THEN "dropped" ELSE server[r]]
    /\ asked' = [e \in Effects |->
                    IF asked[e] = "sent" /\ askedOn[e] = c THEN "lost" ELSE asked[e]]
    /\ UNCHANGED <<linkRest, snapshot, via, gatewayVars>>

\* A reconnect within the two minutes: the same rooms, the missed packets.
Recovers(c) ==
    /\ sock[c] = "lost"
    /\ sock' = [sock EXCEPT ![c] = "up"]
    /\ UNCHANGED <<linkRest, server, asked, snapshot, via, gatewayVars>>

\* A later one: a connection like new, for which nobody sends presence:join.
ReconnectsAnew(c) ==
    /\ sock[c] = "lost"
    /\ sock' = [sock EXCEPT ![c] = "up"]
    /\ LoseAnswers(c)
    /\ Forget(c)
    /\ UNCHANGED <<linkRest, server>>

\* The service process ends, which the disconnect of any browser makes it do.
\* Its handlers end with it, and so do the sessions of those still connected.
InstanceDies ==
    /\ \E c \in Conns : sock[c] = "up"
    /\ sock' = [c \in Conns |-> IF sock[c] = "up" THEN "lost" ELSE sock[c]]
    /\ server' = [r \in Requests |->
                    IF \/ server[r] \in {"sent", "heard"}
                       \/ mode = "inline" /\ r \in Own /\ server[r] \in {"queued", "committed", "resolved"}
                    THEN "dropped"
                    ELSE server[r]]
    /\ asked' = [e \in Effects |-> IF asked[e] = "no" THEN "no" ELSE "lost"]
    /\ snapshot' = [e \in Effects |-> 0]
    /\ via' = [r \in Requests |-> NoConn]
    /\ joined' = {c \in joined : sock[c] # "up"}
    /\ inbox' = [c \in Conns |-> IF sock[c] = "up" THEN << >> ELSE inbox[c]]
    /\ UNCHANGED linkRest

--------------------------------------------------------------------------------
(* presence:join and catch-up:request at the service. *)

askRest == <<mode, pageVars, composerVars, askedOn, server, via, version, seq, echoes>>

JoinArrives(e) ==
    /\ asked[e] = "sent"
    /\ asked' = [asked EXCEPT ![e] = "joined"]
    /\ Join(askedOn[e])
    /\ UNCHANGED <<askRest, snapshot, viewVars, inbox>>

\* buildCatchUpState reads the markers and the events.
ReadCatchUp(e) ==
    /\ asked[e] = "joined"
    /\ asked' = [asked EXCEPT ![e] = "read"]
    /\ snapshot' = [snapshot EXCEPT ![e] = version]
    /\ UNCHANGED <<askRest, viewVars, gatewayVars>>

\* The read rejects: CATCHUP_FAILED, which no page listens to.
CatchUpFails(e) ==
    /\ asked[e] = "joined"
    /\ asked' = [asked EXCEPT ![e] = "lost"]
    /\ UNCHANGED <<askRest, snapshot, viewVars, gatewayVars>>

SendCatchUp(e) ==
    /\ asked[e] = "read"
    /\ asked' = [asked EXCEPT ![e] = "answered"]
    /\ SendTo(askedOn[e], StateMsg(snapshot[e]))
    /\ snapshot' = [snapshot EXCEPT ![e] = 0]
    /\ overtaken' = (overtaken \/ Overtakes(askedOn[e], snapshot[e]))
    /\ UNCHANGED <<askRest, view, joined>>

--------------------------------------------------------------------------------
(* The composer. *)

SetStatus(s) == status' = s

composerRest == <<mode, pageVars, asked, askedOn, snapshot, version, seq, echoes,
                  gatewayVars>>

\* handleSubmit and submitAction: the timer first, then the packet.
Submit(r) ==
    /\ page = "open"
    /\ ~Loading
    /\ ~connecting
    /\ server[r] = "unsent"
    /\ watchdog' = TRUE
    /\ \/ /\ ClientConnected
          /\ server' = [server EXCEPT ![r] = "sent"]
          /\ via' = [via EXCEPT ![r] = cur]
          /\ SetStatus("loading")
       \/ /\ Realtime
          /\ ~ClientConnected   \* send throws; "connected" still says Live
          /\ UNCHANGED <<server, via, status>>
       \/ /\ ~Realtime
          /\ server' = [server EXCEPT ![r] = "sent"]
          /\ SetStatus("loading")
          /\ UNCHANGED via
    /\ UNCHANGED <<composerRest, viewVars>>

\* submitActionRest: the answer, with the markers as they are then.
RestAnswers(r) ==
    /\ ~Realtime
    /\ server[r] = "sent"
    /\ server' = [server EXCEPT ![r] = "published"]
    /\ version' = version + 1
    /\ seq' = [seq EXCEPT ![r] = version + 1]
    /\ view' = version + 1
    /\ SetStatus("completed")
    /\ watchdog' = FALSE
    /\ UNCHANGED <<mode, pageVars, asked, askedOn, snapshot, via, echoes,
                   overtaken, gatewayVars>>

\* An error, or the 170 s are over, whatever becomes of the action.
RestFails(r) ==
    /\ ~Realtime
    /\ server[r] = "sent"
    /\ \E late \in BOOLEAN :
          /\ server' = [server EXCEPT ![r] = IF late THEN "published" ELSE "dropped"]
          /\ version' = IF late THEN version + 1 ELSE version
          /\ seq' = [seq EXCEPT ![r] = version']
    /\ SetStatus("null")
    /\ watchdog' = FALSE
    /\ UNCHANGED <<mode, pageVars, asked, askedOn, snapshot, via, echoes,
                   viewVars, gatewayVars>>

\* Mutant: the timer does not reset the status.
WatchdogFiresQuietly ==
    /\ Realtime
    /\ watchdog
    /\ watchdog' = FALSE
    /\ UNCHANGED <<composerRest, status, server, via, viewVars>>

\* A REST request gives up 10 s before the timer.
WatchdogFires ==
    /\ Realtime
    /\ watchdog
    /\ watchdog' = FALSE
    /\ SetStatus("null")
    /\ UNCHANGED <<composerRest, server, via, viewVars>>

--------------------------------------------------------------------------------
(* action:submit at the service, and what becomes of it. *)

actionRest == <<mode, pageVars, composerVars, asked, askedOn, snapshot, via, view,
                joined>>

Tell(r, m) ==
    IF via[r] = NoConn THEN UNCHANGED inbox ELSE SendTo(via[r], m)

\* "received" is said at once.
Hear(r) ==
    /\ Realtime
    /\ server[r] = "sent"
    /\ server' = [server EXCEPT ![r] = "heard"]
    /\ Tell(r, StatusMsg("loading"))
    /\ UNCHANGED <<actionRest, version, seq, echoes, overtaken>>

\* submitActionIntent accepts: "queued" is said, and in the same breath "processing" by
\* an instance that resolves inline.  When the resolution fails for good the action
\* stays queued here: no page is told more.
Accept(r) ==
    /\ server[r] = "heard"
    /\ server' = [server EXCEPT ![r] = "queued"]
    /\ Tell(r, StatusMsg("loading"))
    /\ UNCHANGED <<actionRest, version, seq, echoes, overtaken>>

\* It refuses, with an "error" packet, which no page listens to.
Refuse(r) ==
    /\ server[r] = "heard"
    /\ server' = [server EXCEPT ![r] = "dropped"]
    /\ UNCHANGED <<actionRest, version, seq, echoes, overtaken, inbox>>

\* Mutant: a job that is delivered twice resolves twice.
CommitLeavesJob(r) ==
    /\ server[r] = "queued"
    /\ version' = version + 1
    /\ seq' = [seq EXCEPT ![r] = version + 1]
    /\ UNCHANGED <<actionRest, server, echoes, overtaken, inbox>>

Commit(r) ==
    /\ server[r] = "queued"
    /\ server' = [server EXCEPT ![r] = "committed"]
    /\ version' = version + 1
    /\ seq' = [seq EXCEPT ![r] = version + 1]
    /\ UNCHANGED <<actionRest, echoes, overtaken, inbox>>

\* Every connection of the campaign's room gets the packet, and perhaps late.
Announce(m) ==
    /\ Broadcast(m)
    /\ overtaken' = \/ overtaken
                    \/ /\ m.type # "status"
                       /\ \E c \in joined : Overtakes(c, m.version)

\* The worker's own publication, or publishConfirmedAction: every packet is awaited,
\* and when one fails those after it are never sent.
PublishStep(r, from, to, m) ==
    /\ server[r] = from
    /\ server' = [server EXCEPT ![r] = to]
    /\ Announce(m)
    /\ UNCHANGED <<actionRest, version, seq, echoes>>

PublishStatus(r) ==
    /\ mode = "worker"
    /\ PublishStep(r, "committed", "told", StatusMsg("completed"))

PublishResult(r) ==
    PublishStep(r, IF mode = "worker" THEN "told" ELSE "committed", "resolved", ResolvedMsg(r))

\* map:token-moved of the marker.  The event log's own packet has no listener.
PublishToken(r) == PublishStep(r, "resolved", "published", TokenMsg(r))

\* What has been published of r.
Published(r) ==
    {m \in {StatusMsg("completed"), ResolvedMsg(r), TokenMsg(r)} :
        \/ m.type = "status" /\ mode = "worker" /\ (server[r] = "told" \/ ResultIsOut(r))
        \/ m.type = "resolved" /\ ResultIsOut(r)
        \/ m.type = "token" /\ server[r] = "published"}

\* Another copy: one per room, and one per instance that hears the fan-out.
Echo(r) ==
    /\ Realtime
    /\ echoes < MaxEchoes
    /\ echoes' = echoes + 1
    /\ \E m \in Published(r) : Announce(m)
    /\ UNCHANGED <<actionRest, server, version, seq>>

--------------------------------------------------------------------------------
(* A packet reaches the browser. *)

\* Mutant: the catch-up's markers are not taken.
HandleWithoutCatchUp(m) ==
    \/ /\ m.type = "status"
       /\ SetStatus(m.status)
       /\ UNCHANGED <<watchdog, view>>
    \/ /\ m.type = "resolved"
       /\ watchdog' = FALSE
       /\ view' = m.version
       /\ SetStatus("completed")
    \/ /\ m.type = "token"
       /\ view' = m.version
       /\ UNCHANGED composerVars
    \/ /\ m.type = "state"
       /\ UNCHANGED <<composerVars, view>>

\* The handlers of the hook.  Of the catch-up's state only the markers are taken.
Handle(m) ==
    \/ /\ m.type = "status"
       /\ SetStatus(m.status)
       /\ UNCHANGED <<watchdog, view>>
    \/ /\ m.type = "resolved"
       /\ watchdog' = FALSE
       /\ view' = m.version
       /\ SetStatus("completed")
    \/ /\ m.type \in {"token", "state"}
       /\ view' = m.version
       /\ UNCHANGED composerVars

\* dispatch
Receive(c) ==
    /\ sock[c] = "up"
    /\ inbox[c] # << >>
    /\ inbox' = [inbox EXCEPT ![c] = Tail(@)]
    /\ Handle(Head(inbox[c]))
    /\ UNCHANGED <<mode, pageVars, serviceVars, overtaken, joined>>

--------------------------------------------------------------------------------
\* What is left of a page that is gone is not followed further.
Next ==
    /\ page = "open"
    /\ \/ \E e \in Effects :
             \/ TokenArrives(e) \/ TokenFails(e) \/ OnConnect(e)
             \/ JoinArrives(e) \/ ReadCatchUp(e) \/ CatchUpFails(e) \/ SendCatchUp(e)
       \/ \E c \in Conns :
             \/ SocketConnects(c) \/ LinkDrops(c) \/ Recovers(c) \/ ReconnectsAnew(c)
             \/ Receive(c)
       \/ \E r \in Requests :
             \/ Hear(r) \/ Accept(r) \/ Refuse(r) \/ Commit(r)
             \/ PublishStatus(r) \/ PublishResult(r) \/ PublishToken(r) \/ Echo(r)
       \/ \E r \in Own : Submit(r) \/ RestAnswers(r) \/ RestFails(r)
       \/ SceneKnown \/ LeavePage \/ InstanceDies \/ WatchdogFires

\* Timers fire and a REST request ends.  Nothing else need ever happen: networks and processes may stay down.
Fairness ==
    /\ WF_vars(page = "open" /\ WatchdogFires)
    /\ \A r \in Own : WF_vars(page = "open" /\ (RestAnswers(r) \/ RestFails(r)))

Spec == Init /\ [][Next]_vars /\ Fairness

--------------------------------------------------------------------------------
(* Properties. *)

\* "Never leave the composer stuck on Resolving" (use-realtime-campaign.ts).
Stuck == page = "open" /\ Loading /\ ~watchdog

\* There is one way to get stuck: a status packet of an action whose timer is off
\* already, because it fired or because another player's resolution stopped it.
OnlyLateStatusSticks ==
    [][~Stuck /\ Stuck' =>
         /\ ~watchdog
         /\ \E c \in Conns : /\ inbox[c] # << >>
                             /\ inbox'[c] = Tail(inbox[c])
                             /\ Head(inbox[c]).type = "status"]_vars

\* The player gets the composer back after every submission, whatever is lost,
\* refused or dead on the way.
ComposerFrees == (page = "open" /\ Loading /\ watchdog) ~> (page # "open" \/ ~Loading)

\* However the effect, the token and the poll interleave, an open page never has
\* two sockets that both dispatch to its handlers, nor one it cannot close.
OneLiveSocket ==
    page = "open" =>
        \A c \in Conns : sock[c] \in {"connecting", "up", "lost"} => c = cur

\* The page says Live over a working link and gets no broadcast.
Deaf ==
    /\ page = "open"
    /\ connected
    /\ ClientConnected
    /\ cur \notin joined
    /\ ~\E e \in Effects : asked[e] = "sent" /\ askedOn[e] = cur

\* Only a link that was lost and came back leaves a page deaf.
OnlyReconnectsDeafen ==
    [][~Deaf /\ Deaf' => \E c \in Conns : sock[c] = "lost" /\ sock'[c] = "up"]_vars

\* Everything is delivered to a page that listens.
Settled ==
    /\ page = "open"
    /\ ClientConnected
    /\ cur \in joined
    /\ \E e \in Effects : askedOn[e] = cur /\ asked[e] = "answered"
    /\ inbox[cur] = << >>

\* The last resolution to commit has been broadcast.
NewestIsOut ==
    \/ version = 0
    \/ \E r \in Requests : seq[r] = version /\ ResultIsOut(r)

\* Between joining the room and reading the catch-up no movement of a marker is missed,
\* whatever is sent of earlier resolutions and whatever is not: the page ends at the
\* newest markers unless a packet of older ones was sent after newer ones.
Converges == Settled /\ NewestIsOut /\ ~overtaken => view = version
================================================================================
