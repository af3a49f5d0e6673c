-------------------------- MODULE BrowserSessionProofs --------------------------
(* Proofs about BrowserSession for any number of actions and echoes.            *)
EXTENDS BrowserSession, FiniteSetTheorems, TLAPS

--------------------------------------------------------------------------------
(* The inductive invariant.                                                     *)

\* Effect e has opened its socket, which then is the client's, or not yet.
Opened(e) ==
    IF conn[e] \in {"fetching", "idle"}
    THEN cur = NoConn /\ sock[e] = "new"
    ELSE cur = e /\ sock[e] \in {"connecting", "up", "lost"}

\* The second effect can only run when the first one's socket is up, and closes it.
SocketsInv ==
    page = "open" =>
        /\ ~Realtime => cur = NoConn /\ \A e \in Effects : conn[e] = "idle" /\ sock[e] = "new"
        /\ ~sceneKnown => Opened(1) /\ conn[2] = "idle" /\ sock[2] = "new"
        /\ sceneKnown /\ Realtime => Opened(2) /\ conn[1] # "fetching" /\ sock[1] = "closed"
        /\ Realtime /\ connected => cur # NoConn /\ sock[cur] # "connecting"

\* What was asked and not lost was asked over the client's connection, and nothing is
\* on its way over another one.
AnswersInv ==
    page = "open" =>
        /\ \A e \in Effects :
              /\ asked[e] \in {"sent", "joined", "read", "answered"} =>
                    askedOn[e] = cur /\ cur \in Conns
              /\ asked[e] \in {"joined", "read", "answered"} => cur \in joined
        /\ \A r \in Requests : via[r] \in {NoConn, cur}
        /\ \A c \in Conns \ {cur} : c \notin joined /\ inbox[c] = << >>

\* The packets of versions among those of an inbox.
VersionsIn(s) == {i \in DOMAIN s : s[i].type # "status"}

VersionsExist == \A c \in Conns : \A i \in VersionsIn(inbox[c]) : inbox[c][i].version <= version

\* Unless one has overtaken another, they come in the order of their versions.
Sorted(c) ==
    /\ \A i \in VersionsIn(inbox[c]) : view <= inbox[c][i].version
    /\ \A i, j \in VersionsIn(inbox[c]) : i < j => inbox[c][i].version <= inbox[c][j].version

OrderInv == page = "open" /\ ~overtaken => \A c \in Conns : Sorted(c)

\* The page shows v or a later version, or will.
Covered(c, v) == v <= view \/ \E i \in VersionsIn(inbox[c]) : v <= inbox[c][i].version

\* What was broadcast before the catch-up was read is in it, what was broadcast
\* after joining the room is on its way.
CoverInv ==
    page = "open" /\ ~overtaken =>
        \A e \in Effects, r \in Requests : ResultIsOut(r) =>
            /\ asked[e] = "answered" => Covered(cur, seq[r])
            /\ asked[e] = "read" => seq[r] <= snapshot[e] \/ Covered(cur, seq[r])

\* Requests that are no longer with the service.
Ended == {r \in Requests : server[r] \in {"committed", "told", "resolved", "published", "dropped"}}

VersionsCounted == version <= Cardinality(Ended)

PacketsInv ==
    /\ VersionsExist
    /\ OrderInv
    /\ CoverInv

IInv ==
    /\ TypeOK
    /\ SocketsInv
    /\ AnswersInv
    /\ PacketsInv
    /\ VersionsCounted

--------------------------------------------------------------------------------
(* RequestsFinite: so are the ended ones, of which there are no more.           *)
LEMMA RequestsFinite ==
    /\ IsFiniteSet(Requests)
    /\ IsFiniteSet(Ended)
    /\ Cardinality(Requests) \in Nat
    /\ Cardinality(Ended) \in Nat
    /\ Cardinality(Ended) <= Cardinality(Requests)
<1>1. IsFiniteSet(Requests)
  BY SessionAssumption, FS_Union DEF Requests
<1>2. Ended \in SUBSET Requests
  BY DEF Ended
<1> QED
  BY <1>1, <1>2, FS_Subset, FS_CardinalityType

(* CountGrows: a request that ends is counted, and stays so.                    *)
LEMMA CountGrows ==
    ASSUME VersionsCounted, version \in Nat, Ended \subseteq Ended',
           \/ version' = version
           \/ version' = version + 1 /\ \E r \in Requests : r \notin Ended /\ r \in Ended'
    PROVE  VersionsCounted' /\ version' <= Cardinality(Requests)
<1>1. /\ IsFiniteSet(Ended) /\ Cardinality(Ended) \in Nat /\ IsFiniteSet(Requests)
      /\ Cardinality(Requests) \in Nat
  BY RequestsFinite
<1>2. Ended' \in SUBSET Requests
  BY DEF Ended
<1>3. IsFiniteSet(Ended') /\ Cardinality(Ended') \in Nat /\ Cardinality(Ended') <= Cardinality(Requests)
  BY <1>1, <1>2, FS_Subset, FS_CardinalityType
<1>4. Cardinality(Ended) <= Cardinality(Ended')
  BY <1>3, FS_Subset
<1>5. CASE version' = version
  BY <1>1, <1>3, <1>4, <1>5 DEF VersionsCounted
<1>6. ASSUME NEW r \in Requests, version' = version + 1, r \notin Ended, r \in Ended'
      PROVE  version' <= Cardinality(Ended')
  <2>1. /\ IsFiniteSet(Ended \cup {r})
        /\ Cardinality(Ended \cup {r}) = Cardinality(Ended) + 1
    BY <1>1, <1>6, FS_AddElement
  <2>2. Ended \cup {r} \in SUBSET Ended'
    BY <1>6
  <2>3. Cardinality(Ended \cup {r}) <= Cardinality(Ended')
    BY <1>3, <2>2, FS_Subset
  <2> QED
    BY <1>1, <1>3, <1>6, <2>1, <2>3 DEF VersionsCounted
<1>7. version' <= Cardinality(Ended')
  BY <1>5, <1>6 DEF VersionsCounted
<1> QED
  BY <1>1, <1>3, <1>5, <1>6, <1>7 DEF VersionsCounted

(* InitInductive: the page has just opened.                                     *)
LEMMA InitInductive == Init => IInv
<1> SUFFICES ASSUME Init PROVE IInv
  OBVIOUS
<1> USE SessionAssumption DEF Init, GatewayInit
<1>1. TypeOK
  <2>1. 0 \in 0..version /\ version \in 0..Cardinality(Requests) /\ echoes \in 0..MaxEchoes
    BY RequestsFinite
  <2>2. inbox \in [Conns -> Seq(Messages)]
    OBVIOUS
  <2> QED
    BY <2>1, <2>2 DEF TypeOK, Realtime, AllModes, Effects, Requests, Stages
<1>2. SocketsInv
  <2>1. /\ conn[1] = (IF Realtime THEN "fetching" ELSE "idle") /\ conn[2] = "idle"
        /\ sock[1] = "new" /\ sock[2] = "new" /\ Effects = {1, 2}
    BY DEF Effects
  <2>2. ~sceneKnown /\ cur = NoConn /\ connected = ~Realtime
    OBVIOUS
  <2> QED
    BY ONLY <2>1, <2>2 DEF SocketsInv, Opened
<1>3. AnswersInv
  BY DEF AnswersInv
<1>4. \A c \in Conns : VersionsIn(inbox[c]) = {}
  BY DEF VersionsIn
<1>5. VersionsExist /\ OrderInv /\ CoverInv
  BY <1>4 DEF VersionsExist, OrderInv, Sorted, CoverInv
<1>6. VersionsCounted
  BY RequestsFinite DEF VersionsCounted
<1> QED
  BY <1>1, <1>2, <1>3, <1>5, <1>6 DEF IInv, PacketsInv

--------------------------------------------------------------------------------
(* Types. *)

(* SendTypes: what the service sends are messages.                              *)
LEMMA SendTypes ==
    ASSUME TypeOK
    PROVE  /\ \A r \in Requests : ResolvedMsg(r) \in Messages /\ TokenMsg(r) \in Messages
           /\ \A v \in Nat : StateMsg(v) \in Messages
           /\ \A st \in Statuses : StatusMsg(st) \in Messages
           /\ StatusMsg("loading") \in Messages /\ StatusMsg("completed") \in Messages
<1>1. \A v \in Nat : StateMsg(v) \in Messages
  BY DEF StateMsg, Messages
<1>2. \A st \in Statuses : StatusMsg(st) \in Messages
  BY DEF StatusMsg, Messages
<1>3. \A r \in Requests : ResolvedMsg(r) \in Messages /\ TokenMsg(r) \in Messages
  <2>1. \A r \in Requests : seq[r] \in Nat
    BY DEF TypeOK
  <2> QED
    BY <2>1 DEF ResolvedMsg, TokenMsg, Messages
<1> QED
  BY <1>1, <1>2, <1>3 DEF Statuses

(* InboxTypes: the ways in which packets come and go.                           *)
LEMMA InboxTypes ==
    ASSUME TypeOK
    PROVE  /\ \A c \in Conns, m \in Messages : SendTo(c, m) => inbox' \in [Conns -> Seq(Messages)]
           /\ \A m \in Messages : Broadcast(m) => inbox' \in [Conns -> Seq(Messages)]
           /\ \A c \in Conns : Forget(c) => /\ inbox' \in [Conns -> Seq(Messages)]
                                          /\ joined' \subseteq Conns
<1>1. \A c \in Conns : inbox[c] \in Seq(Messages)
  BY DEF TypeOK
<1>2. \A c \in Conns, m \in Messages : Append(inbox[c], m) \in Seq(Messages)
  BY <1>1
<1>3. ASSUME NEW c \in Conns, NEW m \in Messages, SendTo(c, m)
      PROVE  inbox' \in [Conns -> Seq(Messages)]
  <2>1. inbox' = [inbox EXCEPT ![c] = Append(inbox[c], m)]
    BY <1>3 DEF SendTo
  <2> QED
    BY <1>2, <2>1 DEF TypeOK
<1>4. ASSUME NEW m \in Messages, Broadcast(m)
      PROVE  inbox' \in [Conns -> Seq(Messages)]
  <2>1. inbox' = [c \in Conns |-> IF c \in joined THEN Append(inbox[c], m) ELSE inbox[c]]
    BY <1>4 DEF Broadcast
  <2>2. \A c \in Conns : (IF c \in joined THEN Append(inbox[c], m) ELSE inbox[c]) \in Seq(Messages)
    BY <1>1, <1>2
  <2> QED
    BY <2>1, <2>2
<1>5. ASSUME NEW c \in Conns, Forget(c)
      PROVE  inbox' \in [Conns -> Seq(Messages)] /\ joined' \subseteq Conns
  BY <1>5 DEF TypeOK, Forget
<1> QED
  BY <1>3, <1>4, <1>5

(* StepTypes: every step keeps the types; the count of the versions is apart.   *)
LEMMA PageTypes ==
    ASSUME TypeOK, VersionsCounted,
           \/ \E e \in Effects : TokenArrives(e) \/ TokenFails(e) \/ OnConnect(e)
           \/ \E c \in Conns : SocketConnects(c)
           \/ SceneKnown \/ LeavePage
    PROVE  TypeOK' /\ VersionsCounted' /\ version' = version /\ seq' = seq
<1> USE SessionAssumption DEF composerVars, serviceVars, viewVars, gatewayVars
<1>1. Conns = Effects /\ 1 \in Conns /\ 2 \in Conns
  BY DEF Effects
<1>2. ASSUME UNCHANGED <<version, seq, server>>
      PROVE  VersionsCounted'
  BY <1>2 DEF VersionsCounted, Ended
<1>3. ASSUME NEW e \in Effects, TokenArrives(e) PROVE TypeOK' /\ UNCHANGED <<version, seq, server>>
  BY <1>3 DEF TypeOK, TokenArrives
<1>4. ASSUME NEW e \in Effects, TokenFails(e) PROVE TypeOK' /\ UNCHANGED <<version, seq, server>>
  BY <1>4 DEF TypeOK, TokenFails
<1>5. ASSUME NEW e \in Effects, OnConnect(e) PROVE TypeOK' /\ UNCHANGED <<version, seq, server>>
  BY <1>5 DEF TypeOK, OnConnect
<1>6. ASSUME NEW c \in Conns, SocketConnects(c) PROVE TypeOK' /\ UNCHANGED <<version, seq, server>>
  BY <1>6 DEF TypeOK, SocketConnects
<1>7. ASSUME Disconnect, ~CleanupThrows
      PROVE  /\ cur' = NoConn /\ sock' \in [Conns -> {"new", "connecting", "up", "lost", "closed"}]
             /\ asked' \in [Effects -> {"no", "sent", "joined", "read", "answered", "lost"}]
             /\ snapshot' \in [Effects -> 0..version]
             /\ via' \in [Requests -> Conns \cup {NoConn}]
             /\ joined' \subseteq Conns /\ inbox' \in [Conns -> Seq(Messages)]
  <2>1. CASE ~Realtime
    BY <1>7, <2>1 DEF Disconnect, TypeOK
  <2>2. CASE Realtime
    <3>1. cur \in Conns
      BY <1>7, <2>2 DEF CleanupThrows, ClientConnected, TypeOK
    <3>2. Forget(cur) /\ LoseAnswers(cur) /\ sock' = [sock EXCEPT ![cur] = "closed"]
      BY <1>7, <2>2 DEF Disconnect
    <3>3. joined' \subseteq Conns /\ inbox' \in [Conns -> Seq(Messages)]
      BY <3>1, <3>2, InboxTypes
    <3>4. 0 \in 0..version
      BY DEF TypeOK
    <3> QED
      BY <1>7, <3>1, <3>2, <3>3, <3>4 DEF Disconnect, LoseAnswers, TypeOK
  <2> QED
    BY <2>1, <2>2
<1>8. ASSUME SceneKnown PROVE TypeOK' /\ UNCHANGED <<version, seq, server>>
  <2>1. UNCHANGED <<mode, status, watchdog, askedOn, server, version, seq, echoes, view, overtaken>>
    BY <1>8 DEF SceneKnown, cleanupRest
  <2>2. CASE Crash
    BY <2>1, <2>2 DEF Crash, TypeOK
  <2>3. CASE ~CleanupThrows
    <3>1. Disconnect
      BY <1>8, <2>3 DEF SceneKnown
    <3>2. /\ sceneKnown' = TRUE /\ connected' = ~Realtime /\ connecting' = Realtime /\ page' = page
          /\ conn' = [conn EXCEPT ![2] = IF Realtime THEN "fetching" ELSE "idle"]
      BY <1>8, <2>3 DEF SceneKnown
    <3>3. connected' \in BOOLEAN /\ connecting' \in BOOLEAN
      BY <3>2 DEF Realtime
    <3>4. conn' \in [Effects -> {"idle", "fetching", "polling", "over"}]
      BY <3>2 DEF TypeOK
    <3> QED
      BY <1>7, <2>1, <2>3, <3>1, <3>2, <3>3, <3>4 DEF TypeOK
  <2> QED
    BY <1>8, <2>1, <2>2, <2>3 DEF SceneKnown
<1>9. ASSUME LeavePage PROVE TypeOK' /\ UNCHANGED <<version, seq, server>>
  <2>1. UNCHANGED <<mode, status, watchdog, askedOn, server, version, seq, echoes, view, overtaken>>
    BY <1>9 DEF LeavePage, cleanupRest
  <2>2. CASE Crash
    BY <2>1, <2>2 DEF Crash, TypeOK
  <2>3. CASE ~CleanupThrows
    <3>1. Disconnect
      BY <1>9, <2>3 DEF LeavePage
    <3>2. page' = "left" /\ UNCHANGED <<sceneKnown, conn, connected, connecting>>
      BY <1>9, <2>3 DEF LeavePage
    <3> QED
      BY <1>7, <2>1, <2>3, <3>1, <3>2 DEF TypeOK
  <2> QED
    BY <1>9, <2>1, <2>2, <2>3 DEF LeavePage
<1> QED
  BY <1>2, <1>3, <1>4, <1>5, <1>6, <1>8, <1>9

(* LinkTypes: the same for the link and for what is asked over it.              *)
LEMMA LinkTypes ==
    ASSUME TypeOK, VersionsCounted, page = "open", AnswersInv,
           \/ \E c \in Conns : LinkDrops(c) \/ Recovers(c) \/ ReconnectsAnew(c)
           \/ InstanceDies
           \/ \E e \in Effects : JoinArrives(e) \/ ReadCatchUp(e) \/ CatchUpFails(e)
    PROVE  TypeOK' /\ VersionsCounted' /\ version' = version /\ seq' = seq
<1> USE SessionAssumption DEF linkRest, askRest, pageVars, composerVars, viewVars, gatewayVars
<1>1. Conns = Effects /\ version \in Nat /\ 0 \in 0..version /\ version \in 0..version
  BY DEF TypeOK
<1>2. ASSUME UNCHANGED <<version, seq>>, Ended \subseteq Ended'
      PROVE  VersionsCounted'
  BY <1>1, <1>2, CountGrows
<1>3. ASSUME NEW c \in Conns, LinkDrops(c)
      PROVE  TypeOK' /\ UNCHANGED <<version, seq>> /\ Ended \subseteq Ended'
  BY <1>3 DEF TypeOK, LinkDrops, Stages, Ended
<1>4. ASSUME NEW c \in Conns, Recovers(c)
      PROVE  TypeOK' /\ UNCHANGED <<version, seq>> /\ Ended \subseteq Ended'
  BY <1>4 DEF TypeOK, Recovers, Ended
<1>5. ASSUME NEW c \in Conns, ReconnectsAnew(c)
      PROVE  TypeOK' /\ UNCHANGED <<version, seq>> /\ Ended \subseteq Ended'
  <2>1. inbox' \in [Conns -> Seq(Messages)] /\ joined' \subseteq Conns
    BY <1>5, InboxTypes DEF ReconnectsAnew
  <2>2. LoseAnswers(c) /\ UNCHANGED <<linkRest, server>> /\ sock' = [sock EXCEPT ![c] = "up"]
    BY <1>5 DEF ReconnectsAnew
  <2>3. /\ asked' \in [Effects -> {"no", "sent", "joined", "read", "answered", "lost"}]
        /\ snapshot' \in [Effects -> 0..version]
        /\ via' \in [Requests -> Conns \cup {NoConn}]
        /\ sock' \in [Conns -> {"new", "connecting", "up", "lost", "closed"}]
    BY <1>1, <2>2 DEF LoseAnswers, TypeOK
  <2> QED
    BY <2>1, <2>2, <2>3 DEF TypeOK, Ended
<1>6. CASE InstanceDies
  <2>1. Ended \subseteq Ended' /\ server' \in [Requests -> Stages]
    BY <1>6 DEF InstanceDies, TypeOK, Stages, Ended
  <2>2. inbox' \in [Conns -> Seq(Messages)] /\ joined' \subseteq Conns
    BY <1>6 DEF InstanceDies, TypeOK
  <2>3. /\ asked' \in [Effects -> {"no", "sent", "joined", "read", "answered", "lost"}]
        /\ snapshot' \in [Effects -> 0..version]
        /\ via' \in [Requests -> Conns \cup {NoConn}]
        /\ sock' \in [Conns -> {"new", "connecting", "up", "lost", "closed"}]
    BY <1>1, <1>6 DEF InstanceDies, TypeOK
  <2>4. UNCHANGED linkRest
    BY <1>6 DEF InstanceDies
  <2>5. TypeOK'
    BY <2>1, <2>2, <2>3, <2>4 DEF TypeOK
  <2> QED
    BY <1>2, <2>1, <2>4, <2>5
<1>7. ASSUME NEW e \in Effects, JoinArrives(e)
      PROVE  TypeOK' /\ UNCHANGED <<version, seq>> /\ Ended \subseteq Ended'
  <2>1. askedOn[e] \in Conns
    BY <1>7 DEF JoinArrives, AnswersInv
  <2> QED
    BY <1>7, <2>1 DEF TypeOK, JoinArrives, Join, Ended
<1>8. ASSUME NEW e \in Effects, ReadCatchUp(e)
      PROVE  TypeOK' /\ UNCHANGED <<version, seq>> /\ Ended \subseteq Ended'
  BY <1>1, <1>8 DEF TypeOK, ReadCatchUp, Ended
<1>9. ASSUME NEW e \in Effects, CatchUpFails(e)
      PROVE  TypeOK' /\ UNCHANGED <<version, seq>> /\ Ended \subseteq Ended'
  BY <1>9 DEF TypeOK, CatchUpFails, Ended
<1> QED
  BY <1>2, <1>3, <1>4, <1>5, <1>6, <1>7, <1>8, <1>9

(* TellTypes: a status goes to whom it is for, if the connection is there.      *)
LEMMA TellTypes ==
    ASSUME TypeOK, NEW r \in Requests, NEW m \in Messages, Tell(r, m)
    PROVE  inbox' \in [Conns -> Seq(Messages)]
<1>1. CASE via[r] = NoConn
  BY <1>1 DEF Tell, TypeOK
<1>2. CASE via[r] # NoConn
  <2>1. via[r] \in Conns /\ SendTo(via[r], m)
    BY <1>2 DEF Tell, TypeOK
  <2> QED
    BY <2>1, InboxTypes
<1> QED
  BY <1>1, <1>2

(* Publishing: what the four steps that broadcast a packet of r's result share. *)
LEMMA Publishing ==
    ASSUME TypeOK, NEW r \in Requests,
           PublishStatus(r) \/ PublishResult(r) \/ PublishToken(r) \/ Echo(r)
    PROVE  /\ \E m \in {StatusMsg("completed"), ResolvedMsg(r), TokenMsg(r)} :
                 /\ Announce(m)
                 /\ ResultIsOut(r)' => ResultIsOut(r) \/ m.type # "status"
           /\ UNCHANGED <<actionRest, version, seq>>
           /\ server' \in [Requests -> Stages]
           /\ \A x \in Requests \ {r} : server'[x] = server[x]
           /\ Ended \subseteq Ended' /\ echoes' \in 0..MaxEchoes
<1> USE SessionAssumption
<1>1. CASE PublishStatus(r)
  <2>1. Announce(StatusMsg("completed")) /\ server' = [server EXCEPT ![r] = "told"]
    BY <1>1 DEF PublishStatus, PublishStep
  <2> QED
    BY <1>1, <2>1 DEF PublishStatus, PublishStep, TypeOK, Stages, Ended, ResultIsOut
<1>2. CASE PublishResult(r)
  <2>1. Announce(ResolvedMsg(r)) /\ ResolvedMsg(r).type # "status"
        /\ server' = [server EXCEPT ![r] = "resolved"] /\ server[r] \in {"committed", "told"}
    BY <1>2 DEF PublishResult, PublishStep, ResolvedMsg
  <2> QED
    BY <1>2, <2>1 DEF PublishResult, PublishStep, TypeOK, Stages, Ended, ResultIsOut
<1>3. CASE PublishToken(r)
  <2>1. Announce(TokenMsg(r)) /\ TokenMsg(r).type # "status"
        /\ server' = [server EXCEPT ![r] = "published"]
    BY <1>3 DEF PublishToken, PublishStep, TokenMsg
  <2> QED
    BY <1>3, <2>1 DEF PublishToken, PublishStep, TypeOK, Stages, Ended, ResultIsOut
<1>4. CASE Echo(r)
  <2>1. \E m \in {StatusMsg("completed"), ResolvedMsg(r), TokenMsg(r)} : Announce(m)
    BY <1>4 DEF Echo, Published
  <2>2. server' = server /\ UNCHANGED <<actionRest, version, seq>> /\ echoes' \in 0..MaxEchoes
    BY <1>4 DEF Echo, TypeOK
  <2> QED
    BY <2>1, <2>2 DEF TypeOK, Ended, ResultIsOut
<1> QED
  BY <1>1, <1>2, <1>3, <1>4

(* ServiceTypes: the same for what the service and the composer do.             *)
LEMMA ServiceTypes ==
    ASSUME TypeOK, VersionsCounted, page = "open", AnswersInv,
           \/ \E e \in Effects : SendCatchUp(e)
           \/ \E r \in Own : Submit(r)
           \/ WatchdogFires
           \/ \E r \in Requests :
                 \/ Hear(r) \/ Accept(r) \/ Refuse(r)
                 \/ PublishStatus(r) \/ PublishResult(r) \/ PublishToken(r) \/ Echo(r)
    PROVE  TypeOK' /\ VersionsCounted' /\ version' = version /\ seq' = seq
<1> USE SessionAssumption DEF pageVars, composerVars, viewVars, gatewayVars
<1>1. Conns = Effects /\ version \in Nat /\ 0 \in 0..version /\ version \in 0..version
  BY DEF TypeOK
<1>2. ASSUME UNCHANGED <<version, seq>>, Ended \subseteq Ended'
      PROVE  VersionsCounted'
  BY <1>1, <1>2, CountGrows
<1>3. ASSUME NEW e \in Effects, SendCatchUp(e)
      PROVE  TypeOK' /\ UNCHANGED <<version, seq>> /\ Ended \subseteq Ended'
  <2>1. askedOn[e] \in Conns /\ snapshot[e] \in Nat
    BY <1>1, <1>3 DEF SendCatchUp, AnswersInv, TypeOK
  <2>2. StateMsg(snapshot[e]) \in Messages
    BY <2>1, SendTypes
  <2>3. inbox' \in [Conns -> Seq(Messages)]
    BY <1>3, <2>1, <2>2, InboxTypes DEF SendCatchUp
  <2>4. /\ asked' \in [Effects -> {"no", "sent", "joined", "read", "answered", "lost"}]
        /\ snapshot' \in [Effects -> 0..version]
        /\ overtaken' \in BOOLEAN
    BY <1>1, <1>3 DEF SendCatchUp, TypeOK, Overtakes
  <2>5. UNCHANGED <<askRest, view, joined>>
    BY <1>3 DEF SendCatchUp
  <2> QED
    BY <2>3, <2>4, <2>5 DEF TypeOK, askRest, Ended
<1>4. ASSUME NEW r \in Own, Submit(r)
      PROVE  TypeOK' /\ UNCHANGED <<version, seq>> /\ Ended \subseteq Ended'
  <2>1. r \in Requests
    BY DEF Requests
  <2>2. /\ server' \in [Requests -> Stages]
        /\ via' \in [Requests -> Conns \cup {NoConn}]
        /\ status' \in Statuses \cup {"null"} /\ watchdog' \in BOOLEAN
        /\ Ended \subseteq Ended'
    BY <1>4, <2>1 DEF Submit, SetStatus, TypeOK, Statuses, Stages, ClientConnected, Ended
  <2>3. UNCHANGED <<composerRest, viewVars>>
    BY <1>4 DEF Submit
  <2> QED
    BY <2>2, <2>3 DEF TypeOK, composerRest
<1>5. CASE WatchdogFires
  <2>1. TypeOK' /\ UNCHANGED <<version, seq>> /\ Ended \subseteq Ended'
    BY <1>5 DEF TypeOK, WatchdogFires, SetStatus, composerRest, Ended
  <2> QED
    BY <1>2, <2>1
<1>6. ASSUME NEW r \in Requests, Hear(r) \/ Accept(r) \/ Refuse(r)
      PROVE  TypeOK' /\ UNCHANGED <<version, seq>> /\ Ended \subseteq Ended'
  <2>1. inbox' \in [Conns -> Seq(Messages)]
    <3>1. CASE inbox' = inbox
      BY <3>1 DEF TypeOK
    <3>2. CASE Tell(r, StatusMsg("loading"))
      BY <3>2, TellTypes, SendTypes
    <3> QED
      BY <1>6, <3>1, <3>2 DEF Hear, Accept, Refuse
  <2>2. /\ server' \in [Requests -> Stages]
        /\ Ended \subseteq Ended'
        /\ UNCHANGED <<actionRest, version, seq, echoes, overtaken>>
    BY <1>6 DEF Hear, Accept, Refuse, TypeOK, Stages, Ended
  <2> QED
    BY <2>1, <2>2 DEF TypeOK, actionRest
<1>7. ASSUME NEW r \in Requests, PublishStatus(r) \/ PublishResult(r) \/ PublishToken(r) \/ Echo(r)
      PROVE  TypeOK' /\ UNCHANGED <<version, seq>> /\ Ended \subseteq Ended'
  <2>1. /\ UNCHANGED <<actionRest, version, seq>> /\ server' \in [Requests -> Stages]
        /\ Ended \subseteq Ended' /\ echoes' \in 0..MaxEchoes
    BY <1>7, Publishing
  <2>2. PICK m \in {StatusMsg("completed"), ResolvedMsg(r), TokenMsg(r)} : Announce(m)
    BY <1>7, Publishing
  <2>3. inbox' \in [Conns -> Seq(Messages)]
    BY <2>2, SendTypes, InboxTypes DEF Announce
  <2>4. overtaken' \in BOOLEAN
    BY <2>2 DEF Announce, TypeOK
  <2> QED
    BY <2>1, <2>3, <2>4 DEF TypeOK, actionRest
<1> QED
  BY <1>2, <1>3, <1>4, <1>5, <1>6, <1>7

(* VersionTypes: a resolution raises the version once.                          *)
LEMMA VersionTypes ==
    ASSUME TypeOK, VersionsCounted,
           \/ \E r \in Own : RestAnswers(r) \/ RestFails(r)
           \/ \E r \in Requests : Commit(r)
    PROVE  TypeOK' /\ VersionsCounted'
<1> USE SessionAssumption DEF pageVars, composerVars, viewVars, gatewayVars
<1>1. version \in Nat
  BY DEF TypeOK
<1>2. PICK r \in Requests : (r \in Own /\ (RestAnswers(r) \/ RestFails(r))) \/ Commit(r)
  BY DEF Requests
<1>3. /\ server' \in [Requests -> Stages]
      /\ Ended \subseteq Ended' /\ r \notin Ended /\ r \in Ended'
      /\ version' = version \/ version' = version + 1
      /\ seq' = [seq EXCEPT ![r] = version']
  <2>1. CASE RestAnswers(r)
    BY <1>1, <2>1 DEF RestAnswers, TypeOK, Stages, Ended
  <2>2. CASE RestFails(r)
    <3>1. PICK late \in BOOLEAN :
              /\ server' = [server EXCEPT ![r] = IF late THEN "published" ELSE "dropped"]
              /\ version' = IF late THEN version + 1 ELSE version
              /\ seq' = [seq EXCEPT ![r] = version']
      BY <2>2 DEF RestFails
    <3> QED
      BY <2>2, <3>1 DEF RestFails, TypeOK, Stages, Ended
  <2>3. CASE Commit(r)
    BY <1>1, <2>3 DEF Commit, TypeOK, Stages, Ended
  <2> QED
    BY <1>2, <2>1, <2>2, <2>3
<1>4. VersionsCounted' /\ version' <= Cardinality(Requests)
  BY <1>1, <1>3, CountGrows
<1>5. version' \in 0..Cardinality(Requests)
  BY <1>1, <1>3, <1>4, RequestsFinite
<1>6. \A x \in 0..version : x \in 0..version'
  BY <1>1, <1>3
<1>7. seq' \in [Requests -> 0..version']
  <2>1. version' \in 0..version'
    BY <1>1, <1>3
  <2> QED
    BY <1>3, <1>6, <2>1 DEF TypeOK
<1>8. snapshot' \in [Effects -> 0..version'] /\ view' \in 0..version'
  BY <1>1, <1>2, <1>3, <1>6 DEF RestAnswers, RestFails, Commit, actionRest, TypeOK
<1>9. status' \in Statuses \cup {"null"} /\ watchdog' \in BOOLEAN
  BY <1>2 DEF RestAnswers, RestFails, Commit, actionRest, SetStatus, TypeOK, Statuses
<1>10. UNCHANGED <<mode, pageVars, asked, askedOn, via, echoes, overtaken, gatewayVars>>
  BY <1>2 DEF RestAnswers, RestFails, Commit, actionRest
<1> QED
  BY <1>3, <1>4, <1>5, <1>7, <1>8, <1>9, <1>10 DEF TypeOK

(* ReceiveTypes: what is shown has been committed.                              *)
LEMMA ReceiveTypes ==
    ASSUME TypeOK, VersionsCounted, VersionsExist, NEW c \in Conns, Receive(c)
    PROVE  TypeOK' /\ VersionsCounted' /\ version' = version /\ seq' = seq
<1> USE DEF pageVars, composerVars, serviceVars, viewVars, gatewayVars
<1> DEFINE m == Head(inbox[c])
<1>1. inbox[c] \in Seq(Messages) /\ inbox[c] # << >>
  BY DEF TypeOK, Receive
<1>2. m \in Messages /\ m = inbox[c][1] /\ 1 \in DOMAIN inbox[c] /\ Tail(inbox[c]) \in Seq(Messages)
  BY <1>1
<1>3. inbox' = [inbox EXCEPT ![c] = Tail(inbox[c])] /\ Handle(m)
      /\ UNCHANGED <<mode, pageVars, serviceVars, overtaken, joined>>
  BY DEF Receive
<1>4. inbox' \in [Conns -> Seq(Messages)]
  BY <1>2, <1>3 DEF TypeOK
<1>5. m.type # "status" => m.version \in 0..version
  <2>1. m.type # "status" => m.version \in Nat
    BY <1>2 DEF Messages
  <2>2. m.type # "status" => m.version <= version
    BY <1>2 DEF VersionsExist, VersionsIn
  <2> QED
    BY <2>1, <2>2 DEF TypeOK
<1>6. m.type = "status" => m.status \in Statuses
  BY <1>2 DEF Messages
<1> HIDE DEF m
<1>7. status' \in Statuses \cup {"null"} /\ watchdog' \in BOOLEAN /\ view' \in 0..version
  BY <1>3, <1>5, <1>6 DEF Handle, SetStatus, Statuses, TypeOK
<1>8. TypeOK'
  BY <1>3, <1>4, <1>7 DEF TypeOK
<1>9. VersionsCounted'
  BY <1>3 DEF VersionsCounted, Ended
<1> QED
  BY <1>3, <1>8, <1>9

--------------------------------------------------------------------------------
(* Sockets. *)

\* What the service does with an action.
ServiceStep(r) ==
    \/ Hear(r) \/ Accept(r) \/ Refuse(r) \/ Commit(r)
    \/ PublishStatus(r) \/ PublishResult(r) \/ PublishToken(r) \/ Echo(r)

(* OneSocket: a link that is up or lost is the client's.                        *)
LEMMA OneSocket ==
    ASSUME TypeOK, SocketsInv, page = "open"
    PROVE  /\ \A c \in Conns : sock[c] \in {"connecting", "up", "lost"} => c = cur
           /\ ~Realtime => cur = NoConn
<1>1. Conns = {1, 2} /\ Effects = {1, 2}
  BY SessionAssumption DEF Effects
<1>2. sceneKnown \in BOOLEAN
  BY DEF TypeOK
<1> QED
  BY <1>1, <1>2 DEF SocketsInv, Opened

(* PageSockets: connecting opens one socket per effect, closing comes before.   *)
LEMMA PageSockets ==
    ASSUME TypeOK, SocketsInv, page = "open",
           \/ \E e \in Effects : TokenArrives(e) \/ TokenFails(e) \/ OnConnect(e)
           \/ SceneKnown \/ LeavePage
    PROVE  SocketsInv'
<1> SUFFICES ASSUME page' = "open" PROVE SocketsInv'
  BY DEF SocketsInv
<1>1. /\ Conns = {1, 2} /\ Effects = {1, 2} /\ NoConn \notin {1, 2}
      /\ sceneKnown \in BOOLEAN /\ cur \in {1, 2, NoConn}
      /\ conn = [e \in {1, 2} |-> conn[e]] /\ sock = [e \in {1, 2} |-> sock[e]]
  BY SessionAssumption DEF Effects, TypeOK
<1>2. ASSUME NEW e \in Effects, TokenArrives(e) PROVE SocketsInv'
  <2>1. /\ conn[e] = "fetching" /\ conn' = [conn EXCEPT ![e] = "polling"]
        /\ UNCHANGED <<mode, page, sceneKnown, connected>>
    BY <1>2 DEF TokenArrives
  <2>2. cur = NoConn /\ Realtime /\ ~connected
    BY <1>1, <2>1 DEF SocketsInv, Opened
  <2>3. sock' = [sock EXCEPT ![e] = "connecting"] /\ cur' = e
    BY <1>2, <2>2 DEF TokenArrives, ClientConnected
  <2>4. Realtime'
    BY <2>1, <2>2 DEF Realtime
  <2> QED
    BY <1>1, <2>1, <2>2, <2>3, <2>4 DEF SocketsInv, Opened
<1>3. ASSUME NEW e \in Effects, TokenFails(e) PROVE SocketsInv'
  <2>1. /\ conn[e] = "fetching" /\ conn' = [conn EXCEPT ![e] = "idle"]
        /\ UNCHANGED <<mode, page, sceneKnown, connected, sock, cur>>
    BY <1>3 DEF TokenFails
  <2> QED
    BY <1>1, <2>1 DEF SocketsInv, Opened, Realtime
<1>4. ASSUME NEW e \in Effects, OnConnect(e) PROVE SocketsInv'
  <2>1. /\ conn[e] = "polling" /\ conn' = [conn EXCEPT ![e] = "over"]
        /\ cur # NoConn /\ sock[cur] = "up"
        /\ UNCHANGED <<mode, page, sceneKnown, sock, cur>>
    BY <1>4 DEF OnConnect, ClientConnected
  <2> QED
    BY <1>1, <2>1 DEF SocketsInv, Opened, Realtime
<1>5. CASE SceneKnown
  <2>1. /\ Disconnect /\ ~CleanupThrows /\ ~sceneKnown /\ sceneKnown' = TRUE
        /\ conn' = [conn EXCEPT ![2] = IF Realtime THEN "fetching" ELSE "idle"]
        /\ connected' = ~Realtime /\ mode' = mode
    BY <1>5 DEF SceneKnown, Crash, cleanupRest
  <2>2. CASE Realtime
    <3>1. cur = 1 /\ conn[1] # "fetching" /\ sock[2] = "new"
      BY <1>1, <2>1, <2>2 DEF CleanupThrows, ClientConnected, SocketsInv, Opened
    <3>2. sock' = [sock EXCEPT ![1] = "closed"] /\ cur' = NoConn
      BY <2>1, <2>2, <3>1 DEF Disconnect
    <3>3. Realtime'
      BY <2>1, <2>2 DEF Realtime
    <3> QED
      BY <1>1, <2>1, <2>2, <3>1, <3>2, <3>3 DEF SocketsInv, Opened
  <2>3. CASE ~Realtime
    <3>1. cur' = NoConn /\ sock' = sock /\ ~Realtime'
      BY <2>1, <2>3 DEF Disconnect, Realtime
    <3>2. \A e \in {1, 2} : conn[e] = "idle" /\ sock[e] = "new"
      BY <1>1, <2>3 DEF SocketsInv
    <3> QED
      BY <1>1, <2>1, <2>3, <3>1, <3>2 DEF SocketsInv, Opened
  <2> QED
    BY <2>2, <2>3
<1>6. CASE LeavePage
  BY <1>6 DEF LeavePage, Crash
<1> QED
  BY <1>2, <1>3, <1>4, <1>5, <1>6

(* LinkSockets: a link that goes and comes stays the client's.                  *)
LEMMA LinkSockets ==
    ASSUME TypeOK, SocketsInv, page = "open", sock' \in [Conns -> {"up", "lost", "new", "connecting", "closed"}],
           UNCHANGED <<mode, page, sceneKnown, conn, cur, connected>>,
           \A c \in Conns : \/ sock'[c] = sock[c]
                            \/ sock[c] \in {"connecting", "up", "lost"} /\ sock'[c] \in {"up", "lost"}
    PROVE  SocketsInv'
<1>1. Conns = {1, 2} /\ Effects = {1, 2} /\ NoConn \notin {1, 2} /\ cur \in {1, 2, NoConn}
  BY SessionAssumption DEF Effects, TypeOK
<1> QED
  BY <1>1 DEF SocketsInv, Opened, Realtime

(* SocketsKept: no step opens a second socket.                                  *)
LEMMA SocketsKept ==
    ASSUME TypeOK, TypeOK', SocketsInv, Next
    PROVE  SocketsInv'
<1>1. page = "open"
  BY DEF Next
<1>2. ASSUME NEW c \in Conns, SocketConnects(c) \/ LinkDrops(c) \/ Recovers(c) \/ ReconnectsAnew(c)
      PROVE  SocketsInv'
  <2>1. /\ UNCHANGED <<mode, page, sceneKnown, conn, cur>>
        /\ sock' = [sock EXCEPT ![c] = "up"] \/ sock' = [sock EXCEPT ![c] = "lost"]
        /\ sock[c] \in {"connecting", "up", "lost"}
    BY <1>2 DEF SocketConnects, LinkDrops, Recovers, ReconnectsAnew, linkRest
  <2>2. connected' = connected
    BY <1>2 DEF SocketConnects, LinkDrops, Recovers, ReconnectsAnew, linkRest
  <2>3. \A d \in Conns : \/ sock'[d] = sock[d]
                         \/ sock[d] \in {"connecting", "up", "lost"} /\ sock'[d] \in {"up", "lost"}
    BY <2>1 DEF TypeOK
  <2>4. sock' \in [Conns -> {"up", "lost", "new", "connecting", "closed"}]
    BY DEF TypeOK
  <2> QED
    BY <1>1, <2>1, <2>2, <2>3, <2>4, LinkSockets
<1>3. CASE InstanceDies
  <2>1. /\ UNCHANGED <<mode, page, sceneKnown, conn, cur, connected>>
        /\ sock' = [c \in Conns |-> IF sock[c] = "up" THEN "lost" ELSE sock[c]]
    BY <1>3 DEF InstanceDies, linkRest
  <2>2. sock' \in [Conns -> {"up", "lost", "new", "connecting", "closed"}]
    BY DEF TypeOK
  <2> QED
    BY <1>1, <2>1, <2>2, LinkSockets
<1>4. CASE UNCHANGED <<mode, pageVars>>
  BY <1>4 DEF SocketsInv, Opened, Realtime, pageVars
<1>5. ASSUME NEW e \in Effects, JoinArrives(e) \/ ReadCatchUp(e) \/ CatchUpFails(e) \/ SendCatchUp(e)
      PROVE  UNCHANGED <<mode, pageVars>>
  BY <1>5 DEF JoinArrives, ReadCatchUp, CatchUpFails, SendCatchUp, askRest
<1>6. ASSUME NEW r \in Requests, ServiceStep(r)
      PROVE  UNCHANGED <<mode, pageVars>>
  BY <1>6 DEF ServiceStep, Hear, Accept, Refuse, Commit, PublishStatus, PublishResult, PublishToken,
       PublishStep, Echo, actionRest
<1>7. ASSUME NEW r \in Own, Submit(r) \/ RestAnswers(r) \/ RestFails(r)
      PROVE  UNCHANGED <<mode, pageVars>>
  BY <1>7 DEF Submit, RestAnswers, RestFails, composerRest
<1>8. CASE WatchdogFires
  BY <1>4, <1>8 DEF WatchdogFires, composerRest
<1>9. ASSUME NEW c \in Conns, Receive(c)
      PROVE  UNCHANGED <<mode, pageVars>>
  BY <1>9 DEF Receive
<1> QED
  BY <1>1, <1>2, <1>3, <1>4, <1>5, <1>6, <1>7, <1>8, <1>9, PageSockets DEF Next, ServiceStep

--------------------------------------------------------------------------------
(* Answers. *)

(* AnswersFrame: so long as packets come and go over the client's connection.   *)
LEMMA AnswersFrame ==
    ASSUME AnswersInv, page = "open", UNCHANGED <<cur, joined>>,
           \A e \in Effects : /\ askedOn'[e] = askedOn[e]
                              /\ asked'[e] \in {asked[e], "no", "lost"}
                                   \/ (asked[e] = "joined" /\ asked'[e] = "read")
                                   \/ (asked[e] = "read" /\ asked'[e] = "answered"),
           \A r \in Requests : via'[r] \in {via[r], cur},
           \A c \in Conns \ {cur} : inbox'[c] = inbox[c]
    PROVE  AnswersInv'
<1>1. \A e \in Effects : asked'[e] \in {"joined", "read", "answered"} =>
                            asked[e] \in {"joined", "read", "answered"}
  OBVIOUS
<1>2. \A e \in Effects : asked'[e] \in {"sent", "joined", "read", "answered"} =>
                            asked[e] \in {"sent", "joined", "read", "answered"}
  OBVIOUS
<1>3. \A e \in Effects :
         /\ asked'[e] \in {"sent", "joined", "read", "answered"} =>
                askedOn'[e] = cur' /\ cur' \in Conns
         /\ asked'[e] \in {"joined", "read", "answered"} => cur' \in joined'
  BY <1>1, <1>2 DEF AnswersInv
<1>4. /\ \A r \in Requests : via'[r] \in {NoConn, cur'}
      /\ \A c \in Conns \ {cur'} : c \notin joined' /\ inbox'[c] = << >>
  BY DEF AnswersInv
<1> QED
  BY <1>3, <1>4 DEF AnswersInv

(* AnswersVoid: a connection that is over takes with it all that was asked.     *)
LEMMA AnswersVoid ==
    ASSUME TypeOK, AnswersInv, page = "open", cur \in Conns, LoseAnswers(cur), Forget(cur),
           cur' \in {cur, NoConn}, askedOn' = askedOn
    PROVE  AnswersInv'
<1>1. \A e \in Effects : asked'[e] \notin {"sent", "joined", "read", "answered"}
  BY DEF LoseAnswers, AnswersInv, TypeOK
<1>2. \A r \in Requests : via'[r] = NoConn
  BY DEF LoseAnswers, AnswersInv
<1>3. \A c \in Conns : c \notin joined' /\ inbox'[c] = << >>
  BY DEF Forget, AnswersInv, TypeOK
<1> QED
  BY <1>1, <1>2, <1>3 DEF AnswersInv

(* AnswersKept: no step leaves anything behind on another connection.           *)
LEMMA AnswersKept ==
    ASSUME TypeOK, SocketsInv, AnswersInv, Next
    PROVE  AnswersInv'
<1> SUFFICES ASSUME page' = "open" PROVE AnswersInv'
  BY DEF AnswersInv
<1>1. page = "open"
  BY DEF Next
<1>2. \A c \in Conns : sock[c] \in {"connecting", "up", "lost"} => c = cur
  BY <1>1, OneSocket
<1> USE DEF gatewayVars
<1>3. CASE UNCHANGED <<cur, asked, askedOn, via, gatewayVars>>
  BY <1>1, <1>3, AnswersFrame
<1>4. ASSUME NEW e \in Effects, TokenArrives(e) PROVE AnswersInv'
  <2>1. UNCHANGED <<asked, askedOn, via, joined, inbox>>
    BY <1>4 DEF TokenArrives, serviceVars
  <2>2. cur = NoConn /\ NoConn \notin Conns
    <3>1. Effects = {1, 2} /\ sceneKnown \in BOOLEAN /\ conn[e] = "fetching"
      BY <1>4 DEF Effects, TypeOK, TokenArrives
    <3> QED
      BY <1>1, <3>1, SessionAssumption DEF SocketsInv, Opened
  <2> QED
    BY <1>1, <2>1, <2>2 DEF AnswersInv
<1>5. ASSUME NEW e \in Effects, TokenFails(e) PROVE AnswersInv'
  BY <1>3, <1>5 DEF TokenFails, serviceVars
<1>6. ASSUME NEW e \in Effects, OnConnect(e) PROVE AnswersInv'
  <2>1. /\ asked' = [asked EXCEPT ![e] = "sent"] /\ askedOn' = [askedOn EXCEPT ![e] = cur]
        /\ cur \in Conns /\ UNCHANGED <<cur, via, joined, inbox>>
    BY <1>6 DEF OnConnect, ClientConnected, TypeOK
  <2> QED
    BY <1>1, <2>1 DEF AnswersInv, TypeOK
<1>7. CASE SceneKnown
  <2>1. Disconnect /\ ~CleanupThrows /\ askedOn' = askedOn
    BY <1>7 DEF SceneKnown, Crash, cleanupRest
  <2>2. CASE Realtime
    <3>1. cur \in Conns /\ LoseAnswers(cur) /\ Forget(cur) /\ cur' = NoConn
      BY <2>1, <2>2 DEF Disconnect, CleanupThrows, ClientConnected, TypeOK
    <3> QED
      BY <1>1, <2>1, <3>1, AnswersVoid
  <2>3. CASE ~Realtime
    BY <1>1, <1>3, <2>1, <2>3, OneSocket DEF Disconnect
  <2> QED
    BY <2>2, <2>3
<1>8. CASE LeavePage
  BY <1>8 DEF LeavePage, Crash
<1>9. ASSUME NEW c \in Conns, SocketConnects(c) \/ Recovers(c) PROVE AnswersInv'
  BY <1>3, <1>9 DEF SocketConnects, Recovers, linkRest, serviceVars
<1>10. ASSUME NEW c \in Conns, LinkDrops(c) PROVE AnswersInv'
  <2>1. \A e \in Effects : asked'[e] \in {asked[e], "lost"}
    BY <1>10 DEF LinkDrops
  <2>2. UNCHANGED <<cur, askedOn, via, joined, inbox>>
    BY <1>10 DEF LinkDrops, linkRest
  <2> QED
    BY <1>1, <2>1, <2>2, AnswersFrame
<1>11. ASSUME NEW c \in Conns, ReconnectsAnew(c) PROVE AnswersInv'
  <2>1. c = cur /\ LoseAnswers(cur) /\ Forget(cur) /\ cur' = cur /\ askedOn' = askedOn
    BY <1>2, <1>11 DEF ReconnectsAnew, linkRest
  <2> QED
    BY <1>1, <2>1, AnswersVoid
<1>12. CASE InstanceDies
  <2>1. UNCHANGED <<cur, askedOn>>
    BY <1>12 DEF InstanceDies, linkRest
  <2>2. \A e \in Effects : asked'[e] \notin {"sent", "joined", "read", "answered"}
    BY <1>12 DEF InstanceDies
  <2>3. \A r \in Requests : via'[r] = NoConn
    BY <1>12 DEF InstanceDies
  <2>4. \A c \in Conns \ {cur} : c \notin joined' /\ inbox'[c] = << >>
    BY <1>1, <1>12 DEF InstanceDies, AnswersInv
  <2> QED
    BY <2>1, <2>2, <2>3, <2>4 DEF AnswersInv
<1>13. ASSUME NEW e \in Effects, JoinArrives(e) PROVE AnswersInv'
  <2>1. /\ asked' = [asked EXCEPT ![e] = "joined"] /\ askedOn[e] = cur /\ cur \in Conns
        /\ joined' = joined \cup {cur} /\ UNCHANGED <<cur, askedOn, via, inbox>>
    BY <1>1, <1>13 DEF JoinArrives, Join, AnswersInv, askRest, pageVars
  <2> QED
    BY <1>1, <2>1 DEF AnswersInv, TypeOK
<1>14. ASSUME NEW e \in Effects, ReadCatchUp(e) \/ CatchUpFails(e) PROVE AnswersInv'
  <2>1. /\ \/ asked[e] = "joined" /\ asked' = [asked EXCEPT ![e] = "read"]
           \/ asked' = [asked EXCEPT ![e] = "lost"]
        /\ UNCHANGED <<cur, askedOn, via, joined, inbox>>
    BY <1>14 DEF ReadCatchUp, CatchUpFails, askRest, pageVars
  <2>2. \A d \in Effects : asked'[d] \in {asked[d], "lost"} \/ (asked[d] = "joined" /\ asked'[d] = "read")
    BY <2>1 DEF TypeOK
  <2> QED
    BY <1>1, <2>1, <2>2, AnswersFrame
<1>15. ASSUME NEW e \in Effects, SendCatchUp(e) PROVE AnswersInv'
  <2>1. /\ asked[e] = "read" /\ asked' = [asked EXCEPT ![e] = "answered"] /\ askedOn[e] = cur
        /\ inbox' = [inbox EXCEPT ![cur] = Append(@, StateMsg(snapshot[e]))]
        /\ UNCHANGED <<cur, askedOn, via, joined>>
    BY <1>1, <1>15 DEF SendCatchUp, SendTo, AnswersInv, askRest, pageVars
  <2>2. \A d \in Effects : asked'[d] = asked[d] \/ (asked[d] = "read" /\ asked'[d] = "answered")
    BY <2>1 DEF TypeOK
  <2>3. \A d \in Conns \ {cur} : inbox'[d] = inbox[d]
    BY <2>1 DEF TypeOK
  <2> QED
    BY <1>1, <2>1, <2>2, <2>3, AnswersFrame
<1>16. ASSUME NEW r \in Own, Submit(r) PROVE AnswersInv'
  <2>1. /\ via' = via \/ via' = [via EXCEPT ![r] = cur]
        /\ UNCHANGED <<cur, asked, askedOn, joined, inbox>>
    BY <1>16 DEF Submit, composerRest, pageVars
  <2>2. \A x \in Requests : via'[x] \in {via[x], cur}
    BY <2>1 DEF TypeOK
  <2> QED
    BY <1>1, <2>1, <2>2, AnswersFrame
<1>17. ASSUME NEW r \in Own, RestAnswers(r) \/ RestFails(r) PROVE AnswersInv'
  BY <1>3, <1>17 DEF RestAnswers, RestFails, pageVars
<1>18. CASE WatchdogFires
  BY <1>3, <1>18 DEF WatchdogFires, composerRest, pageVars
<1>19. ASSUME NEW r \in Requests, NEW m, Tell(r, m), UNCHANGED actionRest PROVE AnswersInv'
  <2>1. UNCHANGED <<cur, asked, askedOn, via, joined>>
    BY <1>19 DEF actionRest, pageVars
  <2>2. \A c \in Conns \ {cur} : inbox'[c] = inbox[c]
    <3>1. via[r] \in {NoConn, cur}
      BY <1>1 DEF AnswersInv
    <3> QED
      BY <1>19, <3>1 DEF Tell, SendTo, TypeOK
  <2> QED
    BY <1>1, <2>1, <2>2, AnswersFrame
<1>20. ASSUME NEW r \in Requests, Hear(r) \/ Accept(r) \/ Refuse(r) PROVE AnswersInv'
  <2>1. CASE UNCHANGED <<actionRest, inbox>>
    BY <1>3, <2>1 DEF actionRest, pageVars
  <2> QED
    BY <1>19, <1>20, <2>1 DEF Hear, Accept, Refuse
<1>21. ASSUME NEW r \in Requests, Commit(r) PROVE AnswersInv'
  BY <1>3, <1>21 DEF Commit, actionRest, pageVars
<1>22. ASSUME NEW r \in Requests, PublishStatus(r) \/ PublishResult(r) \/ PublishToken(r) \/ Echo(r)
       PROVE  AnswersInv'
  <2>1. UNCHANGED <<cur, asked, askedOn, via, joined>>
    BY <1>22, Publishing DEF actionRest, pageVars
  <2>2. PICK m : Broadcast(m)
    BY <1>22, Publishing DEF Announce
  <2>3. \A c \in Conns \ {cur} : inbox'[c] = inbox[c]
    BY <1>1, <2>2 DEF AnswersInv, Broadcast
  <2> QED
    BY <1>1, <2>1, <2>3, AnswersFrame
<1>23. ASSUME NEW c \in Conns, Receive(c) PROVE AnswersInv'
  <2>1. c = cur /\ inbox' = [inbox EXCEPT ![c] = Tail(inbox[c])]
        /\ UNCHANGED <<cur, asked, askedOn, via, joined>>
    BY <1>2, <1>23 DEF Receive, pageVars, serviceVars
  <2>2. \A d \in Conns \ {cur} : inbox'[d] = inbox[d]
    BY <2>1 DEF TypeOK
  <2> QED
    BY <1>1, <2>1, <2>2, AnswersFrame
<1> QED
  BY <1>4, <1>5, <1>6, <1>7, <1>8, <1>9, <1>10, <1>11, <1>12, <1>13, <1>14, <1>15, <1>16, <1>17,
     <1>18, <1>20, <1>21, <1>22, <1>23 DEF Next

--------------------------------------------------------------------------------
(* Packets. *)

\* t is s with m at its end.
AppendedTo(s, m, t) ==
    /\ \A i \in VersionsIn(s) : i \in VersionsIn(t) /\ t[i] = s[i] /\ i \in 1..Len(s)
    /\ \A i \in VersionsIn(t) \ VersionsIn(s) :
          i = Len(s) + 1 /\ t[i] = m /\ m.type # "status"
    /\ m.type # "status" => \E i \in VersionsIn(t) : t[i] = m

(* Appended: what the end of an inbox holds after a packet.                     *)
LEMMA Appended ==
    ASSUME NEW s \in Seq(Messages), NEW m \in Messages, NEW t, t = Append(s, m)
    PROVE  AppendedTo(s, m, t)
<1> DEFINE n == Len(s)
<1>1. n \in Nat /\ DOMAIN s = 1..n
  OBVIOUS
<1>2. /\ DOMAIN t = 1..(n + 1)
      /\ \A i \in 1..n : t[i] = s[i]
      /\ t[n + 1] = m
  BY <1>1
<1> HIDE DEF n
<1>3. \A i \in VersionsIn(s) : i \in VersionsIn(t) /\ t[i] = s[i] /\ i \in 1..n
  BY <1>1, <1>2 DEF VersionsIn
<1>4. ASSUME NEW i \in VersionsIn(t), i \notin VersionsIn(s)
      PROVE  i = n + 1 /\ t[i] = m /\ m.type # "status"
  <2>1. i \in 1..(n + 1) /\ t[i].type # "status"
    BY <1>2 DEF VersionsIn
  <2>2. i = n + 1
    BY <1>1, <1>2, <1>4, <2>1 DEF VersionsIn
  <2> QED
    BY <1>2, <2>1, <2>2
<1>5. ASSUME m.type # "status" PROVE \E i \in VersionsIn(t) : t[i] = m
  <2>1. n + 1 \in DOMAIN t
    BY <1>1, <1>2
  <2> QED
    BY <1>2, <1>5, <2>1 DEF VersionsIn
<1> QED
  BY <1>3, <1>4, <1>5 DEF n, AppendedTo

(* Taken: what an inbox holds after its first packet has been received.         *)
LEMMA Taken ==
    ASSUME NEW s \in Seq(Messages), s # << >>, NEW t, t = Tail(s)
    PROVE  /\ \A i \in VersionsIn(t) : /\ i \in Nat /\ i > 0 /\ i + 1 \in VersionsIn(s)
                                       /\ t[i] = s[i + 1]
           /\ \A i \in VersionsIn(s) : /\ i \in Nat /\ i >= 1
                                       /\ i # 1 => i - 1 \in VersionsIn(t) /\ t[i - 1] = s[i]
           /\ Head(s) = s[1]
           /\ Head(s).type # "status" => 1 \in VersionsIn(s)
<1> DEFINE n == Len(s)
<1>1. n \in Nat /\ n > 0 /\ DOMAIN s = 1..n /\ Head(s) = s[1]
  OBVIOUS
<1>2. DOMAIN t = 1..(n - 1) /\ \A i \in 1..(n - 1) : t[i] = s[i + 1]
  BY <1>1
<1> HIDE DEF n
<1>3. \A i \in VersionsIn(t) : i \in Nat /\ i > 0 /\ i + 1 \in VersionsIn(s) /\ t[i] = s[i + 1]
  BY <1>1, <1>2 DEF VersionsIn
<1>4. ASSUME NEW i \in VersionsIn(s)
      PROVE  i \in Nat /\ i >= 1 /\ (i # 1 => i - 1 \in VersionsIn(t) /\ t[i - 1] = s[i])
  <2>1. i \in 1..n /\ s[i].type # "status"
    BY <1>1 DEF VersionsIn
  <2>2. ASSUME i # 1 PROVE i - 1 \in 1..(n - 1) /\ (i - 1) + 1 = i
    BY <1>1, <2>1, <2>2
  <2>3. i # 1 => i - 1 \in VersionsIn(t) /\ t[i - 1] = s[i]
    BY <1>2, <2>1, <2>2 DEF VersionsIn
  <2> QED
    BY <1>1, <2>1, <2>3
<1>5. Head(s).type # "status" => 1 \in VersionsIn(s)
  BY <1>1 DEF VersionsIn
<1> QED
  BY <1>1, <1>3, <1>4, <1>5

(* PacketTypes: versions are numbers.                                           *)
LEMMA PacketTypes ==
    ASSUME TypeOK
    PROVE  /\ version \in Nat /\ view \in Nat
           /\ \A r \in Requests : seq[r] \in Nat /\ seq[r] <= version
           /\ \A e \in Effects : snapshot[e] \in Nat /\ snapshot[e] <= version
           /\ \A c \in Conns : \A i \in VersionsIn(inbox[c]) : inbox[c][i].version \in Nat
<1>1. ASSUME NEW c \in Conns, NEW i \in VersionsIn(inbox[c]) PROVE inbox[c][i].version \in Nat
  <2>1. inbox[c][i] \in Messages /\ inbox[c][i].type # "status"
    BY DEF TypeOK, VersionsIn
  <2> QED
    BY <2>1 DEF Messages
<1> QED
  BY <1>1 DEF TypeOK

(* PacketsStay: steps after which the same is on its way and nothing more is    *)
(* answered.                                                                    *)
LEMMA PacketsStay ==
    ASSUME PacketsInv, page = "open",
           UNCHANGED <<cur, version, seq, view, overtaken, inbox>>,
           \A r \in Requests : ResultIsOut(r)' => ResultIsOut(r),
           \A e \in Effects : asked'[e] \in {"read", "answered"} =>
                                 asked'[e] = asked[e] /\ snapshot'[e] = snapshot[e]
    PROVE  PacketsInv'
<1>1. \A c \in Conns : VersionsIn(inbox'[c]) = VersionsIn(inbox[c])
  BY DEF VersionsIn
<1>2. VersionsExist' /\ OrderInv'
  BY <1>1 DEF PacketsInv, VersionsExist, OrderInv, Sorted
<1>3. \A v : Covered(cur, v) => Covered(cur, v)'
  BY DEF Covered, VersionsIn
<1>4. CoverInv'
  <2> SUFFICES ASSUME page' = "open", ~overtaken', NEW e \in Effects, NEW r \in Requests,
                      ResultIsOut(r)'
               PROVE  /\ asked'[e] = "answered" => Covered(cur, seq[r])'
                      /\ asked'[e] = "read" => seq'[r] <= snapshot'[e] \/ Covered(cur, seq[r])'
    BY DEF CoverInv
  <2>1. /\ asked[e] = "answered" => Covered(cur, seq[r])
        /\ asked[e] = "read" => seq[r] <= snapshot[e] \/ Covered(cur, seq[r])
    BY DEF PacketsInv, CoverInv
  <2> QED
    BY <1>3, <2>1
<1> QED
  BY <1>2, <1>4 DEF PacketsInv

(* PacketsVoid: steps after which the page is gone or has no answers.           *)
LEMMA PacketsVoid ==
    ASSUME PacketsInv, page = "open", UNCHANGED <<version, seq, view, overtaken>>,
           \A c \in Conns : inbox'[c] \in {inbox[c], << >>},
           page' # "open" \/ \A e \in Effects : asked'[e] \notin {"read", "answered"}
    PROVE  PacketsInv'
<1>1. \A c \in Conns : \A i \in VersionsIn(inbox'[c]) : i \in VersionsIn(inbox[c]) /\ inbox'[c][i] = inbox[c][i]
  <2> TAKE c \in Conns
  <2>1. CASE inbox'[c] = inbox[c]
    BY <2>1 DEF VersionsIn
  <2>2. CASE inbox'[c] = << >>
    BY <2>2 DEF VersionsIn
  <2> QED
    BY <2>1, <2>2
<1>2. VersionsExist' /\ OrderInv'
  BY <1>1 DEF PacketsInv, VersionsExist, OrderInv, Sorted
<1>3. CoverInv'
  BY DEF CoverInv
<1> QED
  BY <1>2, <1>3 DEF PacketsInv

(* PacketsGrow: a packet, of the version v unless it is a status, is sent to    *)
(* some connections, the page's among them if its catch-up counts on it.        *)
LEMMA PacketsGrow ==
    ASSUME TypeOK, PacketsInv, page = "open",
           NEW m \in Messages, NEW v \in Nat, NEW To \in SUBSET Conns,
           v <= version,
           m.type # "status" => m.version = v,
           \A c \in Conns : inbox'[c] = IF c \in To THEN Append(inbox[c], m) ELSE inbox[c],
           UNCHANGED <<cur, version, seq, view>>,
           overtaken => overtaken',
           ~overtaken' /\ m.type # "status" =>
               \A c \in To : ~Overtakes(c, v)
    PROVE  /\ VersionsExist' /\ OrderInv'
           /\ \A x : cur \in Conns /\ Covered(cur, x) => Covered(cur, x)'
           /\ cur \in To /\ m.type # "status" =>
                 \A x : x <= v => Covered(cur, x)'
<1> DEFINE some == m.type # "status"
<1>1. ASSUME NEW c \in To
      PROVE  /\ \A i \in VersionsIn(inbox[c]) : /\ i \in VersionsIn(inbox'[c]) /\ inbox'[c][i] = inbox[c][i]
                                        /\ i \in 1..Len(inbox[c])
             /\ \A i \in VersionsIn(inbox'[c]) \ VersionsIn(inbox[c]) :
                   i \in Nat /\ i = Len(inbox[c]) + 1 /\ inbox'[c][i].version = v /\ some
             /\ some => \E i \in VersionsIn(inbox'[c]) : inbox'[c][i].version = v
  <2>1. c \in Conns /\ inbox'[c] = Append(inbox[c], m) /\ inbox[c] \in Seq(Messages)
    BY DEF TypeOK
  <2>2. AppendedTo(inbox[c], m, inbox'[c])
    BY <2>1, Appended
  <2>3. Len(inbox[c]) \in Nat
    BY <2>1
  <2> QED
    BY <2>2, <2>3 DEF AppendedTo
<1> HIDE DEF some
<1>2. ASSUME NEW c \in Conns, c \notin To
      PROVE  /\ VersionsIn(inbox'[c]) = VersionsIn(inbox[c])
             /\ \A i \in VersionsIn(inbox[c]) : inbox'[c][i] = inbox[c][i]
  <2>1. inbox'[c] = inbox[c]
    BY <1>2
  <2> QED
    BY <2>1 DEF VersionsIn
<1>3. VersionsExist'
  <2> SUFFICES ASSUME NEW c \in Conns, NEW i \in VersionsIn(inbox'[c]) PROVE inbox'[c][i].version <= version
    BY DEF VersionsExist
  <2>1. CASE i \in VersionsIn(inbox[c])
    BY <1>1, <1>2, <2>1 DEF PacketsInv, VersionsExist
  <2>2. CASE i \notin VersionsIn(inbox[c])
    BY <1>1, <1>2, <2>2
  <2> QED
    BY <2>1, <2>2
<1>4. ASSUME page' = "open", ~overtaken', NEW c \in To
      PROVE  Sorted(c)'
  <2>0. Len(inbox[c]) \in Nat
    <3>1. inbox[c] \in Seq(Messages)
      BY DEF TypeOK
    <3> QED
      BY <3>1
  <2>1. Sorted(c) /\ view \in Nat /\ \A i \in VersionsIn(inbox[c]) : inbox[c][i].version \in Nat
    BY <1>4, PacketTypes DEF PacketsInv, OrderInv
  <2>2. ASSUME some PROVE view <= v /\ \A i \in VersionsIn(inbox[c]) : inbox[c][i].version <= v
    <3>1. ~Overtakes(c, v)
      BY <1>4, <2>2 DEF some
    <3> QED
      BY <2>1, <3>1 DEF Overtakes, VersionsIn
  <2>3. ASSUME NEW i \in VersionsIn(inbox'[c]) PROVE view <= inbox'[c][i].version
    <3>1. CASE i \in VersionsIn(inbox[c])
      BY <1>1, <2>1, <3>1 DEF Sorted
    <3>2. CASE i \notin VersionsIn(inbox[c])
      BY <1>1, <2>2, <3>2
    <3> QED
      BY <3>1, <3>2
  <2>4. ASSUME NEW i \in VersionsIn(inbox'[c]), NEW j \in VersionsIn(inbox'[c]), i < j
        PROVE  inbox'[c][i].version <= inbox'[c][j].version
    <3>1. CASE i \in VersionsIn(inbox[c]) /\ j \in VersionsIn(inbox[c])
      BY <1>1, <2>1, <2>4, <3>1 DEF Sorted
    <3>2. CASE i \in VersionsIn(inbox[c]) /\ j \notin VersionsIn(inbox[c])
      BY <1>1, <2>2, <3>2
    <3>3. CASE i \notin VersionsIn(inbox[c]) /\ j \in VersionsIn(inbox[c])
      <4>1. j \in 1..Len(inbox[c]) /\ i = Len(inbox[c]) + 1
        BY <1>1, <3>3
      <4> QED
        BY <2>0, <2>4, <4>1
    <3>4. CASE i \notin VersionsIn(inbox[c]) /\ j \notin VersionsIn(inbox[c])
      <4>1. i = Len(inbox[c]) + 1 /\ j = Len(inbox[c]) + 1
        BY <1>1, <3>4
      <4> QED
        BY <2>0, <2>4, <4>1
    <3> QED
      BY <3>1, <3>2, <3>3, <3>4
  <2> QED
    BY <2>3, <2>4 DEF Sorted
<1>5. OrderInv'
  <2> SUFFICES ASSUME page' = "open", ~overtaken', NEW c \in Conns PROVE Sorted(c)'
    BY DEF OrderInv
  <2>1. CASE c \in To
    BY <1>4, <2>1
  <2>2. CASE c \notin To
    BY <1>2, <2>2 DEF PacketsInv, OrderInv, Sorted
  <2> QED
    BY <2>1, <2>2
<1>7. ASSUME NEW x, cur \in Conns, Covered(cur, x) PROVE Covered(cur, x)'
  <2>1. CASE x <= view
    BY <2>1 DEF Covered
  <2>2. ASSUME NEW i \in VersionsIn(inbox[cur]), x <= inbox[cur][i].version PROVE Covered(cur, x)'
    <3>1. i \in VersionsIn(inbox'[cur]) /\ inbox'[cur][i] = inbox[cur][i]
      BY <1>1, <1>2, <1>7
    <3> QED
      BY <2>2, <3>1 DEF Covered, VersionsIn
  <2> QED
    BY <1>7, <2>1, <2>2 DEF Covered
<1>8. ASSUME cur \in To, some, NEW x, x <= v PROVE Covered(cur, x)'
  <2>1. PICK i \in VersionsIn(inbox'[cur]) : inbox'[cur][i].version = v
    BY <1>1, <1>8
  <2> QED
    BY <1>8, <2>1 DEF Covered, VersionsIn
<1> QED
  BY <1>3, <1>5, <1>7, <1>8 DEF some

(* PacketTaken: what a page that takes a packet shows covers what it did.       *)
LEMMA PacketTaken ==
    ASSUME TypeOK, SocketsInv, AnswersInv, PacketsInv, page = "open",
           NEW c \in Conns, Receive(c)
    PROVE  PacketsInv'
<1> DEFINE s == inbox[c]
           t == inbox'[c]
           m == Head(s)
<1> USE DEF pageVars, serviceVars
<1>1. /\ sock[c] = "up" /\ s # << >> /\ inbox' = [inbox EXCEPT ![c] = Tail(s)] /\ Handle(m)
      /\ UNCHANGED <<cur, version, seq, server, asked, snapshot, overtaken>>
  BY DEF Receive
<1>2. s \in Seq(Messages) /\ t = Tail(s) /\ \A d \in Conns \ {c} : inbox'[d] = inbox[d]
  BY <1>1 DEF TypeOK
<1>3. c = cur
  BY <1>1, OneSocket
<1>4. /\ \A i \in VersionsIn(t) : i \in Nat /\ i > 0 /\ i + 1 \in VersionsIn(s) /\ t[i] = s[i + 1]
      /\ \A i \in VersionsIn(s) : /\ i \in Nat /\ i >= 1
                                  /\ i # 1 => i - 1 \in VersionsIn(t) /\ t[i - 1] = s[i]
      /\ m = s[1]
      /\ m.type # "status" => 1 \in VersionsIn(s)
  BY <1>1, <1>2, Taken
<1>5. /\ m.type = "status" => view' = view
      /\ m.type # "status" => view' = m.version
  <2>1. m \in Messages
    BY <1>1, <1>2
  <2> HIDE DEF m
  <2> QED
    BY <1>1, <2>1 DEF Handle, Messages
<1>6. /\ version \in Nat /\ view \in Nat
      /\ \A r \in Requests : seq[r] \in Nat
      /\ \A d \in Conns : \A i \in VersionsIn(inbox[d]) : inbox[d][i].version \in Nat
  BY PacketTypes
<1> HIDE DEF t, m, s
<1>7. \A d \in Conns \ {c} : VersionsIn(inbox'[d]) = {}
  <2>1. \A d \in Conns \ {c} : inbox'[d] = << >>
    BY <1>2, <1>3 DEF AnswersInv
  <2> QED
    BY <2>1 DEF VersionsIn
<1>8. VersionsExist'
  <2> SUFFICES ASSUME NEW d \in Conns, NEW i \in VersionsIn(inbox'[d])
               PROVE  inbox'[d][i].version <= version'
    BY DEF VersionsExist
  <2>1. CASE d = c
    <3>1. i \in VersionsIn(t)
      BY <2>1 DEF t
    <3>2. i + 1 \in VersionsIn(s) /\ t[i] = s[i + 1]
      BY <1>4, <3>1
    <3>3. s[i + 1].version <= version
      BY <3>2 DEF PacketsInv, VersionsExist, s
    <3> QED
      BY <1>1, <2>1, <3>2, <3>3 DEF t
  <2>2. CASE d # c
    BY <1>7, <2>2
  <2> QED
    BY <2>1, <2>2
<1>10. ASSUME ~overtaken
       PROVE  /\ \A i \in VersionsIn(s) : view <= s[i].version /\ s[i].version \in Nat
              /\ \A i, j \in VersionsIn(s) : i < j => s[i].version <= s[j].version
              /\ view <= view'
  <2>1. Sorted(c)
    BY <1>10 DEF PacketsInv, OrderInv
  <2>2. \A i \in VersionsIn(s) : view <= s[i].version /\ s[i].version \in Nat
    BY <1>6, <2>1 DEF Sorted, s
  <2>3. \A i, j \in VersionsIn(s) : i < j => s[i].version <= s[j].version
    BY <2>1 DEF Sorted, s
  <2>4. view <= view'
    BY <1>4, <1>5, <1>6, <2>2
  <2> QED
    BY <2>2, <2>3, <2>4
<1>11. OrderInv'
  <2> SUFFICES ASSUME ~overtaken, NEW d \in Conns PROVE Sorted(d)'
    BY <1>1 DEF OrderInv
  <2>1. CASE d # c
    BY <1>7, <2>1 DEF Sorted
  <2>2. ASSUME NEW i \in VersionsIn(t) PROVE view' <= t[i].version
    <3>1. /\ i + 1 \in VersionsIn(s) /\ t[i] = s[i + 1] /\ i + 1 > 1 /\ view <= s[i + 1].version
      BY <1>4, <1>10
    <3>2. CASE m.type = "status"
      BY <1>5, <3>1, <3>2
    <3>3. CASE m.type # "status"
      BY <1>4, <1>5, <1>10, <3>1, <3>3
    <3> QED
      BY <3>2, <3>3
  <2>3. ASSUME NEW i \in VersionsIn(t), NEW j \in VersionsIn(t), i < j
        PROVE  t[i].version <= t[j].version
    <3>1. /\ i + 1 \in VersionsIn(s) /\ t[i] = s[i + 1]
          /\ j + 1 \in VersionsIn(s) /\ t[j] = s[j + 1] /\ i + 1 < j + 1
      BY <1>4, <2>3
    <3> QED
      BY <1>10, <3>1
  <2>4. CASE d = c
    BY <2>2, <2>3, <2>4 DEF Sorted, t
  <2> QED
    BY <2>1, <2>4
<1>12. ASSUME ~overtaken, NEW x \in Nat, Covered(cur, x) PROVE Covered(cur, x)'
  <2>1. CASE x <= view
    <3>1. view' \in Nat
      BY <1>4, <1>5, <1>6, <1>10, <1>12
    <3>2. x <= view'
      BY <1>6, <1>10, <1>12, <2>1, <3>1
    <3> QED
      BY <3>2 DEF Covered
  <2>2. ASSUME NEW i \in VersionsIn(s), x <= s[i].version PROVE Covered(cur, x)'
    <3>1. CASE i = 1
      <4>1. s[1].type # "status"
        BY <2>2, <3>1 DEF VersionsIn
      <4>2. view' = s[1].version
        BY <1>4, <1>5, <4>1
      <4> QED
        BY <2>2, <3>1, <4>2 DEF Covered
    <3>2. CASE i # 1
      <4>1. i - 1 \in VersionsIn(t) /\ t[i - 1] = s[i]
        BY <1>4, <3>2
      <4> QED
        BY <1>1, <1>3, <2>2, <4>1 DEF Covered, t
    <3> QED
      BY <3>1, <3>2
  <2> QED
    BY <1>3, <1>12, <2>1, <2>2 DEF Covered, s
<1>13. CoverInv'
  <2> SUFFICES ASSUME ~overtaken, NEW e \in Effects, NEW r \in Requests, ResultIsOut(r)
               PROVE  /\ asked[e] = "answered" => Covered(cur, seq[r])'
                      /\ asked[e] = "read" => seq[r] <= snapshot[e] \/ Covered(cur, seq[r])'
    BY <1>1 DEF CoverInv, ResultIsOut
  <2>1. /\ asked[e] = "answered" => Covered(cur, seq[r])
        /\ asked[e] = "read" => seq[r] <= snapshot[e] \/ Covered(cur, seq[r])
    BY DEF PacketsInv, CoverInv
  <2>2. Covered(cur, seq[r]) => Covered(cur, seq[r])'
    <3>1. seq[r] \in Nat /\ seq'[r] = seq[r]
      BY <1>1, <1>6
    <3>2. Covered(cur, seq[r]) => view' >= seq[r] \/ \E i \in VersionsIn(inbox'[cur]) : seq[r] <= inbox'[cur][i].version
      BY <1>1, <1>12, <3>1 DEF Covered
    <3> QED
      BY <1>1, <3>1, <3>2 DEF Covered
  <2> QED
    BY <2>1, <2>2
<1> QED
  BY <1>8, <1>11, <1>13 DEF PacketsInv

(* CatchUpSent: the answer comes after all that was broadcast since it was read,*)
(* or before it.                                                                *)
LEMMA CatchUpSent ==
    ASSUME TypeOK, SocketsInv, AnswersInv, PacketsInv, page = "open",
           NEW e \in Effects, SendCatchUp(e)
    PROVE  PacketsInv'
<1> USE DEF askRest, pageVars
<1> DEFINE msg == StateMsg(snapshot[e])
           v == snapshot[e]
<1>1. /\ asked[e] = "read" /\ asked' = [asked EXCEPT ![e] = "answered"]
      /\ snapshot' = [snapshot EXCEPT ![e] = 0]
      /\ inbox' = [inbox EXCEPT ![askedOn[e]] = Append(@, msg)]
      /\ overtaken' = (overtaken \/ Overtakes(askedOn[e], v))
      /\ UNCHANGED <<cur, version, seq, server, view>>
  BY DEF SendCatchUp, SendTo
<1>2. askedOn[e] = cur /\ cur \in Conns
  BY <1>1 DEF AnswersInv
<1>3. v \in Nat /\ v <= version /\ msg \in Messages /\ msg.type = "state" /\ msg.version = v
  BY PacketTypes, SendTypes DEF StateMsg
<1> HIDE DEF msg, v
<1>5. msg.type # "status"
  BY <1>3
<1>6. \A c \in Conns : inbox'[c] = IF c \in {cur} THEN Append(inbox[c], msg) ELSE inbox[c]
  BY <1>1, <1>2 DEF TypeOK
<1>7. /\ VersionsExist' /\ OrderInv'
      /\ \A x : cur \in Conns /\ Covered(cur, x) => Covered(cur, x)'
      /\ cur \in {cur} /\ msg.type # "status" => \A x : x <= v => Covered(cur, x)'
  <2>1. {cur} \in SUBSET Conns
    BY <1>2
  <2>2. overtaken => overtaken'
    BY <1>1
  <2>3. ~overtaken' /\ msg.type # "status" => \A c \in {cur} : ~Overtakes(c, v)
    BY <1>1, <1>2
  <2> QED
    BY <1>1, <1>3, <1>6, <2>1, <2>2, <2>3, PacketsGrow
<1>8. CoverInv'
  <2> SUFFICES ASSUME ~overtaken', NEW d \in Effects, NEW r \in Requests, ResultIsOut(r)
               PROVE  /\ asked'[d] = "answered" => Covered(cur, seq[r])'
                      /\ asked'[d] = "read" => seq'[r] <= snapshot'[d] \/ Covered(cur, seq[r])'
    BY <1>1 DEF CoverInv, ResultIsOut
  <2>1. /\ asked[d] = "answered" => Covered(cur, seq[r])
        /\ asked[d] = "read" => seq[r] <= snapshot[d] \/ Covered(cur, seq[r])
    BY <1>1 DEF PacketsInv, CoverInv
  <2>2. /\ Covered(cur, seq[r]) => Covered(cur, seq[r])'
        /\ seq[r] <= v => Covered(cur, seq[r])'
    BY <1>1, <1>2, <1>5, <1>7
  <2>3. CASE d = e
    BY <1>1, <2>1, <2>2, <2>3 DEF TypeOK, v
  <2>4. CASE d # e
    BY <1>1, <2>1, <2>2, <2>4 DEF TypeOK
  <2> QED
    BY <2>3, <2>4
<1> QED
  BY <1>7, <1>8 DEF PacketsInv

(* StatusTold: a status says nothing about versions.                            *)
LEMMA StatusTold ==
    ASSUME TypeOK, SocketsInv, AnswersInv, PacketsInv, page = "open", NEW r \in Requests,
           NEW m \in Messages, m.type = "status",
           Tell(r, m), UNCHANGED <<actionRest, version, seq, overtaken>>,
           \A x \in Requests : ResultIsOut(x)' => ResultIsOut(x)
    PROVE  PacketsInv'
<1> DEFINE To == {via[r]} \cap Conns
<1>1. UNCHANGED <<cur, view, asked, snapshot>>
  BY DEF actionRest, pageVars
<1>2. \A c \in Conns : inbox'[c] = IF c \in To THEN Append(inbox[c], m) ELSE inbox[c]
  <2>1. CASE via[r] = NoConn
    BY <2>1, SessionAssumption DEF Tell
  <2>2. CASE via[r] # NoConn
    BY <2>2 DEF Tell, SendTo, TypeOK
  <2> QED
    BY <2>1, <2>2
<1>4. 0 \in Nat /\ 0 <= version /\ To \in SUBSET Conns
  BY PacketTypes
<1> HIDE DEF To
<1>7. /\ VersionsExist' /\ OrderInv'
      /\ \A x : cur \in Conns /\ Covered(cur, x) => Covered(cur, x)'
  BY <1>1, <1>2, <1>4, PacketsGrow
<1>8. CoverInv'
  <2> SUFFICES ASSUME ~overtaken, NEW d \in Effects, NEW x \in Requests, ResultIsOut(x)'
               PROVE  /\ asked[d] = "answered" => Covered(cur, seq[x])'
                      /\ asked[d] = "read" => seq[x] <= snapshot[d] \/ Covered(cur, seq[x])'
    BY <1>1 DEF CoverInv
  <2>1. /\ asked[d] = "answered" => Covered(cur, seq[x])
        /\ asked[d] = "read" => seq[x] <= snapshot[d] \/ Covered(cur, seq[x])
    BY DEF PacketsInv, CoverInv
  <2>2. asked[d] \in {"read", "answered"} => cur \in Conns
    BY DEF AnswersInv
  <2> QED
    BY <1>7, <2>1, <2>2
<1> QED
  BY <1>7, <1>8 DEF PacketsInv

(* Announced: a broadcast reaches every page that waits for it.                 *)
LEMMA Announced ==
    ASSUME TypeOK, SocketsInv, AnswersInv, PacketsInv, page = "open", NEW r \in Requests,
           NEW m \in {StatusMsg("completed"), ResolvedMsg(r), TokenMsg(r)},
           Announce(m), UNCHANGED <<actionRest, version, seq>>,
           \A x \in Requests \ {r} : server'[x] = server[x],
           ResultIsOut(r)' => ResultIsOut(r) \/ m.type # "status"
    PROVE  PacketsInv'
<1> DEFINE v == seq[r]
<1>1. UNCHANGED <<cur, view, asked, snapshot, joined>>
  BY DEF actionRest, pageVars
<1>2. \A c \in Conns : inbox'[c] = IF c \in joined THEN Append(inbox[c], m) ELSE inbox[c]
  BY DEF Announce, Broadcast
<1>4. v \in Nat /\ v <= version /\ joined \in SUBSET Conns /\ m \in Messages
  BY PacketTypes, SendTypes DEF TypeOK
<1>5. m.type # "status" => m.version = v
  BY DEF ResolvedMsg, TokenMsg, StatusMsg
<1>3. overtaken' = (overtaken \/ (m.type # "status" /\ \E c \in joined : Overtakes(c, v)))
  BY <1>5 DEF Announce
<1> HIDE DEF v
<1>8. /\ VersionsExist' /\ OrderInv'
      /\ \A x : cur \in Conns /\ Covered(cur, x) => Covered(cur, x)'
      /\ cur \in joined /\ m.type # "status" => \A x : x <= v => Covered(cur, x)'
  <2>1. overtaken => overtaken'
    BY <1>3
  <2>2. ~overtaken' /\ m.type # "status" => \A c \in joined : ~Overtakes(c, v)
    BY <1>3
  <2> QED
    BY <1>1, <1>2, <1>4, <1>5, <2>1, <2>2, PacketsGrow
<1>9. CoverInv'
  <2> SUFFICES ASSUME ~overtaken', NEW d \in Effects, NEW x \in Requests, ResultIsOut(x)'
               PROVE  /\ asked[d] = "answered" => Covered(cur, seq[x])'
                      /\ asked[d] = "read" => seq[x] <= snapshot[d] \/ Covered(cur, seq[x])'
    BY <1>1 DEF CoverInv
  <2>1. asked[d] \in {"read", "answered"} => cur \in joined /\ cur \in Conns
    BY DEF AnswersInv
  <2>2. CASE x = r /\ m.type # "status"
    <3>1. seq[x] <= v
      BY <1>4, <2>2 DEF v
    <3> QED
      BY <1>8, <2>1, <2>2, <3>1
  <2>3. CASE ~(x = r /\ m.type # "status")
    <3>0. ResultIsOut(x)
      BY <2>3 DEF ResultIsOut
    <3>1. /\ asked[d] = "answered" => Covered(cur, seq[x])
          /\ asked[d] = "read" => seq[x] <= snapshot[d] \/ Covered(cur, seq[x])
      BY <1>3, <3>0 DEF PacketsInv, CoverInv
    <3> QED
      BY <1>8, <2>1, <3>1
  <2> QED
    BY <2>2, <2>3
<1> QED
  BY <1>8, <1>9 DEF PacketsInv

(* Committed: the newest version is the new one, which is not yet announced or  *)
(* nobody listens.                                                              *)
LEMMA Committed ==
    ASSUME TypeOK, AnswersInv, PacketsInv, page = "open", NEW r \in Requests,
           version' \in {version, version + 1}, seq' = [seq EXCEPT ![r] = version'],
           UNCHANGED <<cur, asked, snapshot, overtaken, inbox>>,
           \A x \in Requests \ {r} : server'[x] = server[x],
           \/ server'[r] = "committed" /\ view' = view
           \/ cur = NoConn
    PROVE  PacketsInv'
<1>1. version \in Nat /\ version' \in Nat /\ version <= version' /\ NoConn \notin Conns
  BY PacketTypes, SessionAssumption
<1>2. \A c \in Conns : \A i \in VersionsIn(inbox[c]) : inbox[c][i].version \in Nat
  BY PacketTypes
<1>3. cur = NoConn => \A c \in Conns : VersionsIn(inbox[c]) = {}
  BY <1>1 DEF AnswersInv, VersionsIn
<1>4. VersionsExist'
  BY <1>1, <1>2 DEF PacketsInv, VersionsExist
<1>5. OrderInv'
  BY <1>3 DEF PacketsInv, OrderInv, Sorted
<1>7. CoverInv'
  <2>1. CASE cur = NoConn
    BY <1>1, <2>1 DEF AnswersInv, CoverInv
  <2>2. CASE server'[r] = "committed" /\ view' = view
    <3> SUFFICES ASSUME ~overtaken, NEW d \in Effects, NEW x \in Requests, ResultIsOut(x)'
                 PROVE  /\ asked[d] = "answered" => Covered(cur, seq[x])'
                        /\ asked[d] = "read" => seq'[x] <= snapshot[d] \/ Covered(cur, seq[x])'
      BY DEF CoverInv
    <3>1. x # r /\ ResultIsOut(x) /\ seq'[x] = seq[x]
      BY <2>2 DEF TypeOK, ResultIsOut
    <3>2. /\ asked[d] = "answered" => Covered(cur, seq[x])
          /\ asked[d] = "read" => seq[x] <= snapshot[d] \/ Covered(cur, seq[x])
      BY <3>1 DEF PacketsInv, CoverInv
    <3>3. Covered(cur, seq[x]) => Covered(cur, seq[x])'
      BY <2>2, <3>1 DEF Covered
    <3> QED
      BY <3>1, <3>2, <3>3
  <2> QED
    BY <2>1, <2>2
<1> QED
  BY <1>4, <1>5, <1>7 DEF PacketsInv

(* PacketsKept: no step loses a version that the page waits for.                *)
LEMMA PacketsKept ==
    ASSUME TypeOK, SocketsInv, AnswersInv, PacketsInv, Next
    PROVE  PacketsInv'
<1>1. page = "open" /\ NoConn \notin Conns
  BY SessionAssumption DEF Next
<1> USE DEF pageVars, composerVars, serviceVars, viewVars, gatewayVars
<1>2. \A e \in Effects : asked[e] \in {"sent", "joined", "read", "answered"} =>
                            askedOn[e] = cur /\ cur \in Conns
  BY <1>1 DEF AnswersInv
<1>3. cur \notin Conns => \A e \in Effects : asked[e] \notin {"read", "answered"}
  BY <1>2
<1>4. ASSUME NEW e \in Effects, TokenArrives(e) PROVE PacketsInv'
  <2>1. UNCHANGED <<asked, version, seq, view, overtaken, inbox>>
    BY <1>4 DEF TokenArrives
  <2>2. cur = NoConn
    <3>1. Effects = {1, 2} /\ sceneKnown \in BOOLEAN /\ conn[e] = "fetching"
      BY <1>4 DEF Effects, TypeOK, TokenArrives
    <3> QED
      BY <1>1, <3>1, SessionAssumption DEF SocketsInv, Opened
  <2>3. \A e2 \in Effects : asked'[e2] \notin {"read", "answered"}
    BY <1>1, <1>3, <2>1, <2>2
  <2> QED
    BY <1>1, <2>1, <2>3, PacketsVoid
<1>5. ASSUME UNCHANGED <<cur, version, seq, view, overtaken, inbox, server, asked, snapshot>>
      PROVE  PacketsInv'
  BY <1>1, <1>5, PacketsStay DEF ResultIsOut
<1>6. ASSUME NEW e \in Effects, TokenFails(e) PROVE PacketsInv'
  BY <1>5, <1>6 DEF TokenFails
<1>7. ASSUME NEW e \in Effects, OnConnect(e) \/ JoinArrives(e) \/ CatchUpFails(e) PROVE PacketsInv'
  <2>1. /\ UNCHANGED <<cur, version, seq, view, overtaken, inbox, server, snapshot>>
        /\ \E new \in {"sent", "joined", "lost"} : asked' = [asked EXCEPT ![e] = new]
    BY <1>7 DEF OnConnect, JoinArrives, CatchUpFails, askRest
  <2>2. \A d \in Effects : asked'[d] \in {"read", "answered"} =>
                              asked'[d] = asked[d] /\ snapshot'[d] = snapshot[d]
    BY <2>1 DEF TypeOK
  <2> QED
    BY <1>1, <2>1, <2>2, PacketsStay DEF ResultIsOut
<1>8. ASSUME LoseAnswers(cur), Forget(cur), UNCHANGED <<version, seq, view, overtaken>>
      PROVE  PacketsInv'
  <2>1. \A e \in Effects : asked'[e] \notin {"read", "answered"}
    BY <1>2, <1>8 DEF LoseAnswers
  <2>2. \A c \in Conns : inbox'[c] \in {inbox[c], << >>}
    BY <1>8 DEF Forget, TypeOK
  <2> QED
    BY <1>1, <1>8, <2>1, <2>2, PacketsVoid
<1>9. CASE SceneKnown
  <2>1. UNCHANGED <<version, seq, view, overtaken>>
    BY <1>9 DEF SceneKnown, cleanupRest
  <2>2. CASE Crash
    <3>1. page' # "open" /\ inbox' = inbox
      BY <2>2 DEF Crash
    <3> QED
      BY <1>1, <2>1, <3>1, PacketsVoid
  <2>3. CASE ~CleanupThrows
    <3>1. Disconnect
      BY <1>9, <2>3 DEF SceneKnown
    <3>2. CASE Realtime
      BY <1>8, <2>1, <3>1, <3>2 DEF Disconnect
    <3>3. CASE ~Realtime
      <4>1. cur = NoConn /\ asked' = asked /\ inbox' = inbox
        BY <1>1, <3>1, <3>3, OneSocket DEF Disconnect
      <4>2. \A e \in Effects : asked'[e] \notin {"read", "answered"}
        BY <1>1, <1>3, <4>1
      <4> QED
        BY <1>1, <2>1, <4>1, <4>2, PacketsVoid
    <3> QED
      BY <3>2, <3>3
  <2> QED
    BY <1>9, <2>2, <2>3 DEF SceneKnown
<1>10. CASE LeavePage
  <2>1. UNCHANGED <<version, seq, view, overtaken>> /\ page' # "open"
    BY <1>10 DEF LeavePage, cleanupRest, Crash
  <2>2. \A c \in Conns : inbox'[c] \in {inbox[c], << >>}
    <3>1. inbox' = inbox \/ inbox' = [inbox EXCEPT ![cur] = << >>]
      BY <1>10 DEF LeavePage, Crash, Disconnect, Forget
    <3> QED
      BY <3>1 DEF TypeOK
  <2> QED
    BY <1>1, <2>1, <2>2, PacketsVoid
<1>11. ASSUME NEW c \in Conns, SocketConnects(c) \/ Recovers(c) PROVE PacketsInv'
  BY <1>5, <1>11 DEF SocketConnects, Recovers, linkRest
<1>12. ASSUME NEW c \in Conns, LinkDrops(c) PROVE PacketsInv'
  <2>1. UNCHANGED <<cur, version, seq, view, overtaken, inbox, snapshot>>
    BY <1>12 DEF LinkDrops, linkRest
  <2>2. \A r \in Requests : ResultIsOut(r)' => ResultIsOut(r)
    BY <1>12 DEF LinkDrops, ResultIsOut
  <2>3. \A d \in Effects : asked'[d] \in {"read", "answered"} => asked'[d] = asked[d]
    BY <1>12 DEF LinkDrops
  <2> QED
    BY <1>1, <2>1, <2>2, <2>3, PacketsStay
<1>13. ASSUME NEW c \in Conns, ReconnectsAnew(c) PROVE PacketsInv'
  <2>1. c = cur
    BY <1>1, <1>13, OneSocket DEF ReconnectsAnew
  <2> QED
    BY <1>8, <1>13, <2>1 DEF ReconnectsAnew, linkRest
<1>14. CASE InstanceDies
  <2>1. UNCHANGED <<version, seq, view, overtaken>>
    BY <1>14 DEF InstanceDies, linkRest
  <2>2. \A e \in Effects : asked'[e] \notin {"read", "answered"}
    BY <1>14 DEF InstanceDies
  <2>3. \A c \in Conns : inbox'[c] \in {inbox[c], << >>}
    BY <1>14 DEF InstanceDies
  <2> QED
    BY <1>1, <2>1, <2>2, <2>3, PacketsVoid
<1>15. ASSUME NEW e \in Effects, ReadCatchUp(e) PROVE PacketsInv'
  <2>1. /\ UNCHANGED <<cur, page, version, seq, view, overtaken, inbox, server>>
        /\ asked' = [asked EXCEPT ![e] = "read"] /\ snapshot' = [snapshot EXCEPT ![e] = version]
    BY <1>15 DEF ReadCatchUp, askRest
  <2>2. VersionsExist' /\ OrderInv'
    BY <2>1 DEF PacketsInv, VersionsExist, OrderInv, Sorted, VersionsIn
  <2>3. CoverInv'
    <3> SUFFICES ASSUME ~overtaken, NEW d \in Effects, NEW r \in Requests, ResultIsOut(r)
                 PROVE  /\ asked'[d] = "answered" => Covered(cur, seq[r])'
                        /\ asked'[d] = "read" => seq[r] <= snapshot'[d] \/ Covered(cur, seq[r])'
      BY <2>1 DEF CoverInv, ResultIsOut
    <3>1. Covered(cur, seq[r]) => Covered(cur, seq[r])'
      BY <2>1 DEF Covered
    <3>2. seq[r] <= version
      BY PacketTypes
    <3>3. /\ asked[d] = "answered" => Covered(cur, seq[r])
          /\ asked[d] = "read" => seq[r] <= snapshot[d] \/ Covered(cur, seq[r])
      BY <1>1 DEF PacketsInv, CoverInv
    <3>4. CASE d = e
      BY <2>1, <3>2, <3>4 DEF TypeOK
    <3>5. CASE d # e
      BY <2>1, <3>1, <3>3, <3>5 DEF TypeOK
    <3> QED
      BY <3>4, <3>5
  <2> QED
    BY <2>2, <2>3 DEF PacketsInv
<1>16. ASSUME NEW e \in Effects, SendCatchUp(e) PROVE PacketsInv'
  BY <1>1, <1>16, CatchUpSent
<1>17. ASSUME NEW r \in Own, Submit(r) PROVE PacketsInv'
  <2>1. UNCHANGED <<cur, version, seq, view, overtaken, inbox, asked, snapshot>>
    BY <1>17 DEF Submit, composerRest
  <2>2. \A x \in Requests : ResultIsOut(x)' => ResultIsOut(x)
    BY <1>17 DEF Submit, TypeOK, ResultIsOut, Requests
  <2> QED
    BY <1>1, <2>1, <2>2, PacketsStay
<1>18. ASSUME NEW r \in Own, RestAnswers(r) \/ RestFails(r) PROVE PacketsInv'
  <2>1. r \in Requests /\ cur = NoConn
    BY <1>1, <1>18, OneSocket DEF Requests, RestAnswers, RestFails
  <2>2. /\ version' \in {version, version + 1} /\ seq' = [seq EXCEPT ![r] = version']
        /\ UNCHANGED <<cur, asked, snapshot, overtaken, inbox>>
    BY <1>18 DEF RestAnswers, RestFails
  <2>3. \A x \in Requests \ {r} : server'[x] = server[x]
    BY <1>18 DEF RestAnswers, RestFails, TypeOK
  <2> QED
    BY <1>1, <2>1, <2>2, <2>3, Committed
<1>19. CASE WatchdogFires
  BY <1>5, <1>19 DEF WatchdogFires, composerRest
<1>20. ASSUME NEW r \in Requests, Hear(r) \/ Accept(r) PROVE PacketsInv'
  <2>1. StatusMsg("loading") \in Messages /\ StatusMsg("loading").type = "status"
    BY SendTypes DEF StatusMsg
  <2>2. Tell(r, StatusMsg("loading")) /\ UNCHANGED <<actionRest, version, seq, overtaken>>
    BY <1>20 DEF Hear, Accept
  <2>3. \A x \in Requests : ResultIsOut(x)' => ResultIsOut(x)
    BY <1>20 DEF Hear, Accept, TypeOK, ResultIsOut
  <2> QED
    BY <1>1, <2>1, <2>2, <2>3, StatusTold
<1>21. ASSUME NEW r \in Requests, Refuse(r) PROVE PacketsInv'
  <2>1. UNCHANGED <<cur, version, seq, view, overtaken, inbox, asked, snapshot>>
    BY <1>21 DEF Refuse, actionRest
  <2>2. \A x \in Requests : ResultIsOut(x)' => ResultIsOut(x)
    BY <1>21 DEF Refuse, TypeOK, ResultIsOut
  <2> QED
    BY <1>1, <2>1, <2>2, PacketsStay
<1>22. ASSUME NEW r \in Requests, Commit(r) PROVE PacketsInv'
  <2>1. /\ version' \in {version, version + 1} /\ seq' = [seq EXCEPT ![r] = version']
        /\ UNCHANGED <<cur, asked, snapshot, overtaken, inbox, view>>
    BY <1>22 DEF Commit, actionRest
  <2>2. server'[r] = "committed" /\ \A x \in Requests \ {r} : server'[x] = server[x]
    BY <1>22 DEF Commit, TypeOK
  <2> QED
    BY <1>1, <2>1, <2>2, Committed
<1>23. ASSUME NEW r \in Requests, PublishStatus(r) \/ PublishResult(r) \/ PublishToken(r) \/ Echo(r)
       PROVE  PacketsInv'
  <2>1. /\ UNCHANGED <<actionRest, version, seq>>
        /\ \A x \in Requests \ {r} : server'[x] = server[x]
    BY <1>23, Publishing
  <2>2. PICK m \in {StatusMsg("completed"), ResolvedMsg(r), TokenMsg(r)} :
           /\ Announce(m)
           /\ ResultIsOut(r)' => ResultIsOut(r) \/ m.type # "status"
    BY <1>23, Publishing
  <2> QED
    BY <1>1, <2>1, <2>2, Announced
<1>24. ASSUME NEW c \in Conns, Receive(c) PROVE PacketsInv'
  BY <1>1, <1>24, PacketTaken
<1> QED
  BY <1>4, <1>6, <1>7, <1>9, <1>10, <1>11, <1>12, <1>13, <1>14, <1>15, <1>16, <1>17, <1>18,
     <1>19, <1>20, <1>21, <1>22, <1>23, <1>24 DEF Next

--------------------------------------------------------------------------------
(* Theorems. *)

(* StepInductive: every step keeps the invariant.                               *)
LEMMA StepInductive == IInv /\ [Next]_vars => IInv'
<1> SUFFICES ASSUME IInv, [Next]_vars PROVE IInv'
  OBVIOUS
<1>1. TypeOK /\ SocketsInv /\ AnswersInv /\ PacketsInv /\ VersionsCounted
  BY DEF IInv
<1>2. CASE Next
  <2>1. page = "open"
    BY <1>2 DEF Next
  <2>2. TypeOK' /\ VersionsCounted'
    BY <1>1, <1>2, <2>1, PageTypes, LinkTypes, ServiceTypes, VersionTypes, ReceiveTypes
       DEF Next, PacketsInv
  <2> QED
    BY <1>1, <1>2, <2>2, SocketsKept, AnswersKept, PacketsKept DEF IInv
<1>3. CASE UNCHANGED vars
  <2> USE <1>3 DEF vars, pageVars, composerVars, serviceVars, viewVars, gatewayVars
  <2>1. TypeOK'
    BY <1>1 DEF TypeOK
  <2>2. SocketsInv' /\ AnswersInv'
    BY <1>1 DEF SocketsInv, Opened, Realtime, AnswersInv
  <2>3. VersionsExist' /\ OrderInv'
    BY <1>1 DEF PacketsInv, VersionsExist, OrderInv, Sorted, VersionsIn
  <2>4. CoverInv'
    BY <1>1 DEF PacketsInv, CoverInv, Covered, VersionsIn, ResultIsOut
  <2>5. VersionsCounted'
    BY <1>1 DEF VersionsCounted, Ended
  <2> QED
    BY <2>1, <2>2, <2>3, <2>4, <2>5 DEF IInv, PacketsInv
<1> QED
  BY <1>2, <1>3

(* Invariance: what holds on the page, at the service and on the way between.   *)
THEOREM Invariance == Spec => []IInv
<1>1. Init => IInv
  BY InitInductive
<1>2. IInv /\ [Next]_vars => IInv'
  BY StepInductive
<1> QED
  BY <1>1, <1>2, PTL DEF Spec

(* TypeCorrect: every variable has its type in every reachable state.           *)
THEOREM TypeCorrect == Spec => []TypeOK
<1>1. IInv => TypeOK
  BY DEF IInv
<1> QED
  BY <1>1, Invariance, PTL

(* SocketIsTheClients: connect() of an effect that was cleaned up or is polling *)
(* yet never leaves an open page with a socket that RealtimeClient has lost.    *)
THEOREM SocketIsTheClients == Spec => []OneLiveSocket
<1>1. IInv => OneLiveSocket
  BY OneSocket DEF IInv, OneLiveSocket
<1> QED
  BY <1>1, Invariance, PTL

(* CatchUpMissesNothing: wherever the catch-up is read between the broadcasts,  *)
(* a page that has all its packets shows the newest markers, once they are out  *)
(* and unless older ones followed them.                                         *)
THEOREM CatchUpMissesNothing == Spec => []Converges
<1>1. ASSUME IInv PROVE Converges
  <2> SUFFICES ASSUME Settled, NewestIsOut, ~overtaken PROVE view = version
    BY DEF Converges
  <2>1. page = "open" /\ cur \in Conns /\ inbox[cur] = << >>
    BY <1>1 DEF Settled, ClientConnected, IInv, TypeOK
  <2>2. PICK e \in Effects : asked[e] = "answered"
    BY DEF Settled
  <2>3. VersionsIn(inbox[cur]) = {}
    BY <2>1 DEF VersionsIn
  <2>4. \A r \in Requests : ResultIsOut(r) => seq[r] <= view
    BY <1>1, <2>1, <2>2, <2>3 DEF IInv, PacketsInv, CoverInv, Covered
  <2>5. version \in Nat /\ view \in Nat /\ view <= version
    BY <1>1 DEF IInv, TypeOK
  <2>6. version <= view
    BY <2>4, <2>5 DEF NewestIsOut
  <2> QED
    BY <2>5, <2>6
<1> QED
  BY <1>1, Invariance, PTL

(* StatusSticks: of all steps only the arrival of a status without a timer      *)
(* leaves the composer loading for good.                                        *)
LEMMA StatusSticks ==
    ASSUME IInv, Next, ~Stuck, Stuck'
    PROVE  /\ ~watchdog
           /\ \E c \in Conns : /\ inbox[c] # << >>
                               /\ inbox'[c] = Tail(inbox[c])
                               /\ Head(inbox[c]).type = "status"
<1>1. TypeOK /\ page = "open"
  BY DEF IInv, Next
<1>2. status' = "loading" /\ ~watchdog'
  BY DEF Stuck, Loading
<1>3. ~(status' = status /\ watchdog' = watchdog)
  BY <1>1, <1>2 DEF Stuck, Loading
<1> USE DEF composerVars
<1>4. ASSUME NEW e \in Effects,
             \/ TokenArrives(e) \/ TokenFails(e) \/ OnConnect(e) \/ JoinArrives(e)
             \/ ReadCatchUp(e) \/ CatchUpFails(e) \/ SendCatchUp(e)
      PROVE  FALSE
  BY <1>3, <1>4 DEF TokenArrives, TokenFails, OnConnect, JoinArrives, ReadCatchUp, CatchUpFails,
                    SendCatchUp, askRest
<1>5. ASSUME NEW c \in Conns, SocketConnects(c) \/ LinkDrops(c) \/ Recovers(c) \/ ReconnectsAnew(c)
      PROVE  FALSE
  BY <1>3, <1>5 DEF SocketConnects, LinkDrops, Recovers, ReconnectsAnew, linkRest
<1>6. ~SceneKnown /\ ~LeavePage /\ ~InstanceDies
  BY <1>3 DEF SceneKnown, LeavePage, InstanceDies, linkRest, cleanupRest
<1>7. ASSUME NEW r \in Requests, ServiceStep(r)
      PROVE  FALSE
  BY <1>3, <1>7 DEF ServiceStep, Hear, Accept, Refuse, Commit, PublishStatus, PublishResult, PublishToken,
       PublishStep, Echo, actionRest
<1>8. ASSUME NEW r \in Own, Submit(r) \/ RestAnswers(r) \/ RestFails(r) PROVE FALSE
  BY <1>2, <1>8 DEF Submit, RestAnswers, RestFails, SetStatus
<1>9. ~WatchdogFires
  BY <1>2 DEF WatchdogFires, SetStatus
<1>10. PICK c \in Conns : Receive(c)
  BY <1>4, <1>5, <1>6, <1>7, <1>8, <1>9 DEF Next, ServiceStep
<1>11. inbox[c] # << >> /\ inbox'[c] = Tail(inbox[c]) /\ Handle(Head(inbox[c]))
  BY <1>1, <1>10 DEF Receive, TypeOK
<1>12. Head(inbox[c]).type = "status" /\ watchdog' = watchdog
  BY <1>2, <1>3, <1>11 DEF Handle, SetStatus
<1> QED
  BY <1>2, <1>11, <1>12

(* StuckOnlyByLateStatus: however packets, timers and submissions interleave,   *)
(* the composer sticks in one way only.                                         *)
THEOREM StuckOnlyByLateStatus == Spec => OnlyLateStatusSticks
<1>1. IInv /\ [Next]_vars =>
          [~Stuck /\ Stuck' =>
             /\ ~watchdog
             /\ \E c \in Conns : /\ inbox[c] # << >>
                                 /\ inbox'[c] = Tail(inbox[c])
                                 /\ Head(inbox[c]).type = "status"]_vars
  BY StatusSticks
<1> QED
  BY <1>1, Invariance, PTL DEF Spec, OnlyLateStatusSticks

(* LinkDeafens: a page that hears goes on hearing until its link is back.       *)
LEMMA LinkDeafens ==
    ASSUME IInv, Next, ~Deaf, Deaf'
    PROVE  \E c \in Conns : sock[c] = "lost" /\ sock'[c] = "up"
<1> SUFFICES ASSUME \A c \in Conns : ~(sock[c] = "lost" /\ sock'[c] = "up")
             PROVE  FALSE
  OBVIOUS
<1> USE DEF pageVars, composerVars, serviceVars, viewVars, gatewayVars
<1>1. TypeOK /\ SocketsInv /\ AnswersInv /\ page = "open" /\ NoConn \notin Conns
  BY SessionAssumption DEF IInv, Next
<1>2. /\ page' = "open" /\ connected' /\ cur' # NoConn /\ sock'[cur'] = "up" /\ cur' \notin joined'
      /\ ~\E e \in Effects : asked'[e] = "sent" /\ askedOn'[e] = cur'
  BY DEF Deaf, ClientConnected
<1>3. ~UNCHANGED <<connected, sock, cur, joined, asked, askedOn>>
  <2> SUFFICES ASSUME UNCHANGED <<connected, sock, cur, joined, asked, askedOn>> PROVE FALSE
    OBVIOUS
  <2>1. cur # NoConn /\ sock[cur] = "up" /\ connected
    BY <1>2
  <2> QED
    BY <1>1, <1>2, <2>1 DEF Deaf, ClientConnected
<1>4. ASSUME NEW e \in Effects, TokenArrives(e) PROVE FALSE
  <2>1. Effects = {1, 2} /\ sceneKnown \in BOOLEAN /\ conn[e] = "fetching" /\ connected'= connected
    BY <1>1, <1>4 DEF Effects, TypeOK, TokenArrives
  <2>2. Realtime /\ cur = NoConn
    BY <1>1, <2>1 DEF SocketsInv, Opened
  <2> QED
    BY <1>1, <1>2, <2>1, <2>2 DEF SocketsInv
<1>5. ASSUME NEW e \in Effects, OnConnect(e) PROVE FALSE
  <2>1. asked'[e] = "sent" /\ askedOn'[e] = cur'
    BY <1>1, <1>5 DEF OnConnect, TypeOK
  <2> QED
    BY <1>2, <2>1
<1>6. ASSUME NEW e \in Effects, TokenFails(e) PROVE FALSE
  BY <1>3, <1>6 DEF TokenFails
<1>7. ~SceneKnown
  BY <1>2 DEF SceneKnown, Disconnect, Crash
<1>8. ~LeavePage
  BY <1>2 DEF LeavePage, Crash
<1>9. ASSUME NEW c \in Conns, SocketConnects(c) PROVE FALSE
  <2>1. sock[c] = "connecting" /\ UNCHANGED <<connected, cur, joined, asked, askedOn>>
    BY <1>9 DEF SocketConnects
  <2>2. c = cur
    BY <1>1, <2>1, OneSocket
  <2>3. Realtime /\ connected
    BY <1>1, <1>2, <2>1, <2>2, OneSocket
  <2> QED
    BY <1>1, <2>1, <2>2, <2>3 DEF SocketsInv
<1>10. ASSUME NEW c \in Conns, LinkDrops(c) PROVE FALSE
  <2>1. sock[c] = "up" /\ sock'[c] = "lost" /\ cur' = cur
    BY <1>1, <1>10 DEF LinkDrops, linkRest, TypeOK
  <2>2. c = cur
    BY <1>1, <2>1, OneSocket
  <2> QED
    BY <1>2, <2>1, <2>2
<1>11. ASSUME NEW c \in Conns, Recovers(c) \/ ReconnectsAnew(c) PROVE FALSE
  BY <1>1, <1>11 DEF Recovers, ReconnectsAnew, TypeOK
<1>12. CASE InstanceDies
  <2>1. cur' = cur /\ sock' = [c \in Conns |-> IF sock[c] = "up" THEN "lost" ELSE sock[c]]
    BY <1>12 DEF InstanceDies, linkRest
  <2>2. cur \in Conns
    BY <1>1, <1>2, <2>1 DEF TypeOK
  <2> QED
    BY <1>2, <2>1, <2>2
<1>13. ASSUME NEW e \in Effects, JoinArrives(e) PROVE FALSE
  <2>1. /\ asked[e] = "sent" /\ joined' = joined \cup {askedOn[e]}
        /\ UNCHANGED <<connected, sock, cur, askedOn>>
    BY <1>13 DEF JoinArrives, Join, askRest
  <2>2. askedOn[e] = cur
    BY <1>1, <2>1 DEF AnswersInv
  <2> QED
    BY <1>2, <2>1, <2>2
<1>14. ASSUME NEW e \in Effects, ReadCatchUp(e) \/ CatchUpFails(e) \/ SendCatchUp(e) PROVE FALSE
  <2>1. /\ asked[e] \in {"joined", "read"} /\ UNCHANGED <<cur, joined>>
    BY <1>14 DEF ReadCatchUp, CatchUpFails, SendCatchUp, askRest
  <2>2. cur \in joined
    BY <1>1, <2>1 DEF AnswersInv
  <2> QED
    BY <1>2, <2>1, <2>2
<1>15. ASSUME NEW r \in Requests, ServiceStep(r)
       PROVE  FALSE
  BY <1>3, <1>15 DEF ServiceStep, Hear, Accept, Refuse, Commit, PublishStatus, PublishResult, PublishToken,
       PublishStep, Echo, actionRest
<1>16. ASSUME NEW r \in Own, Submit(r) \/ RestAnswers(r) \/ RestFails(r) PROVE FALSE
  BY <1>3, <1>16 DEF Submit, RestAnswers, RestFails, composerRest
<1>17. ~WatchdogFires
  BY <1>3 DEF WatchdogFires, composerRest
<1>18. ASSUME NEW c \in Conns, Receive(c) PROVE FALSE
  BY <1>3, <1>18 DEF Receive
<1> QED
  BY <1>4, <1>5, <1>6, <1>7, <1>8, <1>9, <1>10, <1>11, <1>12, <1>13, <1>14, <1>15, <1>16, <1>17,
     <1>18 DEF Next, ServiceStep

(* DeafOnlyAfterReconnect: a page that says Live and hears nothing has lost its *)
(* link before.                                                                 *)
THEOREM DeafOnlyAfterReconnect == Spec => OnlyReconnectsDeafen
<1>1. IInv /\ [Next]_vars =>
          [~Deaf /\ Deaf' => \E c \in Conns : sock[c] = "lost" /\ sock'[c] = "up"]_vars
  BY LinkDeafens
<1> QED
  BY <1>1, Invariance, PTL DEF Spec, OnlyReconnectsDeafen
================================================================================
