----------------------------- MODULE PlayPageProofs -----------------------------
(* Proofs about PlayPage for every number of changes, requests and polls.       *)
EXTENDS PlayPage, FiniteSetTheorems, TLAPS

--------------------------------------------------------------------------------
(* The inductive invariant.  That the page converges when nothing is in flight  *)
(* is not inductive: while requests are in flight, what it promises is still on *)
(* its way.  What a map draws when it has loaded is pending in the same sense.  *)

\* What was due is shown or asked for.
DueIsComing ==
    \/ panels.version >= due
    \/ \E q \in Requests("panels") : q.read >= due

TurnsAreComing ==
    SceneKnown => panels.turns \/ \E q \in Requests("panels") : q.scene

NewsIsComing ==
    \/ Ready /\ campaign.version >= heard
    \/ \E q \in Requests("campaign") : q.read >= heard

FetchesInv == ~fetchTrouble => DueIsComing /\ TurnsAreComing /\ NewsIsComing

\* A page that is shown has a campaign.
ReadyHasCampaign == Ready => SceneKnown

\* A map shows the markers, or draws them when it has loaded.
MapsInv ==
    ~mapTrouble =>
        \A m \in OnPage :
            IF m \in loaded THEN shows[m] = MarkersOf(campaign)
                            ELSE pending[m] = MarkersOf(campaign)

IInv == TypeOK /\ IsFiniteSet(loads) /\ FetchesInv /\ ReadyHasCampaign /\ MapsInv

--------------------------------------------------------------------------------
(* SendIsFinite: what is in flight stays finite, whatever is sent.              *)
LEMMA SendIsFinite ==
    ASSUME IsFiniteSet(loads), NEW q, NEW r,
           loads' = loads \cup {q} \/ loads' = loads \cup {q, r} \/ loads' = loads \ {q}
              \/ loads' = (loads \ {q}) \cup {r} \/ loads' = (loads \ {q}) \cup {}
              \/ loads' = loads
    PROVE  IsFiniteSet(loads)'
<1>1. IsFiniteSet(loads \cup {q}) /\ IsFiniteSet(loads \ {q})
  BY FS_AddElement, FS_RemoveElement
<1>2. IsFiniteSet((loads \cup {q}) \cup {r}) /\ IsFiniteSet((loads \ {q}) \cup {r})
  BY <1>1, FS_AddElement
<1>3. (loads \cup {q}) \cup {r} = loads \cup {q, r} /\ (loads \ {q}) \cup {} = loads \ {q}
  OBVIOUS
<1> QED
  BY <1>1, <1>2, <1>3

(* AnswerIsBounded: an answered request makes room for the one it causes.       *)
LEMMA AnswerIsBounded ==
    ASSUME IsFiniteSet(loads), Cardinality(loads) <= MaxInFlight, NEW q \in loads, NEW r,
           loads' = loads \ {q} \/ loads' = (loads \ {q}) \cup {r}
              \/ loads' = (loads \ {q}) \cup {}
    PROVE  (Cardinality(loads) <= MaxInFlight)'
<1>1. /\ IsFiniteSet(loads \ {q})
      /\ Cardinality(loads \ {q}) = Cardinality(loads) - 1
  BY FS_RemoveElement
<1>2. Cardinality((loads \ {q}) \cup {r}) <= Cardinality(loads \ {q}) + 1
  <2>1. Cardinality(loads \ {q}) \in Nat
    BY <1>1, FS_CardinalityType
  <2> QED
    BY <1>1, <2>1, FS_AddElement
<1>3. Cardinality(loads) \in Nat
  BY FS_CardinalityType
<1>4. (loads \ {q}) \cup {} = loads \ {q}
  OBVIOUS
<1>5. /\ Cardinality(loads \ {q}) <= MaxInFlight
      /\ Cardinality((loads \ {q}) \cup {r}) <= MaxInFlight
  <2>1. Cardinality(loads \ {q}) \in Nat /\ Cardinality((loads \ {q}) \cup {r}) \in Nat
    BY <1>1, FS_AddElement, FS_CardinalityType
  <2> QED
    BY <1>1, <1>2, <1>3, <2>1, PageAssumption
<1>6. loads' = loads \ {q} \/ loads' = (loads \ {q}) \cup {r}
  BY <1>4
<1> QED
  BY <1>5, <1>6

(* RequestsAreLoads: the requests that the page sends are of the type of loads. *)
LEMMA RequestsAreLoads ==
    ASSUME TypeOK, NEW scene \in BOOLEAN, NEW v \in Versions
    PROVE  PanelLoad(scene, v) \in LoadType /\ CampaignLoad(v) \in LoadType
BY DEF TypeOK, PanelLoad, CampaignLoad, LoadType

(* InitInductive: the page opens with its two requests.                         *)
LEMMA InitInductive == Init => IInv
<1> SUFFICES ASSUME Init PROVE IInv
  OBVIOUS
<1>1. loads \subseteq LoadType
  <2>1. 0 \in Versions
    BY PageAssumption DEF Versions
  <2>2. PanelLoad(FALSE, 0) \in LoadType /\ CampaignLoad(0) \in LoadType
    BY <2>1 DEF PanelLoad, CampaignLoad, LoadType, Init
  <2> QED
    BY <2>2 DEF Init
<1>2. IsFiniteSet(loads) /\ Cardinality(loads) <= MaxInFlight
  <2> DEFINE p == PanelLoad(FALSE, 0)
             c == CampaignLoad(0)
  <2>1. IsFiniteSet({p}) /\ Cardinality({p}) = 1
    BY FS_Singleton
  <2>2. IsFiniteSet({p} \cup {c}) /\ Cardinality({p} \cup {c}) <= 2
    <3> HIDE DEF p, c
    <3>1. Cardinality({p} \cup {c}) = IF c \in {p} THEN 1 ELSE 1 + 1
      BY <2>1, FS_AddElement
    <3> QED
      BY <2>1, <3>1, FS_AddElement
  <2>3. loads = {p} \cup {c}
    BY DEF Init
  <2> HIDE DEF p, c
  <2>4. IsFiniteSet(loads) /\ Cardinality(loads) <= 2
    BY <2>2, <2>3
  <2>5. Cardinality(loads) \in Nat
    BY <2>4, FS_CardinalityType
  <2>6. MaxInFlight \in Nat /\ 2 <= MaxInFlight
    BY PageAssumption
  <2> QED
    BY <2>4, <2>5, <2>6
<1>3. TypeOK
  <2>1. /\ version \in Versions /\ 0 \in 0..version /\ polls \in 0..(MaxPolls + 1)
    BY PageAssumption DEF Init, Versions
  <2>2. pending \in [Maps -> Versions \cup {None}] /\ shows \in [Maps -> Versions \cup {None}]
    BY DEF Init
  <2> QED
    BY <1>1, <1>2, <2>1, <2>2 DEF Init, TypeOK
<1>4. FetchesInv
  <2> DEFINE p == PanelLoad(FALSE, 0)
             c == CampaignLoad(0)
  <2>1. /\ p \in Requests("panels") /\ p.read = 0
        /\ c \in Requests("campaign") /\ c.read = 0
    BY DEF Init, Requests, PanelLoad, CampaignLoad
  <2> HIDE DEF p, c
  <2>2. due = 0 /\ heard = 0
    BY DEF Init
  <2>3. DueIsComing
    BY <2>1, <2>2 DEF DueIsComing
  <2>4. NewsIsComing
    BY <2>1, <2>2 DEF NewsIsComing
  <2>5. ~SceneKnown
    BY DEF Init, SceneKnown
  <2> QED
    BY <2>3, <2>4, <2>5 DEF FetchesInv, TurnsAreComing
<1>5. ReadyHasCampaign /\ MapsInv
  BY DEF Init, ReadyHasCampaign, MapsInv, Ready, OnPage, Mounted
<1> QED
  BY <1>2, <1>3, <1>4, <1>5 DEF IInv

--------------------------------------------------------------------------------
(* Maps.  Each way of drawing keeps what is drawn and what is pending current.  *)

(* RedrawCurrent: all maps of the page are told of v.                           *)
LEMMA RedrawCurrent ==
    ASSUME IInv, NEW v \in Versions, Redraw(v), UNCHANGED <<loadState, mapTab>>,
           MarkersOf(campaign)' = v
    PROVE  MapsInv'
<1> SUFFICES ASSUME ~mapTrouble', NEW m \in OnPage'
             PROVE  IF m \in loaded' THEN shows'[m] = v ELSE pending'[m] = v
  BY DEF MapsInv
<1>1. OnPage' = OnPage /\ OnPage \in {{}, Maps, {"desktop"}}
  BY DEF OnPage, Mounted
<1>2. /\ loaded' = loaded
      /\ pending' = [n \in Maps |-> IF n \in OnPage \ loaded THEN v ELSE pending[n]]
  BY DEF Redraw
<1>3. m \in Maps
  BY <1>1 DEF Maps
<1>4. CASE m \in loaded
  <2>1. PICK skipped \in SUBSET (loaded \cap OnPage) :
           LET drawing == (loaded \cap OnPage) \ skipped
               last == IF "desktop" \in drawing THEN "desktop" ELSE "mobile"
           IN  /\ shows' = IF drawing = {} THEN shows
                           ELSE [n \in Maps |-> IF n = last THEN v ELSE None]
               /\ mapTrouble' = (mapTrouble \/ skipped # {} \/ (drawing # {} /\ OnPage = Maps))
    BY DEF Redraw
  <2>2. skipped = {}
    BY <2>1
  <2>3. m \in (loaded \cap OnPage) \ skipped
    BY <1>1, <1>4, <2>2
  <2>4. OnPage # Maps
    BY <2>1, <2>3
  <2>5. m = "desktop"
    BY <1>1, <2>4
  <2>6. shows' = [n \in Maps |-> IF n = "desktop" THEN v ELSE None]
    BY <2>1, <2>3, <2>5
  <2> QED
    BY <1>2, <1>3, <1>4, <2>5, <2>6
<1>5. CASE m \notin loaded
  BY <1>1, <1>2, <1>3, <1>5
<1> QED
  BY <1>4, <1>5

(* RebuildCurrent: maps built anew draw v; the others are left as they were.    *)
LEMMA RebuildCurrent ==
    ASSUME IInv, NEW M \in SUBSET Maps, NEW v, Rebuild(M, v),
           ~mapTrouble' => /\ ~mapTrouble \/ OnPage' \subseteq M
                           /\ v = MarkersOf(campaign)' \/ OnPage' \cap M = {}
                           /\ OnPage' \ M \subseteq OnPage
                           /\ OnPage' \subseteq M \/ MarkersOf(campaign)' = MarkersOf(campaign)
    PROVE  MapsInv'
<1>1. OnPage' \subseteq Maps
  BY DEF OnPage, Mounted, Maps
<1> QED
  BY <1>1 DEF MapsInv, Rebuild, IInv, TypeOK

--------------------------------------------------------------------------------
(* Types. *)

(* RedrawTypes, RebuildTypes: what maps draw is a version.                      *)
LEMMA RedrawTypes ==
    ASSUME TypeOK, NEW v \in Versions, Redraw(v)
    PROVE  /\ loaded' \subseteq Maps
           /\ pending' \in [Maps -> Versions \cup {None}]
           /\ shows' \in [Maps -> Versions \cup {None}]
           /\ mapTrouble' \in BOOLEAN
BY DEF TypeOK, Redraw

LEMMA RebuildTypes ==
    ASSUME TypeOK, NEW M, NEW v \in Versions \cup {None}, Rebuild(M, v)
    PROVE  /\ loaded' \subseteq Maps
           /\ pending' \in [Maps -> Versions \cup {None}]
           /\ shows' \in [Maps -> Versions \cup {None}]
BY DEF TypeOK, Rebuild

(* MarkersTyped: the markers of a campaign are a version.                       *)
LEMMA MarkersTyped ==
    ASSUME TypeOK
    PROVE  /\ MarkersOf(campaign) \in Versions \cup {None}
           /\ \A q \in LoadType : MarkersOf([version |-> q.read, map |-> q.art]) \in Versions
BY PageAssumption DEF TypeOK, MarkersOf, NoCampaign, Versions, LoadType

(* TypeStep: every step keeps the types.                                        *)
LEMMA TypeStep ==
    ASSUME IInv, [Next]_vars
    PROVE  TypeOK'
<1> USE PageAssumption DEF IInv, dataVars, pageVars, panelVars, mapVars, troubles
<1>1. CASE DataChange
  BY <1>1 DEF TypeOK, DataChange, Versions
<1>2. CASE ArtReady
  BY <1>2 DEF TypeOK, ArtReady
<1>3. CASE Resolved
  <2>1. version \in Versions /\ version \in 0..version /\ SceneKnown \in BOOLEAN
    BY DEF TypeOK, Versions, SceneKnown
  <2>2. loads' \subseteq LoadType /\ Cardinality(loads)' <= MaxInFlight
    BY <1>3, <2>1, RequestsAreLoads DEF TypeOK, Resolved, Send
  <2>3. /\ loaded' \subseteq Maps
        /\ pending' \in [Maps -> Versions \cup {None}]
        /\ shows' \in [Maps -> Versions \cup {None}]
        /\ mapTrouble' \in BOOLEAN
    BY <1>3, <2>1, RedrawTypes DEF TypeOK, Resolved
  <2> QED
    BY <1>3, <2>1, <2>2, <2>3 DEF TypeOK, Resolved
<1>4. CASE HostChanges
  <2>1. version + 1 \in Versions /\ SceneKnown \in BOOLEAN
    BY <1>4 DEF HostChanges, TypeOK, Versions, SceneKnown
  <2>2. loads' \subseteq LoadType /\ Cardinality(loads)' <= MaxInFlight
    BY <1>4, <2>1, RequestsAreLoads DEF TypeOK, HostChanges, Send
  <2>3. heard' \in 0..version' /\ due' \in 0..version'
    BY <1>4, <2>1 DEF HostChanges, TypeOK, Versions
  <2> QED
    BY <1>4, <2>1, <2>2, <2>3 DEF TypeOK, HostChanges
<1>5. CASE Poll
  <2>1. loads' \subseteq LoadType /\ Cardinality(loads)' <= MaxInFlight
    BY <1>5, RequestsAreLoads DEF TypeOK, Poll, Send
  <2>2. polls' \in 0..(MaxPolls + 1)
    BY <1>5 DEF TypeOK, Poll
  <2> QED
    BY <1>5, <2>1, <2>2 DEF TypeOK, Poll
<1>6. CASE ToggleMapTab
  <2>1. /\ loaded' \subseteq Maps
        /\ pending' \in [Maps -> Versions \cup {None}]
        /\ shows' \in [Maps -> Versions \cup {None}]
    <3> DEFINE v == IF ~mapTab THEN MarkersOf(campaign) ELSE None
    <3>1. v \in Versions \cup {None}
      BY MarkersTyped
    <3>2. Rebuild({"mobile"}, v)
      BY <1>6 DEF ToggleMapTab
    <3> QED
      BY <3>1, <3>2, RebuildTypes
  <2> QED
    BY <1>6, <2>1 DEF TypeOK, ToggleMapTab
<1>7. ASSUME NEW m \in Maps, MapLoads(m) PROVE TypeOK'
  BY <1>7 DEF TypeOK, MapLoads
<1>8. ASSUME NEW q \in loads, PanelsAnswer(q) PROVE TypeOK'
  <2>1. Cardinality(loads)' <= MaxInFlight
    BY <1>8, AnswerIsBounded DEF TypeOK, PanelsAnswer
  <2>2. panels' \in [version : Versions, turns : BOOLEAN] /\ fetchTrouble' \in BOOLEAN
    BY <1>8 DEF TypeOK, PanelsAnswer, LoadType
  <2> QED
    BY <1>8, <2>1, <2>2 DEF TypeOK, PanelsAnswer
<1>9. ASSUME NEW q \in loads, PanelsFail(q) \/ CampaignRejects(q) PROVE TypeOK'
  <2>1. Cardinality(loads)' <= MaxInFlight
    BY <1>9, AnswerIsBounded DEF TypeOK, PanelsFail, CampaignRejects
  <2> QED
    BY <1>9, <2>1 DEF TypeOK, PanelsFail, CampaignRejects
<1>10. ASSUME NEW q \in loads, CampaignFails(q) PROVE TypeOK'
  <2>1. Cardinality(loads)' <= MaxInFlight
    BY <1>10, AnswerIsBounded DEF TypeOK, CampaignFails
  <2>2. /\ loaded' \subseteq Maps
        /\ pending' \in [Maps -> Versions \cup {None}]
        /\ shows' \in [Maps -> Versions \cup {None}]
    BY <1>10, RebuildTypes DEF CampaignFails
  <2> QED
    BY <1>10, <2>1, <2>2 DEF TypeOK, CampaignFails
<1>11. ASSUME NEW q \in loads, CampaignAnswers(q) PROVE TypeOK'
  <2> DEFINE c == [version |-> q.read, map |-> q.art]
  <2>1. q \in LoadType /\ c \in [version : Versions, map : BOOLEAN]
    BY DEF TypeOK, LoadType
  <2>2. Cardinality(loads)' <= MaxInFlight
    BY <1>11, AnswerIsBounded DEF TypeOK, CampaignAnswers
  <2>3. loads' \subseteq LoadType
    <3>1. version \in Versions
      BY DEF TypeOK
    <3>2. PanelLoad(TRUE, version) \in LoadType
      BY <3>1, RequestsAreLoads
    <3> QED
      BY <1>11, <3>2 DEF TypeOK, CampaignAnswers
  <2>4. /\ loaded' \subseteq Maps
        /\ pending' \in [Maps -> Versions \cup {None}]
        /\ shows' \in [Maps -> Versions \cup {None}]
        /\ mapTrouble' \in BOOLEAN
    <3>1. ShowCampaign(c)
      BY <1>11 DEF CampaignAnswers
    <3>2. c.version \in Versions /\ MarkersOf(c) \in Versions
      BY <2>1, MarkersTyped
    <3>3. CASE ~Ready
      BY <3>1, <3>2, <3>3, RebuildTypes DEF ShowCampaign, TypeOK
    <3>4. CASE Rebuild(OnPage, IF heard > 0 THEN None ELSE c.version)
               /\ mapTrouble' = (mapTrouble \/ heard > 0)
      <4>1. (IF heard > 0 THEN None ELSE c.version) \in Versions \cup {None}
        BY <3>2
      <4> QED
        BY <3>4, <4>1, RebuildTypes DEF TypeOK
    <3>5. CASE Redraw(c.version)
      BY <3>2, <3>5, RedrawTypes
    <3>6. CASE UNCHANGED <<loaded, pending, shows, mapTrouble>>
      BY <3>6 DEF TypeOK
    <3> HIDE DEF c
    <3> QED
      BY <3>1, <3>3, <3>4, <3>5, <3>6 DEF ShowCampaign
  <2>5. fetchTrouble' \in BOOLEAN /\ polls' \in 0..(MaxPolls + 1)
    BY <1>11 DEF TypeOK, CampaignAnswers
  <2>6. /\ campaign' = c
        /\ loadState' = "ready"
        /\ UNCHANGED <<dataVars, heard, panelVars, mapTab>>
    BY <1>11 DEF CampaignAnswers
  <2> HIDE DEF c
  <2> QED
    BY <2>1, <2>2, <2>3, <2>4, <2>5, <2>6 DEF TypeOK
<1>12. CASE UNCHANGED vars
  BY <1>12 DEF TypeOK, vars
<1> QED
  BY <1>1, <1>2, <1>3, <1>4, <1>5, <1>6, <1>7, <1>8, <1>9, <1>10, <1>11, <1>12 DEF Next, Answer

--------------------------------------------------------------------------------
(* Requests. *)

(* FetchesStep: what a step makes due is asked for with it, and an answer either *)
(* shows what it was asked for or leaves the request that does in flight.        *)
LEMMA FetchesStep ==
    ASSUME IInv, [Next]_vars
    PROVE  FetchesInv' /\ ReadyHasCampaign' /\ IsFiniteSet(loads)'
<1> USE PageAssumption DEF dataVars, pageVars, panelVars, mapVars, troubles
<1> DEFINE Kept == \A q \in loads : q \in loads'
<1>0. version \in Nat /\ heard \in Nat /\ due \in Nat /\ loads \subseteq LoadType
  BY DEF IInv, TypeOK, Versions
<1>1. CASE DataChange \/ ArtReady \/ ToggleMapTab \/ (\E m \in Maps : MapLoads(m))
           \/ UNCHANGED vars
  <2>1. UNCHANGED <<loads, panels, due, campaign, loadState, heard, fetchTrouble>>
    BY <1>1 DEF DataChange, ArtReady, ToggleMapTab, MapLoads, vars
  <2> QED
    BY <2>1 DEF IInv, FetchesInv, DueIsComing, TurnsAreComing, NewsIsComing, ReadyHasCampaign,
                Requests, SceneKnown, Ready
<1>2. CASE Resolved
  <2> DEFINE p == PanelLoad(SceneKnown, version)
             c == CampaignLoad(version)
  <2>1. /\ loads' = loads \cup {p, c} /\ heard' = version /\ due' = version
        /\ UNCHANGED <<panels, campaign, loadState, fetchTrouble>>
    BY <1>2 DEF Resolved, Send
  <2>2. /\ p.kind = "panels" /\ p.read = version /\ p.scene = SceneKnown
        /\ c.kind = "campaign" /\ c.read = version
    BY DEF PanelLoad, CampaignLoad
  <2> HIDE DEF p, c
  <2>3. p \in Requests("panels")' /\ c \in Requests("campaign")'
    BY <2>1, <2>2 DEF Requests
  <2>4. DueIsComing' /\ NewsIsComing'
    BY <1>0, <2>1, <2>2, <2>3 DEF DueIsComing, NewsIsComing
  <2>5. TurnsAreComing'
    BY <2>1, <2>2, <2>3 DEF TurnsAreComing, SceneKnown
  <2>6. ReadyHasCampaign' /\ IsFiniteSet(loads)'
    BY <2>1, SendIsFinite DEF IInv, ReadyHasCampaign, Ready, SceneKnown
  <2> QED
    BY <2>4, <2>5, <2>6 DEF FetchesInv
<1>3. CASE HostChanges
  <2> DEFINE p == PanelLoad(SceneKnown, version + 1)
  <2>1. /\ loads' = loads \cup {p} /\ due' = version + 1
        /\ UNCHANGED <<heard, panels, campaign, loadState, fetchTrouble>>
    BY <1>3 DEF HostChanges, Send
  <2>2. p.kind = "panels" /\ p.read = version + 1 /\ p.scene = SceneKnown
    BY DEF PanelLoad
  <2> HIDE DEF p
  <2>3. p \in Requests("panels")' /\ Requests("campaign") \subseteq Requests("campaign")'
    BY <2>1, <2>2 DEF Requests
  <2>4. DueIsComing'
    BY <1>0, <2>1, <2>2, <2>3 DEF DueIsComing
  <2>5. TurnsAreComing'
    BY <2>1, <2>2, <2>3 DEF TurnsAreComing, SceneKnown
  <2>6. ~fetchTrouble => NewsIsComing'
    BY <2>1, <2>3 DEF IInv, FetchesInv, NewsIsComing, Ready
  <2>7. ReadyHasCampaign' /\ IsFiniteSet(loads)'
    BY <2>1, SendIsFinite DEF IInv, ReadyHasCampaign, Ready, SceneKnown
  <2> QED
    BY <2>1, <2>4, <2>5, <2>6, <2>7 DEF FetchesInv
<1>4. CASE Poll
  <2>1. /\ loads' = loads \cup {CampaignLoad(version)} \/ loads' = loads
        /\ UNCHANGED <<heard, due, panels, campaign, loadState, fetchTrouble>>
    BY <1>4 DEF Poll, Send
  <2>2. \A k : Requests(k) \subseteq Requests(k)'
    BY <2>1 DEF Requests
  <2>3. FetchesInv'
    BY <2>1, <2>2 DEF IInv, FetchesInv, DueIsComing, TurnsAreComing, NewsIsComing, SceneKnown,
                      Ready
  <2>4. ReadyHasCampaign' /\ IsFiniteSet(loads)'
    BY <2>1, SendIsFinite DEF IInv, ReadyHasCampaign, Ready, SceneKnown
  <2> QED
    BY <2>3, <2>4
<1>5. ASSUME NEW q \in Requests("panels"), PanelsAnswer(q)
      PROVE  FetchesInv' /\ ReadyHasCampaign' /\ IsFiniteSet(loads)'
  <2>1. /\ loads' = loads \ {q} /\ panels'.version = q.read /\ panels'.turns = q.scene
        /\ UNCHANGED <<heard, due, campaign, loadState>>
        /\ fetchTrouble' = \/ fetchTrouble
                           \/ panels.version > q.read
                           \/ panels.turns /\ ~q.scene
    BY <1>5 DEF PanelsAnswer
  <2>2. q \in LoadType /\ q.kind = "panels"
    BY <1>0 DEF Requests
  <2>3. /\ Requests("campaign")' = Requests("campaign")
        /\ Requests("panels")' = Requests("panels") \ {q}
    BY <2>1, <2>2 DEF Requests
  <2>4. panels.version \in Int /\ q.read \in Nat /\ \A r \in loads : r.read \in Nat
    BY <1>0, <2>2 DEF IInv, TypeOK, LoadType, Versions, NoPanels, None
  <2>5. ~fetchTrouble' => DueIsComing'
    BY <1>0, <2>1, <2>3, <2>4 DEF IInv, FetchesInv, DueIsComing
  <2>6. ~fetchTrouble' => TurnsAreComing'
    BY <2>1, <2>3 DEF IInv, FetchesInv, TurnsAreComing, SceneKnown
  <2>7. ~fetchTrouble' => NewsIsComing'
    BY <2>1, <2>3 DEF IInv, FetchesInv, NewsIsComing, Ready
  <2>8. ReadyHasCampaign' /\ IsFiniteSet(loads)'
    BY <2>1, SendIsFinite DEF IInv, ReadyHasCampaign, Ready, SceneKnown
  <2> QED
    BY <2>5, <2>6, <2>7, <2>8 DEF FetchesInv
<1>6. ASSUME NEW q \in loads, PanelsFail(q) \/ CampaignRejects(q) \/ CampaignFails(q)
      PROVE  FetchesInv' /\ ReadyHasCampaign' /\ IsFiniteSet(loads)'
  <2>1. /\ fetchTrouble' /\ loads' = loads \ {q} /\ campaign' = campaign
        /\ loadState' \in {loadState, "error"}
    BY <1>6 DEF PanelsFail, CampaignRejects, CampaignFails
  <2>2. IsFiniteSet(loads)'
    BY <2>1, SendIsFinite DEF IInv
  <2> QED
    BY <2>1, <2>2 DEF IInv, FetchesInv, ReadyHasCampaign, Ready, SceneKnown
<1>7. ASSUME NEW q \in Requests("campaign"), CampaignAnswers(q)
      PROVE  FetchesInv' /\ ReadyHasCampaign' /\ IsFiniteSet(loads)'
  <2> DEFINE p == PanelLoad(TRUE, version)
  <2>1. /\ loads' = (loads \ {q}) \cup (IF SceneKnown THEN {} ELSE {p})
        /\ campaign' = [version |-> q.read, map |-> q.art]
        /\ loadState' = "ready"
        /\ UNCHANGED <<heard, due, panels>>
        /\ fetchTrouble' = \/ fetchTrouble
                           \/ campaign.version > q.read
                           \/ campaign.map /\ ~q.art
    BY <1>7 DEF CampaignAnswers
  <2>2. q \in LoadType /\ q.kind = "campaign" /\ p.kind = "panels" /\ p.scene
    BY <1>0 DEF Requests, PanelLoad
  <2> HIDE DEF p
  <2>3. /\ Requests("campaign")' = Requests("campaign") \ {q}
        /\ Requests("panels") \subseteq Requests("panels")'
        /\ ~SceneKnown => p \in Requests("panels")'
    BY <2>1, <2>2 DEF Requests
  <2>4. /\ campaign.version \in Int /\ q.read \in Nat /\ campaign'.version = q.read
        /\ \A r \in loads : r.read \in Nat
    BY <1>0, <2>1, <2>2 DEF IInv, TypeOK, LoadType, Versions, NoCampaign, None
  <2>5. ~fetchTrouble' => NewsIsComing'
    BY <1>0, <2>1, <2>3, <2>4 DEF IInv, FetchesInv, NewsIsComing, Ready
  <2>6. ~fetchTrouble' => DueIsComing'
    BY <2>1, <2>3 DEF IInv, FetchesInv, DueIsComing
  <2>7. ~fetchTrouble' => TurnsAreComing'
    BY <2>1, <2>2, <2>3 DEF IInv, FetchesInv, TurnsAreComing
  <2>8. ReadyHasCampaign'
    BY <2>1, <2>4 DEF ReadyHasCampaign, Ready, SceneKnown, NoCampaign, None
  <2>9. IsFiniteSet(loads)'
    BY <2>1, SendIsFinite DEF IInv
  <2> QED
    BY <2>5, <2>6, <2>7, <2>8, <2>9 DEF FetchesInv
<1> QED
  BY <1>1, <1>2, <1>3, <1>4, <1>5, <1>6, <1>7 DEF Next, Answer, Requests

--------------------------------------------------------------------------------
(* MapsStep: every step that changes the markers or the maps tells the maps of  *)
(* the page, or is one of the three exceptions.                                 *)
LEMMA MapsStep ==
    ASSUME IInv, [Next]_vars
    PROVE  MapsInv'
<1> USE PageAssumption DEF dataVars, pageVars, panelVars, mapVars, troubles
<1>1. CASE DataChange \/ ArtReady \/ HostChanges \/ Poll \/ UNCHANGED vars
  <2>1. UNCHANGED <<mapVars, heard, campaign, loadState, mapTrouble>>
    BY <1>1 DEF DataChange, ArtReady, HostChanges, Poll, vars
  <2> QED
    BY <2>1 DEF IInv, MapsInv, OnPage, Mounted, MarkersOf
<1>2. CASE Resolved
  <2>1. /\ version \in Versions /\ heard' = version /\ heard' > 0
        /\ UNCHANGED <<loadState, mapTab>>
    BY <1>2 DEF Resolved, IInv, TypeOK, Versions
  <2>2. MarkersOf(campaign)' = version
    BY <2>1 DEF MarkersOf
  <2>3. CASE Ready /\ Redraw(version)
    BY <2>1, <2>2, <2>3, RedrawCurrent
  <2>4. CASE ~Ready
    BY <2>1, <2>4 DEF MapsInv, OnPage, Mounted, Ready
  <2> QED
    BY <1>2, <2>3, <2>4 DEF Resolved
<1>3. CASE ToggleMapTab
  <2> DEFINE v == IF ~mapTab THEN MarkersOf(campaign) ELSE None
  <2>1. Rebuild({"mobile"}, v) /\ {"mobile"} \in SUBSET Maps
    BY <1>3 DEF ToggleMapTab, Maps
  <2>2. MarkersOf(campaign)' = MarkersOf(campaign) /\ mapTrouble' = mapTrouble
    BY <1>3 DEF ToggleMapTab, MarkersOf
  <2>3. /\ OnPage' = IF ~mapTab THEN Maps ELSE {"desktop"}
        /\ OnPage = IF mapTab THEN Maps ELSE {"desktop"}
    BY <1>3 DEF ToggleMapTab, OnPage, Mounted, Ready, IInv, TypeOK
  <2>4. OnPage' \ {"mobile"} \subseteq OnPage /\ (mapTab => OnPage' \cap {"mobile"} = {})
    BY <2>3 DEF Maps
  <2>5. v = MarkersOf(campaign)' \/ OnPage' \cap {"mobile"} = {}
    BY <2>2, <2>4
  <2> HIDE DEF v
  <2> QED
    BY <2>1, <2>2, <2>4, <2>5, RebuildCurrent
<1>4. ASSUME NEW m \in Maps, MapLoads(m) PROVE MapsInv'
  <2> SUFFICES ASSUME ~mapTrouble', NEW n \in OnPage'
               PROVE  IF n \in loaded' THEN shows'[n] = MarkersOf(campaign)
                                        ELSE pending'[n] = MarkersOf(campaign)
    BY <1>4 DEF MapsInv, MapLoads, MarkersOf
  <2>1. OnPage' = OnPage /\ m \in OnPage /\ m \notin loaded /\ ~mapTrouble
    BY <1>4 DEF MapLoads, OnPage, Mounted, IInv, TypeOK
  <2>2. /\ pending[m] = MarkersOf(campaign)
        /\ IF n \in loaded THEN shows[n] = MarkersOf(campaign)
                            ELSE pending[n] = MarkersOf(campaign)
    BY <2>1 DEF IInv, MapsInv
  <2>3. Ready /\ OnPage \in {Maps, {"desktop"}}
    BY <2>1 DEF OnPage, Mounted, Ready
  <2>4. pending[m] # None
    BY <2>2, <2>3 DEF IInv, TypeOK, ReadyHasCampaign, SceneKnown, MarkersOf, Versions, None,
                      NoCampaign
  <2>5. shows' = [k \in Maps |-> IF k = m THEN pending[m] ELSE None] /\ OnPage # Maps
    BY <1>4, <2>4 DEF MapLoads
  <2>6. n = m
    BY <2>1, <2>3, <2>5
  <2> QED
    BY <1>4, <2>2, <2>5, <2>6 DEF MapLoads
<1>5. ASSUME NEW q \in loads, PanelsAnswer(q) \/ PanelsFail(q) \/ CampaignRejects(q)
      PROVE  MapsInv'
  <2>1. UNCHANGED <<mapVars, heard, campaign, loadState, mapTrouble>>
    BY <1>5 DEF PanelsAnswer, PanelsFail, CampaignRejects
  <2> QED
    BY <2>1 DEF IInv, MapsInv, OnPage, Mounted, MarkersOf
<1>6. ASSUME NEW q \in loads, CampaignFails(q) PROVE MapsInv'
  BY <1>6 DEF CampaignFails, MapsInv, OnPage, Mounted
<1>7. ASSUME NEW q \in loads, CampaignAnswers(q) PROVE MapsInv'
  <2> DEFINE c == [version |-> q.read, map |-> q.art]
  <2>1. /\ ShowCampaign(c) /\ campaign' = c /\ loadState' = "ready"
        /\ UNCHANGED <<heard, mapTab>>
    BY <1>7 DEF CampaignAnswers
  <2>2. c.version \in Versions /\ heard \in Nat
    BY DEF IInv, TypeOK, LoadType, Versions
  <2> HIDE DEF c
  <2>3. OnPage' = Mounted("ready", mapTab) /\ OnPage' \subseteq Maps /\ (Ready => OnPage' = OnPage)
    BY <2>1 DEF OnPage, Mounted, Ready, Maps
  <2>4. MarkersOf(campaign)' = MarkersOf(c)
    BY <2>1 DEF MarkersOf
  <2>5. CASE ~Ready /\ Rebuild(Mounted("ready", mapTab), MarkersOf(c))
    BY <2>3, <2>4, <2>5, RebuildCurrent
  <2>6. CASE /\ Ready
             /\ Rebuild(OnPage, IF heard > 0 THEN None ELSE c.version)
             /\ mapTrouble' = (mapTrouble \/ heard > 0)
    <3>1. ~mapTrouble' => (IF heard > 0 THEN None ELSE c.version) = MarkersOf(c)
      BY <2>6 DEF MarkersOf
    <3> QED
      BY <2>3, <2>4, <2>6, <3>1, RebuildCurrent
  <2>7. CASE Ready /\ heard = 0 /\ Redraw(c.version)
    <3>1. MarkersOf(campaign)' = c.version /\ UNCHANGED <<loadState, mapTab>>
      BY <2>1, <2>4, <2>7 DEF MarkersOf, Ready
    <3> QED
      BY <2>2, <2>7, <3>1, RedrawCurrent
  <2>8. CASE Ready /\ heard > 0 /\ UNCHANGED <<loaded, pending, shows, mapTrouble>>
    <3>1. MarkersOf(campaign)' = MarkersOf(campaign)
      BY <2>4, <2>8 DEF MarkersOf
    <3> QED
      BY <2>3, <2>8, <3>1 DEF IInv, MapsInv
  <2> QED
    BY <2>1, <2>5, <2>6, <2>7, <2>8 DEF ShowCampaign
<1> QED
  BY <1>1, <1>2, <1>3, <1>4, <1>5, <1>6, <1>7 DEF Next, Answer

--------------------------------------------------------------------------------
(* Invariance: the invariant that the theorems follow from.                     *)
THEOREM Invariance == Spec => []IInv
<1>1. IInv /\ [Next]_vars => IInv'
  BY TypeStep, FetchesStep, MapsStep DEF IInv
<1> QED
  BY InitInductive, <1>1, PTL DEF Spec

(* TypeCorrect: the types, and never more requests in flight than allowed, for  *)
(* any number of changes (TypeOK).                                              *)
THEOREM TypeCorrect == Spec => []TypeOK
<1>1. IInv => TypeOK
  BY DEF IInv
<1> QED
  BY Invariance, <1>1, PTL

(* SpinnersAreBacked: whatever crosses or fails, no spinner is up for a request *)
(* that has ended, the safety half of SpinnersEnd (SpinnersHaveRequests).       *)
THEOREM SpinnersAreBacked == Spec => []SpinnersHaveRequests
<1> USE DEF SpinnersHaveRequests, Requests
<1>1. Init => SpinnersHaveRequests
  BY DEF Init, PanelLoad
<1>2. SpinnersHaveRequests /\ [Next]_vars => SpinnersHaveRequests'
  <2> SUFFICES ASSUME SpinnersHaveRequests, [Next]_vars PROVE SpinnersHaveRequests'
    OBVIOUS
  <2>1. CASE DataChange \/ ArtReady \/ ToggleMapTab \/ UNCHANGED vars
    BY <2>1 DEF DataChange, ArtReady, ToggleMapTab, panelVars, vars
  <2>2. CASE Resolved \/ HostChanges
    <3>1. \E v : PanelLoad(SceneKnown, v) \in loads'
      BY <2>2 DEF Resolved, HostChanges, Send
    <3> QED
      BY <3>1 DEF PanelLoad
  <2>3. CASE Poll
    BY <2>3 DEF Poll, Send, panelVars
  <2>4. ASSUME NEW m \in Maps, MapLoads(m) PROVE SpinnersHaveRequests'
    BY <2>4 DEF MapLoads, panelVars
  <2>5. ASSUME NEW q \in Requests("panels"), PanelsAnswer(q) \/ PanelsFail(q)
        PROVE  SpinnersHaveRequests'
    BY <2>5 DEF PanelsAnswer, PanelsFail
  <2>6. ASSUME NEW q \in Requests("campaign"),
               CampaignAnswers(q) \/ CampaignFails(q) \/ CampaignRejects(q)
        PROVE  SpinnersHaveRequests'
    <3>1. UNCHANGED panelVars /\ loads \ {q} \subseteq loads'
      BY <2>6 DEF CampaignAnswers, CampaignFails, CampaignRejects
    <3>2. \A p \in loads : p.kind = "panels" => p \in loads'
      BY <3>1
    <3> QED
      BY <3>1, <3>2 DEF panelVars
  <2> QED
    BY <2>1, <2>2, <2>3, <2>4, <2>5, <2>6 DEF Next, Answer
<1> QED
  BY <1>1, <1>2, PTL DEF Spec

(* PanelsCatchUp: however many refreshes cross one another, panels that wait    *)
(* for nothing know the last change they were refreshed for, and panels that    *)
(* say they load do wait for something (PanelsConverge).                        *)
THEOREM PanelsCatchUp == Spec => []PanelsConverge
<1>1. IInv /\ SpinnersHaveRequests => PanelsConverge
  BY DEF IInv, FetchesInv, DueIsComing, TurnsAreComing, PanelsConverge, Quiet, Requests
<1> QED
  BY Invariance, SpinnersAreBacked, <1>1, PTL

(* PageCatchesUp: the campaign on a page that waits for nothing includes the    *)
(* action whose narration the page shows (PageConverges).                       *)
THEOREM PageCatchesUp == Spec => []PageConverges
<1>1. IInv => PageConverges
  BY DEF IInv, FetchesInv, NewsIsComing, PageConverges, Quiet, Requests
<1> QED
  BY Invariance, <1>1, PTL

(* MapsAreCurrent: a map that has loaded shows the markers of the page, but for *)
(* the three exceptions (MapsShowTheMarkers).                                   *)
THEOREM MapsAreCurrent == Spec => []MapsShowTheMarkers
<1>1. IInv => MapsShowTheMarkers
  BY DEF IInv, MapsInv, MapsShowTheMarkers
<1> QED
  BY Invariance, <1>1, PTL
================================================================================
