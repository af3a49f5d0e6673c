-------------------------------- MODULE PlayPage --------------------------------
(* The play page between its fetches and its screen: loadCampaign, the art poll *)
(* and useCampaignPanels (apps/web/src/app/campaigns/[id]/page.tsx,             *)
(* hooks/use-campaign-panels.ts), the two maps (components/campaign-map.tsx) and*)
(* the queries behind them (getCampaign, getCampaignPanelState).                *)
(*                                                                              *)
(* The campaign's data are a version that every change raises; what a query or  *)
(* a panel holds is the version it has read.  That the page hears of a change is*)
(* BrowserSession's subject and a step of its own here.                         *)
EXTENDS Integers, FiniteSets

CONSTANTS
    MaxVersion,     \* changes of the campaign's data at most
    MaxInFlight,    \* requests in flight at most
    MaxPolls        \* how often the page polls for the art (page.tsx: 10)

ASSUME PageAssumption ==
    /\ MaxVersion \in Nat
    /\ MaxPolls \in Nat
    /\ MaxInFlight \in Nat \ {0, 1}    \* the page opens with two requests

Maps == {"mobile", "desktop"}

None == -1          \* no data, no markers
NoCampaign == [version |-> None, map |-> FALSE]
NoPanels == [version |-> None, turns |-> FALSE]

VARIABLES
    version,        \* the campaign's data in the database
    art,            \* the map's tiles are in the campaign's settings
    heard,          \* version of lastResolved and of the live markers, 0 without
    due,            \* version that a refresh of the panels is about
    loads,          \* the requests in flight
    campaign,       \* the page's campaign: version, and whether it has a mapConfig
    loadState,
    panels,         \* the panels' state: version, and whether it has the turns
    loading,        \* the panels' two flags
    refreshing,
    polls,          \* attempts of the running art poll
    mapTab,         \* the map's tab is open in the mobile layout
    loaded,         \* maps whose load event has fired
    pending,        \* pending[m]: what m draws at its load event
    shows,          \* shows[m]: version of the markers on m
    fetchTrouble,   \* history: a request failed, or an older answer came later
    mapTrouble      \* history: a map was rebuilt, busy or redrawn (see below)

dataVars == <<version, art>>
pageVars == <<heard, campaign, loadState, polls>>
panelVars == <<due, panels, loading, refreshing>>
mapVars == <<mapTab, loaded, pending, shows>>
troubles == <<fetchTrouble, mapTrouble>>
vars == <<dataVars, pageVars, panelVars, loads, mapVars, troubles>>

Versions == 0..MaxVersion

LoadType == [kind : {"panels", "campaign"}, scene : BOOLEAN, read : Versions, art : BOOLEAN]

TypeOK ==
    /\ version \in Versions
    /\ art \in BOOLEAN
    /\ heard \in 0..version
    /\ due \in 0..version
    /\ loads \subseteq LoadType
    /\ Cardinality(loads) <= MaxInFlight
    /\ campaign \in {NoCampaign} \cup [version : Versions, map : BOOLEAN]
    /\ loadState \in {"loading", "ready", "error"}
    /\ panels \in {NoPanels} \cup [version : Versions, turns : BOOLEAN]
    /\ loading \in BOOLEAN
    /\ refreshing \in BOOLEAN
    /\ polls \in 0..(MaxPolls + 1)
    /\ mapTab \in BOOLEAN
    /\ loaded \subseteq Maps
    /\ pending \in [Maps -> Versions \cup {None}]
    /\ shows \in [Maps -> Versions \cup {None}]
    /\ fetchTrouble \in BOOLEAN
    /\ mapTrouble \in BOOLEAN

--------------------------------------------------------------------------------
SceneKnown == campaign # NoCampaign

Ready == loadState = "ready"

\* The desktop's map is in the document whenever the page is, hidden or not.
Mounted(state, tab) ==
    IF state # "ready" THEN {} ELSE IF tab THEN Maps ELSE {"desktop"}

OnPage == Mounted(loadState, mapTab)

\* Live markers hide the ones that the campaign was loaded with.
MarkersOf(c) == IF heard > 0 THEN heard ELSE c.version

\* A request: getCampaignPanelState, which reads the turns only of a known scene,
\* or getCampaign.  What it reads is what there is when it is sent; its answer
\* may be late.
PanelLoad(scene, v) == [kind |-> "panels", scene |-> scene, read |-> v, art |-> FALSE]

CampaignLoad(v) == [kind |-> "campaign", scene |-> FALSE, read |-> v, art |-> art]

Send(requests) ==
    /\ loads' = loads \cup requests
    /\ Cardinality(loads') <= MaxInFlight

Init ==
    /\ version = 0
    /\ art = FALSE
    /\ heard = 0
    /\ due = 0
    /\ loads = {PanelLoad(FALSE, 0), CampaignLoad(0)}
    /\ campaign = NoCampaign
    /\ loadState = "loading"
    /\ panels = NoPanels
    /\ loading = TRUE
    /\ refreshing = FALSE
    /\ polls = 0
    /\ mapTab = FALSE
    /\ loaded = {}
    /\ pending = [m \in Maps |-> None]
    /\ shows = [m \in Maps |-> None]
    /\ fetchTrouble = FALSE
    /\ mapTrouble = FALSE

--------------------------------------------------------------------------------
(* The maps. *)

\* Mutant: a map that has not loaded yet is not told.
RedrawLoadedOnly(v) ==
    LET drawing == loaded \cap OnPage
        last == IF "desktop" \in drawing THEN "desktop" ELSE "mobile"
    IN  /\ shows' = IF drawing = {} THEN shows
                    ELSE [m \in Maps |-> IF m = last THEN v ELSE None]
        /\ mapTrouble' = (mapTrouble \/ (drawing # {} /\ OnPage = Maps))
        /\ UNCHANGED <<loaded, pending>>

\* The effect on [markers] runs on every map of the page, the desktop's last.  A
\* map that has never loaded draws later; one that is loading tiles waits for a
\* second load event that never comes.  Drawing removes the markers of all maps.
Redraw(v) ==
    \E skipped \in SUBSET (loaded \cap OnPage) :
        LET drawing == (loaded \cap OnPage) \ skipped
            last == IF "desktop" \in drawing THEN "desktop" ELSE "mobile"
        IN  /\ shows' = IF drawing = {} THEN shows
                        ELSE [m \in Maps |-> IF m = last THEN v ELSE None]
            /\ pending' = [m \in Maps |-> IF m \in OnPage \ loaded THEN v ELSE pending[m]]
            /\ mapTrouble' = (mapTrouble \/ skipped # {} \/ (drawing # {} /\ OnPage = Maps))
            /\ UNCHANGED loaded

\* The maps of M are built anew, empty, and draw v when they have loaded.
Rebuild(M, v) ==
    /\ loaded' = loaded \ M
    /\ pending' = [m \in Maps |-> IF m \in M THEN v ELSE pending[m]]
    /\ shows' = [m \in Maps |-> IF m \in M THEN None ELSE shows[m]]

MapLoads(m) ==
    /\ m \in OnPage \ loaded
    /\ loaded' = loaded \cup {m}
    /\ pending' = [pending EXCEPT ![m] = None]
    /\ \/ /\ pending[m] = None
          /\ UNCHANGED <<shows, mapTrouble>>
       \/ /\ pending[m] # None
          /\ shows' = [n \in Maps |-> IF n = m THEN pending[m] ELSE None]
          /\ mapTrouble' = (mapTrouble \/ OnPage = Maps)
    /\ UNCHANGED <<dataVars, pageVars, panelVars, loads, mapTab, fetchTrouble>>

ToggleMapTab ==
    /\ Ready
    /\ mapTab' = ~mapTab
    /\ Rebuild({"mobile"}, IF ~mapTab THEN MarkersOf(campaign) ELSE None)
    /\ UNCHANGED <<dataVars, pageVars, panelVars, loads, troubles>>

--------------------------------------------------------------------------------
(* What changes, and how the page hears of it. *)

\* An action commits, a player joins, the host removes one.
DataChange ==
    /\ version < MaxVersion
    /\ version' = version + 1
    /\ UNCHANGED <<art, pageVars, panelVars, loads, mapVars, troubles>>

ArtReady ==
    /\ ~art
    /\ art' = TRUE
    /\ UNCHANGED <<version, pageVars, panelVars, loads, mapVars, troubles>>

\* Mutant: "campaign-updated" reaches the panels only.
ResolvedForPanels ==
    /\ heard < version
    /\ heard' = version
    /\ due' = version
    /\ refreshing' = TRUE
    /\ Send({PanelLoad(SceneKnown, version)})
    /\ Ready /\ Redraw(version)
    /\ UNCHANGED <<dataVars, campaign, loadState, polls, panels, loading, mapTab, fetchTrouble>>

\* A resolved action: its narration and its markers, then "campaign-updated",
\* which loads the campaign and refreshes the panels.
Resolved ==
    /\ heard < version
    /\ heard' = version
    /\ due' = version
    /\ refreshing' = TRUE
    /\ Send({PanelLoad(SceneKnown, version), CampaignLoad(version)})
    /\ \/ /\ Ready
          /\ Redraw(version)
       \/ /\ ~Ready
          /\ UNCHANGED <<loaded, pending, shows, mapTrouble>>
    /\ UNCHANGED <<dataVars, campaign, loadState, polls, panels, loading, mapTab, fetchTrouble>>

\* TurnBar or MembersBar: the host's change is made, then onChanged.
HostChanges ==
    /\ Ready
    /\ panels # NoPanels
    /\ version < MaxVersion
    /\ version' = version + 1
    /\ due' = version + 1
    /\ refreshing' = TRUE
    /\ Send({PanelLoad(SceneKnown, version + 1)})
    /\ UNCHANGED <<art, pageVars, panels, loading, mapVars, troubles>>

\* Mutants: the interval is never cleared; it is cleared one attempt too early.
PollForever ==
    /\ Ready
    /\ ~campaign.map
    /\ polls' = polls + 1
    /\ Send({CampaignLoad(version)})
    /\ UNCHANGED <<dataVars, heard, campaign, loadState, panelVars, mapVars, troubles>>

PollOnceLess ==
    /\ Ready
    /\ ~campaign.map
    /\ polls <= MaxPolls
    /\ polls' = polls + 1
    /\ \/ /\ polls < MaxPolls - 1
          /\ Send({CampaignLoad(version)})
       \/ /\ polls >= MaxPolls - 1
          /\ UNCHANGED loads
    /\ UNCHANGED <<dataVars, heard, campaign, loadState, panelVars, mapVars, troubles>>

\* Every 12 s while the page has no mapConfig.
Poll ==
    /\ Ready
    /\ ~campaign.map
    /\ polls <= MaxPolls
    /\ polls' = polls + 1
    /\ \/ /\ polls < MaxPolls
          /\ Send({CampaignLoad(version)})
       \/ /\ polls = MaxPolls
          /\ UNCHANGED loads
    /\ UNCHANGED <<dataVars, heard, campaign, loadState, panelVars, mapVars, troubles>>

--------------------------------------------------------------------------------
(* Requests. *)

Requests(kind) == {q \in loads : q.kind = kind}

\* The panels take what has come last, whichever request it answers.
PanelsAnswer(q) ==
    /\ panels' = [version |-> q.read, turns |-> q.scene]
    /\ loading' = FALSE
    /\ refreshing' = FALSE
    /\ loads' = loads \ {q}
    /\ fetchTrouble' = \/ fetchTrouble
                       \/ panels.version > q.read
                       \/ panels.turns /\ ~q.scene
    /\ UNCHANGED <<dataVars, pageVars, due, mapVars, mapTrouble>>

\* Mutant: no finally.
PanelsFailSpinning(q) ==
    /\ loads' = loads \ {q}
    /\ fetchTrouble' = TRUE
    /\ UNCHANGED <<dataVars, pageVars, panelVars, mapVars, mapTrouble>>

\* An error status or a rejected fetch: the panels stay as they are.
PanelsFail(q) ==
    /\ loading' = FALSE
    /\ refreshing' = FALSE
    /\ loads' = loads \ {q}
    /\ fetchTrouble' = TRUE
    /\ UNCHANGED <<dataVars, pageVars, due, panels, mapVars, mapTrouble>>

\* setCampaign makes a new mapConfig, and a new list of markers.  The effect on
\* [mapConfig] builds the maps anew; the one on [markers] runs only if the page
\* shows the list, that is, without live markers.
ShowCampaign(c) ==
    LET sameConfig == Ready /\ ~c.map /\ ~campaign.map      \* null both times
    IN  \/ /\ ~Ready
           /\ Rebuild(Mounted("ready", mapTab), MarkersOf(c))
           /\ UNCHANGED mapTrouble
        \/ /\ Ready
           /\ ~sameConfig
           /\ Rebuild(OnPage, IF heard > 0 THEN None ELSE c.version)
           /\ mapTrouble' = (mapTrouble \/ heard > 0)
        \/ /\ sameConfig
           /\ heard = 0
           /\ Redraw(c.version)
        \/ /\ sameConfig
           /\ heard > 0
           /\ UNCHANGED <<loaded, pending, shows, mapTrouble>>

\* Mutant: load does not depend on sceneId.
CampaignAnswersSceneUnused(q) ==
    /\ LET c == [version |-> q.read, map |-> q.art]
       IN  /\ campaign' = c
           /\ ShowCampaign(c)
           /\ fetchTrouble' = (fetchTrouble \/ campaign.version > c.version)
           /\ polls' = IF ~Ready \/ campaign.map # c.map THEN 0 ELSE polls
    /\ loadState' = "ready"
    /\ loads' = loads \ {q}
    /\ UNCHANGED <<dataVars, heard, panelVars, mapTab>>

\* The first answer tells the scene, so the panels are loaded again with it.
CampaignAnswers(q) ==
    /\ LET c == [version |-> q.read, map |-> q.art]
       IN  /\ campaign' = c
           /\ ShowCampaign(c)
           /\ fetchTrouble' = \/ fetchTrouble
                              \/ campaign.version > c.version
                              \/ campaign.map /\ ~c.map
           /\ polls' = IF ~Ready \/ campaign.map # c.map THEN 0 ELSE polls
    /\ loadState' = "ready"
    /\ loads' = (loads \ {q}) \cup (IF SceneKnown THEN {} ELSE {PanelLoad(TRUE, version)})
    /\ UNCHANGED <<dataVars, heard, panelVars, mapTab>>

\* An error status: the page gives way to "Could not load this campaign."
CampaignFails(q) ==
    /\ loadState' = "error"
    /\ Rebuild(Maps, None)
    /\ loads' = loads \ {q}
    /\ fetchTrouble' = TRUE
    /\ UNCHANGED <<dataVars, heard, campaign, polls, panelVars, mapTab, mapTrouble>>

\* fetch rejects, and nothing catches it.
CampaignRejects(q) ==
    /\ loads' = loads \ {q}
    /\ fetchTrouble' = TRUE
    /\ UNCHANGED <<dataVars, pageVars, panelVars, mapVars, mapTrouble>>

--------------------------------------------------------------------------------
Answer(q) ==
    \/ /\ q \in Requests("panels")
       /\ PanelsAnswer(q) \/ PanelsFail(q)
    \/ /\ q \in Requests("campaign")
       /\ CampaignAnswers(q) \/ CampaignFails(q) \/ CampaignRejects(q)

Next ==
    \/ DataChange \/ ArtReady \/ Resolved \/ HostChanges \/ Poll \/ ToggleMapTab
    \/ \E m \in Maps : MapLoads(m)
    \/ \E q \in loads : Answer(q)

\* Requests end and timers fire.
Fairness ==
    /\ WF_vars(Poll)
    /\ WF_vars(\E q \in loads : Answer(q))

Spec == Init /\ [][Next]_vars /\ Fairness

--------------------------------------------------------------------------------
(* Properties. *)

Quiet == loads = {}

\* The panels say that they load or refresh only while a request for them is in
\* flight: whichever answer takes the flags back, and whichever fails, none is left
\* up when the last one has ended.
SpinnersHaveRequests == loading \/ refreshing => Requests("panels") # {}

\* "One fetch for all side panels" (use-campaign-panels.ts): when every request has
\* ended, the panels know the last change they were refreshed for, and the turns of
\* the scene, unless a request failed or an older one came in after a newer one.
\* While they say that they load, they do wait for one.
PanelsConverge ==
    /\ SpinnersHaveRequests
    /\ Quiet /\ ~fetchTrouble =>
          /\ panels.version >= due
          /\ SceneKnown => panels.turns

\* In the same way the campaign that the page shows includes the action whose
\* narration it shows.
PageConverges ==
    Quiet /\ ~fetchTrouble =>
        /\ Ready
        /\ campaign.version >= heard

\* A map that has loaded shows the markers of the page, unless it was built anew
\* under live markers, was loading tiles when they changed, or shared the page
\* with the other map.
MapsShowTheMarkers ==
    ~mapTrouble =>
        \A m \in OnPage \cap loaded : shows[m] = MarkersOf(campaign)

\* Whatever fails, the panels stop saying that they load.
SpinnersEnd == (loading ~> ~loading) /\ (refreshing ~> ~refreshing)

\* "poll briefly until the map config shows up" (page.tsx): art that is there while
\* the page still polls is shown.
ArtAppears ==
    Ready /\ art /\ polls < MaxPolls ~> campaign.map \/ fetchTrouble
================================================================================
