-------------------------------- MODULE Campaigns --------------------------------
(* The life of one campaign: createCampaign and seedGeneratedWorld, the art of   *)
(* its background jobs, invitation and joining, removal, deletion                *)
(* (packages/domain/src/campaigns.ts, campaign-art.ts, invites.ts, members.ts,   *)
(* and packages/storage).                                                        *)
(*                                                                               *)
(* A transaction is a step, so is a statement outside one.  How transactions     *)
(* collide at the campaign's events is EventLog's subject: here they may fail.   *)
EXTENDS Integers, FiniteSets

CONSTANTS
    Host,
    Guests,         \* the users who may join
    Npcs,           \* the NPCs of the generated world
    MaxPortraits,   \* NPCs that get a portrait (MAX_NPC_PORTRAITS: 3)
    MaxPlayers,     \* Campaign.maxPlayers
    Calls,          \* requests to join that run at the same time
    Invites,        \* requests for the invite code
    Codes,          \* codes that generateInviteCode may return
    NoCode

Users == Guests \cup {Host}

ASSUME CampaignsAssumption ==
    /\ Host \notin Guests
    /\ MaxPortraits \in Nat
    /\ MaxPlayers \in Nat \ {0}
    /\ IsFiniteSet(Guests) /\ IsFiniteSet(Npcs) /\ IsFiniteSet(Calls)
    /\ Calls # {}
    /\ IsFiniteSet(Invites) /\ Invites # {}
    /\ Npcs \cap {"location", "character", "regions", "factions", "quests", "codex", "markers",
                  "scene"} = {}
    /\ NoCode \notin Codes

\* What seedGeneratedWorld writes.  Four lists are written side by side, the NPCs
\* one by one.
Lists == {"regions", "factions", "quests"} \cup Npcs

Parts == {"location", "character", "codex", "markers", "scene"} \cup Lists

\* Mutant: nothing is awaited, all statements are issued together.
BeforeUnawaited(p) == {q \in Parts : q = "location" /\ p = "character"}

Before(p) ==
    CASE p = "location" -> {}
      [] p = "character" -> {"location"}
      [] p \in Lists -> {"character"}
      [] p = "codex" -> Lists
      [] p = "markers" -> {"codex"}
      [] p = "scene" -> {"markers"}

\* The jobs of generateCampaignArt, and the files that each of them stores.
Jobs == {"map", "landscape", "character"} \cup Npcs

FilesOf(j) == IF j = "map" THEN {"map.webp", "tiles"} ELSE {j}

Files == UNION {FilesOf(j) : j \in Jobs}

VARIABLES
    row,            \* the campaign's row: absent, its status, or deleted
    creation,       \* how far createCampaign has come
    world,          \* the parts of the world that are in the database
    lost,           \* parts whose statement failed
    art,            \* art[j]: the state of job j
    stored,         \* the files in the storage
    urls,           \* jobs whose result the database points to
    code,           \* Campaign.inviteCode
    invite,         \* invite[i]: what request i for the code has seen
    returned,       \* codes that hosts have been given
    members,        \* users with a CampaignMember
    characters,     \* users with a player character,
    markers,        \* with its marker,
    participants,   \* with a place in the scene,
    placed,         \* whose character has a location
    join            \* join[c]: request c to join

campaignVars == <<row, creation, world, lost>>
artVars == <<art, stored, urls>>
inviteVars == <<code, invite, returned>>
partyVars == <<members, characters, markers, participants, placed>>

vars == <<campaignVars, artVars, inviteVars, partyVars, join>>

\* user: who joins; full: what the count of members said; start: a start location
\* was found.
NoJoin == [at |-> "none", user |-> Host, full |-> FALSE, start |-> FALSE]

JoinType ==
    [at : {"none", "found", "admitted", "located"}, user : Users, full : BOOLEAN, start : BOOLEAN]

TypeOK ==
    /\ row \in {"none", "DRAFT", "ACTIVE", "deleted"}
    /\ creation \in {"form", "drafted", "generated", "seeding", "seeded", "done", "failed"}
    /\ world \subseteq Parts
    /\ lost \subseteq Parts \ world
    /\ art \in [Jobs -> {"none", "running", "over"}]
    /\ stored \subseteq Files
    /\ urls \subseteq Jobs
    /\ code \in Codes \cup {NoCode}
    /\ invite \in [Invites -> {"none", "empty"}]
    /\ returned \subseteq Codes
    /\ members \subseteq Users
    /\ characters \subseteq Users
    /\ markers \subseteq Users
    /\ participants \subseteq Users
    /\ placed \subseteq characters
    /\ join \in [Calls -> JoinType]

Init ==
    /\ row = "none"
    /\ creation = "form"
    /\ world = {}
    /\ lost = {}
    /\ art = [j \in Jobs |-> "none"]
    /\ stored = {}
    /\ urls = {}
    /\ code = NoCode
    /\ invite = [i \in Invites |-> "none"]
    /\ returned = {}
    /\ members = {}
    /\ characters = {}
    /\ markers = {}
    /\ participants = {}
    /\ placed = {}
    /\ join = [c \in Calls |-> NoJoin]

--------------------------------------------------------------------------------
Exists == row \in {"DRAFT", "ACTIVE"}

\* The landscape job replaces the location's metadata, isStartingLocation too.
StartMarked == "location" \in world /\ "landscape" \notin urls

--------------------------------------------------------------------------------
(* createCampaign. *)

\* The form is sent: the campaign and the host's membership, together.
CreateDraft ==
    /\ creation = "form"
    /\ creation' = "drafted"
    /\ row' = "DRAFT"
    /\ members' = {Host}
    /\ UNCHANGED <<world, lost, artVars, inviteVars, characters, markers, participants, placed,
                   join>>

\* The AI's answer passes generatedCampaignSchema.
Generate ==
    /\ creation = "drafted"
    /\ creation' = "generated"
    /\ UNCHANGED <<row, world, lost, artVars, inviteVars, partyVars, join>>

\* The transaction that makes the campaign ACTIVE and logs campaign.generated.
Activate ==
    /\ creation = "generated"
    /\ row = "DRAFT"
    /\ creation' = "seeding"
    /\ row' = "ACTIVE"
    /\ UNCHANGED <<world, lost, artVars, inviteVars, partyVars, join>>

\* Mutant: a statement that failed is issued once more.
IssuedAgain(p) ==
    /\ creation = "seeding" \/ (creation = "failed" /\ p \in Lists)
    /\ p \notin world
    /\ Before(p) \subseteq world

\* The statement for p has been issued.  Those for the lists are issued together:
\* when one of them fails the others still run.
Issued(p) ==
    /\ \/ creation = "seeding"
       \/ creation = "failed" /\ p \in Lists
    /\ p \notin world \cup lost
    /\ Before(p) \subseteq world

Seed(p) ==
    /\ Issued(p)
    /\ Exists
    /\ world' = world \cup {p}
    /\ creation' = IF p = "scene" THEN "seeded" ELSE creation
    /\ characters' = IF p = "character" THEN characters \cup {Host} ELSE characters
    /\ placed' = IF p = "character" THEN placed \cup {Host} ELSE placed
    /\ markers' = IF p = "markers" THEN markers \cup {Host} ELSE markers
    /\ participants' = IF p = "scene" THEN participants \cup {Host} ELSE participants
    /\ UNCHANGED <<row, lost, artVars, inviteVars, members, join>>

\* A statement fails, as each does on a deleted campaign, where p stands for it.
SeedFails(p) ==
    /\ Issued(p)
    /\ creation' = "failed"
    /\ lost' = lost \cup {p}
    /\ UNCHANGED <<row, world, artVars, inviteVars, partyVars, join>>

\* The answer: 201, and after it the art, unless no image provider is configured.
\* artInput has the NPCs that are there now, of which the first few get portraits.
Finish ==
    /\ creation = "seeded"
    /\ creation' = "done"
    /\ \E drawn \in SUBSET (Npcs \cap world) :
          /\ \/ Cardinality(drawn) = MaxPortraits
             \/ Cardinality(drawn) < MaxPortraits /\ drawn = Npcs \cap world
          /\ art' = [j \in Jobs |-> IF j \in Npcs \ drawn THEN "none" ELSE "running"]
    /\ UNCHANGED <<row, world, lost, stored, urls, inviteVars, partyVars, join>>

FinishWithoutArt ==
    /\ creation = "seeded"
    /\ creation' = "done"
    /\ UNCHANGED <<row, world, lost, artVars, inviteVars, partyVars, join>>

\* 400, whatever has been written stays; or the process ends.
CreationFails ==
    /\ creation \in {"drafted", "generated", "seeding", "seeded"}
    /\ creation' = "failed"
    /\ lost' = IF "character" \in world THEN Parts \ world ELSE lost
    /\ UNCHANGED <<row, world, artVars, inviteVars, partyVars, join>>

--------------------------------------------------------------------------------
(* generateCampaignArt. *)

\* storage.put of one file of j's image.
Put(j) ==
    /\ art[j] = "running"
    /\ \E f \in FilesOf(j) \ stored : stored' = stored \cup {f}
    /\ UNCHANGED <<campaignVars, art, urls, inviteVars, partyVars, join>>

\* Mutant: the uploads are not awaited.
SomeUploaded(j) == FilesOf(j) \cap stored # {}

\* Every file of j is there.
Uploaded(j) == FilesOf(j) \subseteq stored

\* The row that shows the image is updated: campaign settings, the location, the
\* character or the NPC.  Nothing else writes the settings.
Save(j) ==
    /\ art[j] = "running"
    /\ Uploaded(j)
    /\ Exists
    /\ art' = [art EXCEPT ![j] = "over"]
    /\ urls' = urls \cup {j}
    /\ UNCHANGED <<campaignVars, stored, inviteVars, partyVars, join>>

\* No image, a rejected put, a missing row: the other jobs go on (allSettled).
JobFails(j) ==
    /\ art[j] = "running"
    /\ art' = [art EXCEPT ![j] = "over"]
    /\ UNCHANGED <<campaignVars, stored, urls, inviteVars, partyVars, join>>

--------------------------------------------------------------------------------
(* getOrCreateInviteCode. *)

\* generateInviteCode: eight random bytes.  That they have not been drawn before is all
\* that matters of them.
NewCode == CHOOSE k \in Codes : k \notin returned

\* Mutant: every request makes a code.
AskForNewCode(i) ==
    /\ Exists
    /\ invite[i] = "none"
    /\ Codes \ returned # {}
    /\ code' = NewCode
    /\ returned' = returned \cup {NewCode}
    /\ UNCHANGED <<campaignVars, artVars, invite, partyVars, join>>

\* assertHost returns the campaign as it is then.
AskForCode(i) ==
    /\ Exists
    /\ invite[i] = "none"
    /\ \/ /\ code # NoCode
          /\ returned' = returned \cup {code}
          /\ UNCHANGED invite
       \/ /\ code = NoCode
          /\ invite' = [invite EXCEPT ![i] = "empty"]
          /\ UNCHANGED returned
    /\ UNCHANGED <<campaignVars, artVars, code, partyVars, join>>

WriteCode(i) ==
    /\ invite[i] = "empty"
    /\ invite' = [invite EXCEPT ![i] = "none"]
    /\ \/ /\ Exists
          /\ Codes \ returned # {}
          /\ code' = NewCode
          /\ returned' = returned \cup {NewCode}
       \/ UNCHANGED <<code, returned>>      \* it fails, on a deleted campaign always
    /\ UNCHANGED <<campaignVars, artVars, partyVars, join>>

--------------------------------------------------------------------------------
(* joinCampaignByCode. *)

\* Mutant: the count may reach the maximum.
FullAboveMaximum == Cardinality(members) > MaxPlayers

Full == Cardinality(members) >= MaxPlayers

\* The campaign with the code, and the count of its members.
FindCampaign(c, u) ==
    /\ join[c].at = "none"
    /\ code # NoCode
    /\ join' = [join EXCEPT ![c] = [at |-> "found", user |-> u, full |-> Full, start |-> FALSE]]
    /\ UNCHANGED <<campaignVars, artVars, inviteVars, partyVars>>

\* A member is told so, a guest of a full campaign is refused.
Admit(c) ==
    /\ join[c].at = "found"
    /\ \/ /\ join[c].user \in members \/ join[c].full
          /\ join' = [join EXCEPT ![c] = NoJoin]
       \/ /\ join[c].user \notin members
          /\ ~join[c].full
          /\ join' = [join EXCEPT ![c].at = "admitted"]
    /\ UNCHANGED <<campaignVars, artVars, inviteVars, partyVars>>

FindStart(c) ==
    /\ join[c].at = "admitted"
    /\ join' = [join EXCEPT ![c].at = "located", ![c].start = StartMarked]
    /\ UNCHANGED <<campaignVars, artVars, inviteVars, partyVars>>

\* The transaction.  Without a scene the character gets no place in one.
Join(c) ==
    LET u == join[c].user
    IN  /\ join[c].at = "located"
        /\ Exists
        /\ u \notin members     \* unique (campaignId, userId)
        /\ members' = members \cup {u}
        /\ characters' = characters \cup {u}
        /\ placed' = IF join[c].start THEN placed \cup {u} ELSE placed
        /\ markers' = markers \cup {u}
        /\ participants' = IF "scene" \in world THEN participants \cup {u} ELSE participants
        /\ join' = [join EXCEPT ![c] = NoJoin]
        /\ UNCHANGED <<campaignVars, artVars, inviteVars>>

JoinFails(c) ==
    /\ join[c].at # "none"
    /\ join' = [join EXCEPT ![c] = NoJoin]
    /\ UNCHANGED <<campaignVars, artVars, inviteVars, partyVars>>

--------------------------------------------------------------------------------
(* removeCampaignMember and deleteCampaign. *)

\* Mutant: the markers, which no foreign key ties to a character, are left.
RemoveWithoutMarkers(u) ==
    /\ u \in members \ {Host}
    /\ members' = members \ {u}
    /\ characters' = characters \ {u}
    /\ placed' = placed \ {u}
    /\ participants' = participants \ {u}
    /\ UNCHANGED <<campaignVars, artVars, inviteVars, markers, join>>

Remove(u) ==
    /\ u \in members \ {Host}
    /\ members' = members \ {u}
    /\ characters' = characters \ {u}
    /\ placed' = placed \ {u}
    /\ markers' = markers \ {u}
    /\ participants' = participants \ {u}
    /\ UNCHANGED <<campaignVars, artVars, inviteVars, join>>

\* The foreign keys cascade.  The files stay in the storage.
Delete ==
    /\ Exists
    /\ row' = "deleted"
    /\ world' = {}
    /\ urls' = {}
    /\ code' = NoCode
    /\ members' = {}
    /\ characters' = {}
    /\ markers' = {}
    /\ participants' = {}
    /\ placed' = {}
    /\ UNCHANGED <<creation, lost, art, stored, invite, returned, join>>

--------------------------------------------------------------------------------
Next ==
    \/ CreateDraft \/ Generate \/ Activate \/ Finish \/ FinishWithoutArt \/ CreationFails
    \/ \E p \in Parts : Seed(p) \/ SeedFails(p)
    \/ \E j \in Jobs : Put(j) \/ Save(j) \/ JobFails(j)
    \/ \E i \in Invites : AskForCode(i) \/ WriteCode(i)
    \/ \E c \in Calls :
          \/ \E u \in Users : FindCampaign(c, u)
          \/ Admit(c) \/ FindStart(c) \/ Join(c) \/ JoinFails(c)
    \/ \E u \in Guests : Remove(u)
    \/ Delete

Spec == Init /\ [][Next]_vars

--------------------------------------------------------------------------------
(* Properties. *)

\* Joining, removal and deletion leave no half of a player behind, whenever they run
\* and however far the world has been seeded: who is a player has a character with
\* its marker, nobody else has, and a creation that ended well has made the host
\* one.  Nothing in the database outlives its campaign.
PartyIsWhole ==
    /\ characters \cup markers \cup participants \subseteq members
    /\ members \ {Host} \subseteq characters \cap markers
    /\ Exists /\ creation = "done" => Host \in characters \cap markers \cap participants
    /\ ~Exists => members = {} /\ world = {} /\ urls = {}

\* The page and the maps route are never pointed to a file that is not there, above
\* all not to a map some of whose tiles are missing.
UrlsHaveFiles == \A j \in urls : FilesOf(j) \subseteq stored

\* "max-player cap" (BACKLOG.md): the count is compared before the transaction, so
\* the cap does not hold.  A campaign overfills at most by the guests who were let in
\* at the same time.
OverfillBounded == Cardinality(members) <= MaxPlayers + Cardinality(Calls) - 1

\* The step in which a join looks for the starting location of a campaign that has
\* been created.
LooksForTheStart(c) ==
    /\ creation = "done" /\ Exists
    /\ join[c].at = "admitted" /\ join'[c].at = "located"

\* A campaign that was created has its starting location marked, whatever else of
\* its creation ran beside other requests; nothing but the landscape hides it.
OnlyTheArtUnmarks ==
    [][\A c \in Calls :
          LooksForTheStart(c) => join'[c].start \/ "landscape" \in urls]_vars

\* "creating one on first use" (invites.ts): every request that finds the campaign
\* without a code writes one, over the one that another host's window shows already.
\* Codes that were given out and no longer open the campaign are at most as many as
\* the requests that first use lets in beside the one whose code stays.
DeadCodesBounded == Exists => Cardinality(returned \ {code}) <= Cardinality(Invites) - 1
================================================================================
