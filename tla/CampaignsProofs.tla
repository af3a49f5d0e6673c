---------------------------- MODULE CampaignsProofs ----------------------------
(* Proofs about Campaigns for any number of guests, NPCs, requests and codes.   *)
EXTENDS Campaigns, FiniteSetTheorems, TLAPS

--------------------------------------------------------------------------------
(* The inductive invariant.  A creation that ended well has written every part, *)
(* because each is issued when the ones before it are there; the parts about    *)
(* the host bring the host's character with them.                               *)

\* Before the form is sent there is nothing to read, so nobody has read anything.
NothingBeforeTheForm ==
    creation = "form" =>
        row = "none" /\ code = NoCode /\ \A c \in Calls : join[c].at = "none"

SeededInOrder == \A p \in world : Before(p) \subseteq world

HostIsAMember == Exists => Host \in members

HostIsSeeded ==
    /\ "character" \in world => Host \in characters
    /\ "markers" \in world => Host \in markers
    /\ "scene" \in world => Host \in participants
    /\ Exists /\ creation \in {"seeded", "done"} => "scene" \in world

PlayersAreWhole ==
    /\ characters \cup markers \cup participants \subseteq members
    /\ members \ {Host} \subseteq characters \cap markers

NothingOutlives == ~Exists => members = {} /\ world = {} /\ urls = {}

\* The requests that have found a place free and may still take it.
Entering == {c \in Calls : join[c].at # "none" /\ ~join[c].full}

AdmittedFoundAPlace == \A c \in Calls : join[c].at \in {"admitted", "located"} => ~join[c].full

PlacesAreCounted ==
    Cardinality(members) + Cardinality(Entering) <= MaxPlayers + Cardinality(Calls) - 1

IInv ==
    /\ TypeOK
    /\ NothingBeforeTheForm
    /\ SeededInOrder
    /\ HostIsAMember
    /\ HostIsSeeded
    /\ PlayersAreWhole
    /\ NothingOutlives
    /\ UrlsHaveFiles
    /\ AdmittedFoundAPlace
    /\ PlacesAreCounted

--------------------------------------------------------------------------------
(* TypeInvariance: every variable keeps its type; what failed was not written.  *)
LEMMA TypeInit == Init => TypeOK
BY DEF Init, TypeOK, NoJoin, JoinType, Users

(* NewCodeIsNew: a code that is drawn has not been drawn before.                *)
LEMMA NewCodeIsNew ==
    ASSUME Codes \ returned # {}
    PROVE  NewCode \in Codes /\ NewCode \notin returned
<1>1. \E k \in Codes : k \notin returned
  OBVIOUS
<1> QED
  BY <1>1 DEF NewCode

LEMMA TypeStep == TypeOK /\ [Next]_vars => TypeOK'
<1> SUFFICES ASSUME TypeOK, [Next]_vars PROVE TypeOK'
  OBVIOUS
<1> USE DEF TypeOK, Users, campaignVars, artVars, inviteVars, partyVars
<1>1. CASE CreateDraft
  BY <1>1 DEF CreateDraft
<1>2. CASE Generate
  BY <1>2 DEF Generate
<1>3. CASE Activate
  BY <1>3 DEF Activate
<1>4. CASE Finish
  BY <1>4 DEF Finish
<1>5. CASE FinishWithoutArt
  BY <1>5 DEF FinishWithoutArt
<1>6. CASE CreationFails
  BY <1>6 DEF CreationFails
<1>7. ASSUME NEW p \in Parts, Seed(p) PROVE TypeOK'
  BY <1>7 DEF Seed, Issued
<1>8. ASSUME NEW p \in Parts, SeedFails(p) PROVE TypeOK'
  BY <1>8 DEF SeedFails, Issued
<1>9. ASSUME NEW j \in Jobs, Put(j) \/ Save(j) \/ JobFails(j) PROVE TypeOK'
  BY <1>9 DEF Put, Save, JobFails, Files
<1>10. ASSUME NEW i \in Invites, AskForCode(i) \/ WriteCode(i) PROVE TypeOK'
  BY <1>10, NewCodeIsNew DEF AskForCode, WriteCode
<1>11. ASSUME NEW c \in Calls, NEW u \in Users, FindCampaign(c, u) PROVE TypeOK'
  BY <1>11 DEF FindCampaign, JoinType, Full
<1>12. ASSUME NEW c \in Calls, Admit(c) PROVE TypeOK'
  <2>1. NoJoin \in JoinType /\ [join[c] EXCEPT !.at = "admitted"] \in JoinType
    BY DEF JoinType, NoJoin
  <2>2. join' \in [Calls -> JoinType]
    BY <1>12, <2>1 DEF Admit
  <2> QED
    BY <1>12, <2>2 DEF Admit
<1>13. ASSUME NEW c \in Calls, FindStart(c) PROVE TypeOK'
  <2>1. StartMarked \in BOOLEAN
    BY DEF StartMarked
  <2>2. [join[c] EXCEPT !.at = "located", !.start = StartMarked] \in JoinType
    BY <2>1 DEF JoinType
  <2>3. join' \in [Calls -> JoinType]
    BY <1>13, <2>2 DEF FindStart
  <2> QED
    BY <1>13, <2>3 DEF FindStart
<1>14. ASSUME NEW c \in Calls, Join(c) PROVE TypeOK'
  BY <1>14 DEF Join, JoinType, NoJoin
<1>15. ASSUME NEW c \in Calls, JoinFails(c) PROVE TypeOK'
  BY <1>15 DEF JoinFails, JoinType, NoJoin
<1>16. ASSUME NEW u \in Guests, Remove(u) PROVE TypeOK'
  BY <1>16 DEF Remove
<1>17. CASE Delete
  BY <1>17 DEF Delete
<1>18. CASE UNCHANGED vars
  BY <1>18 DEF vars
<1> QED
  BY <1>1, <1>2, <1>3, <1>4, <1>5, <1>6, <1>7, <1>8, <1>9, <1>10, <1>11, <1>12, <1>13, <1>14,
     <1>15, <1>16, <1>17, <1>18 DEF Next

THEOREM TypeInvariance == Spec => []TypeOK
BY TypeInit, TypeStep, PTL DEF Spec

--------------------------------------------------------------------------------
(* The steps preserve the invariant.                                            *)
Party ==
    /\ NothingBeforeTheForm
    /\ SeededInOrder
    /\ HostIsAMember
    /\ HostIsSeeded
    /\ PlayersAreWhole
    /\ NothingOutlives
    /\ UrlsHaveFiles
    /\ AdmittedFoundAPlace

(* BeforeOK: what comes before a part, read off Before's cases.                 *)
LEMMA BeforeOK ==
    /\ Before("scene") = {"markers"}
    /\ Before("markers") = {"codex"}
    /\ Before("codex") = Lists
    /\ Before("character") = {"location"}
    /\ Before("location") = {}
    /\ \A p \in Lists : Before(p) = {"character"}
BY CampaignsAssumption DEF Before, Lists

LEMMA PartyInit == Init => Party
BY DEF Init, Party, NothingBeforeTheForm, SeededInOrder, HostIsAMember, HostIsSeeded,
   PlayersAreWhole, NothingOutlives, UrlsHaveFiles, AdmittedFoundAPlace, Exists, NoJoin

(* SeedingKeepsParty: a part is written to a campaign that exists, whose host is *)
(* a member, and after the parts before it.                                      *)
LEMMA SeedingKeepsParty ==
    ASSUME TypeOK, Party, NEW p \in Parts, Seed(p)
    PROVE  Party'
<1> USE DEF TypeOK, Seed, Issued, Exists, artVars, inviteVars
<1>1. NothingBeforeTheForm' /\ HostIsAMember' /\ NothingOutlives' /\ UrlsHaveFiles'
      /\ AdmittedFoundAPlace'
  BY DEF Party, NothingBeforeTheForm, HostIsAMember, NothingOutlives, UrlsHaveFiles,
         AdmittedFoundAPlace
<1>2. SeededInOrder'
  BY DEF Party, SeededInOrder
<1>3. HostIsSeeded'
  <2>1. ("character" \in world => Host \in characters)'
    BY DEF Party, HostIsSeeded
  <2>2. ("markers" \in world => Host \in markers)'
    BY DEF Party, HostIsSeeded
  <2>3. ("scene" \in world => Host \in participants)'
    BY DEF Party, HostIsSeeded
  <2>4. (Exists /\ creation \in {"seeded", "done"} => "scene" \in world)'
    BY DEF Party, HostIsSeeded
  <2> QED
    BY <2>1, <2>2, <2>3, <2>4 DEF HostIsSeeded
<1>4. PlayersAreWhole'
  BY DEF Party, PlayersAreWhole, HostIsAMember
<1> QED
  BY <1>1, <1>2, <1>3, <1>4 DEF Party

(* PartyStep: no step leaves half of a player, or something after its campaign. *)
LEMMA PartyStep == TypeOK /\ Party /\ [Next]_vars => Party'
<1> SUFFICES ASSUME TypeOK, Party, [Next]_vars PROVE Party'
  OBVIOUS
<1> USE DEF Party, NothingBeforeTheForm, SeededInOrder, HostIsAMember, HostIsSeeded,
            PlayersAreWhole, NothingOutlives, UrlsHaveFiles, AdmittedFoundAPlace, Exists,
            campaignVars, artVars, inviteVars, partyVars
<1>1. CASE CreateDraft
  BY <1>1 DEF CreateDraft
<1>2. CASE Generate
  BY <1>2 DEF Generate
<1>3. CASE Activate
  BY <1>3 DEF Activate
<1>4. CASE Finish
  BY <1>4 DEF Finish
<1>5. CASE FinishWithoutArt
  BY <1>5 DEF FinishWithoutArt
<1>6. CASE CreationFails
  BY <1>6 DEF CreationFails
<1>7. ASSUME NEW p \in Parts, Seed(p) PROVE Party'
  BY <1>7, SeedingKeepsParty
<1>8. ASSUME NEW p \in Parts, SeedFails(p) PROVE Party'
  BY <1>8 DEF SeedFails, Issued
<1>9. ASSUME NEW j \in Jobs, Put(j) \/ Save(j) \/ JobFails(j) PROVE Party'
  BY <1>9 DEF Put, Save, JobFails, Uploaded
<1>10. ASSUME NEW i \in Invites, AskForCode(i) \/ WriteCode(i) PROVE Party'
  BY <1>10 DEF AskForCode, WriteCode
<1>11. ASSUME NEW c \in Calls, NEW u \in Users, FindCampaign(c, u) PROVE Party'
  BY <1>11 DEF FindCampaign, TypeOK
<1>12. ASSUME NEW c \in Calls, Admit(c) PROVE Party'
  BY <1>12 DEF Admit, TypeOK, NoJoin, JoinType
<1>13. ASSUME NEW c \in Calls, FindStart(c) PROVE Party'
  BY <1>13 DEF FindStart, TypeOK, JoinType
<1>14. ASSUME NEW c \in Calls, Join(c) PROVE Party'
  BY <1>14 DEF Join, TypeOK, NoJoin, JoinType
<1>15. ASSUME NEW c \in Calls, JoinFails(c) PROVE Party'
  BY <1>15 DEF JoinFails, TypeOK, NoJoin, JoinType
<1>16. ASSUME NEW u \in Guests, Remove(u) PROVE Party'
  BY <1>16, CampaignsAssumption DEF Remove
<1>17. CASE Delete
  BY <1>17 DEF Delete
<1>18. CASE UNCHANGED vars
  BY <1>18 DEF vars
<1> QED
  BY <1>1, <1>2, <1>3, <1>4, <1>5, <1>6, <1>7, <1>8, <1>9, <1>10, <1>11, <1>12, <1>13, <1>14,
     <1>15, <1>16, <1>17, <1>18 DEF Next

--------------------------------------------------------------------------------
(* The cap.  A request that found a place free counts as a member before it is   *)
(* one; when it found the place, there were fewer members than the maximum.      *)

LEMMA Finite ==
    ASSUME TypeOK
    PROVE  /\ IsFiniteSet(members) /\ Cardinality(members) \in Nat
           /\ IsFiniteSet(Entering) /\ Cardinality(Entering) \in Nat
           /\ Cardinality(Calls) \in Nat /\ Cardinality(Calls) >= 1
<1>1. IsFiniteSet(Users)
  BY CampaignsAssumption, FS_AddElement DEF Users
<1>2. members \in SUBSET Users /\ Entering \in SUBSET Calls
  BY DEF TypeOK, Entering
<1>3. IsFiniteSet(members) /\ IsFiniteSet(Entering)
  BY <1>1, <1>2, CampaignsAssumption, FS_Subset
<1>4. Cardinality(Calls) \in Nat /\ Cardinality(Calls) # 0
  BY CampaignsAssumption, FS_CardinalityType, FS_EmptySet
<1> QED
  BY <1>3, <1>4, FS_CardinalityType

LEMMA PlacesInit == Init => PlacesAreCounted
<1> SUFFICES ASSUME Init PROVE PlacesAreCounted
  OBVIOUS
<1>1. members = {} /\ Entering = {}
  BY DEF Init, Entering, NoJoin
<1>2. Cardinality(Calls) \in Nat /\ Cardinality(Calls) >= 1
  BY TypeInit, Finite
<1> QED
  BY <1>1, <1>2, FS_EmptySet, CampaignsAssumption DEF PlacesAreCounted

(* FewerKeepPlaces: who leaves and who gives up make room.                       *)
LEMMA FewerKeepPlaces ==
    ASSUME TypeOK, TypeOK', PlacesAreCounted, members' \subseteq members,
           Entering' \subseteq Entering
    PROVE  PlacesAreCounted'
<1>1. Cardinality(members') <= Cardinality(members)
      /\ Cardinality(Entering') <= Cardinality(Entering)
  BY Finite, FS_Subset
<1>2. Cardinality(members') \in Nat /\ Cardinality(Entering') \in Nat
  <2>1. IsFiniteSet(members') /\ IsFiniteSet(Entering')
    BY Finite, FS_Subset
  <2> QED
    BY <2>1, FS_CardinalityType
<1> QED
  BY <1>1, <1>2, Finite, CampaignsAssumption DEF PlacesAreCounted

LEMMA PlacesStep == TypeOK /\ TypeOK' /\ Party /\ PlacesAreCounted /\ [Next]_vars => PlacesAreCounted'
<1> SUFFICES ASSUME TypeOK, TypeOK', Party, PlacesAreCounted, [Next]_vars
             PROVE  PlacesAreCounted'
  OBVIOUS
<1> USE DEF campaignVars, artVars, inviteVars, partyVars
<1>1. CASE CreateDraft
  <2>1. members' = {Host} /\ Entering' = {}
    BY <1>1 DEF CreateDraft, Party, NothingBeforeTheForm, Entering
  <2>2. Cardinality(members') = 1 /\ Cardinality(Entering') = 0
    BY <2>1, FS_Singleton, FS_EmptySet
  <2> QED
    BY <2>2, Finite, CampaignsAssumption DEF PlacesAreCounted
<1>2. ASSUME NEW c \in Calls, NEW u \in Users, FindCampaign(c, u) PROVE PlacesAreCounted'
  <2>1. CASE Full
    <3>1. members' = members /\ Entering' \subseteq Entering
      BY <1>2, <2>1 DEF FindCampaign, TypeOK, Entering
    <3> QED
      BY <3>1, FewerKeepPlaces
  <2>2. CASE ~Full
    <3>1. members' = members /\ Entering' \in SUBSET Calls
      BY <1>2 DEF FindCampaign, Entering
    <3>2. Cardinality(Entering') <= Cardinality(Calls) /\ Cardinality(Entering') \in Nat
      <4>1. IsFiniteSet(Entering') /\ Cardinality(Entering') <= Cardinality(Calls)
        BY <3>1, FS_Subset, CampaignsAssumption
      <4> QED
        BY <4>1, FS_CardinalityType
    <3> QED
      BY <2>2, <3>1, <3>2, Finite, CampaignsAssumption DEF Full, PlacesAreCounted
  <2> QED
    BY <2>1, <2>2
<1>3. ASSUME NEW c \in Calls, Join(c) PROVE PlacesAreCounted'
  <2>1. members' = members \cup {join[c].user} /\ join[c].user \notin members
    BY <1>3 DEF Join
  <2>2. c \in Entering /\ Entering' = Entering \ {c}
    BY <1>3 DEF Join, Party, AdmittedFoundAPlace, Entering, TypeOK, NoJoin
  <2>3. Cardinality(members') = Cardinality(members) + 1
    BY <2>1, Finite, FS_AddElement
  <2>4. Cardinality(Entering') = Cardinality(Entering) - 1
    BY <2>2, Finite, FS_RemoveElement
  <2> QED
    BY <2>3, <2>4, Finite, CampaignsAssumption DEF PlacesAreCounted
<1>4. ASSUME NEW c \in Calls, Admit(c) \/ FindStart(c) \/ JoinFails(c) PROVE PlacesAreCounted'
  <2>1. members' = members /\ Entering' \subseteq Entering
    BY <1>4 DEF Admit, FindStart, JoinFails, TypeOK, JoinType, NoJoin, Entering
  <2> QED
    BY <2>1, FewerKeepPlaces
<1>5. ASSUME members' \subseteq members, join' = join PROVE PlacesAreCounted'
  BY <1>5, FewerKeepPlaces DEF Entering
<1>6. ASSUME NEW p \in Parts, Seed(p) \/ SeedFails(p) PROVE PlacesAreCounted'
  BY <1>5, <1>6 DEF Seed, SeedFails
<1>7. ASSUME NEW j \in Jobs, Put(j) \/ Save(j) \/ JobFails(j) PROVE PlacesAreCounted'
  BY <1>5, <1>7 DEF Put, Save, JobFails
<1>8. ASSUME NEW i \in Invites, AskForCode(i) \/ WriteCode(i) PROVE PlacesAreCounted'
  BY <1>5, <1>8 DEF AskForCode, WriteCode
<1>9. CASE \/ Generate \/ Activate \/ Finish \/ FinishWithoutArt \/ CreationFails
           \/ (\E u \in Guests : Remove(u)) \/ Delete
  BY <1>5, <1>9 DEF Generate, Activate, Finish, FinishWithoutArt, CreationFails, Remove, Delete
<1>10. CASE UNCHANGED vars
  BY <1>5, <1>10 DEF vars
<1> QED
  BY <1>1, <1>2, <1>3, <1>4, <1>6, <1>7, <1>8, <1>9, <1>10 DEF Next

--------------------------------------------------------------------------------
(* The invite codes.                                                            *)

\* Requests that found no code and will write one.
Writing == {i \in Invites : invite[i] = "empty"}

\* None has been given out before the first is written; from then on nobody starts to
\* write another.
CodesAreCounted ==
    /\ code = NoCode /\ row # "deleted" => returned = {}
    /\ code # NoCode =>
          /\ code \in returned /\ IsFiniteSet(returned)
          /\ Cardinality(returned) + Cardinality(Writing) <= Cardinality(Invites)

(* InvitesFinite: as many requests write a code as there are at most.          *)
LEMMA InvitesFinite ==
    /\ IsFiniteSet(Writing) /\ Cardinality(Writing) \in Nat
    /\ Cardinality(Invites) \in Nat /\ Cardinality(Invites) >= 1
    /\ Cardinality(Writing) <= Cardinality(Invites)
<1>1. Writing \in SUBSET Invites
  BY DEF Writing
<1>2. Cardinality(Invites) \in Nat /\ Cardinality(Invites) # 0
  BY CampaignsAssumption, FS_CardinalityType, FS_EmptySet
<1> QED
  BY <1>1, <1>2, CampaignsAssumption, FS_Subset, FS_CardinalityType

(* CodesInit: no code has been given out when the campaign is created.          *)
LEMMA CodesInit == Init => CodesAreCounted
  BY DEF Init, CodesAreCounted

(* CodeWritten: one request fewer is writing, and one code more given out.      *)
LEMMA CodeWritten ==
    ASSUME TypeOK, CodesAreCounted, NEW i \in Invites, WriteCode(i)
    PROVE  CodesAreCounted'
<1>1. i \in Writing /\ Writing' = Writing \ {i} /\ row' = row
  BY DEF WriteCode, Writing, TypeOK, campaignVars
<1>2. /\ IsFiniteSet(Writing') /\ Cardinality(Writing') \in Nat
      /\ Cardinality(Writing') = Cardinality(Writing) - 1
  BY <1>1, InvitesFinite, FS_RemoveElement, FS_CardinalityType
<1>3. CASE UNCHANGED <<code, returned>>
  <2>1. CASE code = NoCode
    BY <1>1, <1>3, <2>1 DEF CodesAreCounted
  <2>2. CASE code # NoCode
    <3>1. IsFiniteSet(returned) /\ Cardinality(returned) \in Nat
      BY <2>2, FS_CardinalityType DEF CodesAreCounted
    <3> QED
      BY <1>2, <1>3, <2>2, <3>1, InvitesFinite DEF CodesAreCounted
  <2> QED
    BY <2>1, <2>2
<1>4. ASSUME Codes \ returned # {}, Exists, code' = NewCode, returned' = returned \cup {NewCode}
      PROVE  CodesAreCounted'
  <2>1. code' # NoCode /\ code' \in returned'
    BY <1>4, NewCodeIsNew, CampaignsAssumption
  <2>2. IsFiniteSet(returned) /\ Cardinality(returned) + Cardinality(Writing) <= Cardinality(Invites)
    <3>1. CASE code = NoCode
      <4>1. returned = {}
        BY <1>4, <3>1 DEF CodesAreCounted, Exists
      <4> QED
        BY <4>1, InvitesFinite, FS_EmptySet
    <3>2. CASE code # NoCode
      BY <3>2 DEF CodesAreCounted
    <3> QED
      BY <3>1, <3>2
  <2>3. /\ IsFiniteSet(returned') /\ Cardinality(returned) \in Nat
        /\ Cardinality(returned') = Cardinality(returned) + 1
    <3>1. /\ IsFiniteSet(returned \cup {NewCode})
          /\ Cardinality(returned \cup {NewCode}) = Cardinality(returned) + 1
      BY <1>4, <2>2, NewCodeIsNew, FS_AddElement
    <3> QED
      BY <1>4, <2>2, <3>1, FS_CardinalityType
  <2>4. Cardinality(returned') + Cardinality(Writing') <= Cardinality(Invites)
    BY <1>2, <2>2, <2>3, InvitesFinite
  <2> QED
    BY <2>1, <2>3, <2>4 DEF CodesAreCounted
<1> QED
  BY <1>3, <1>4 DEF WriteCode

(* CodesStep: every step keeps the count; a campaign that has a code stops      *)
(* everybody who asks from writing one.                                         *)
LEMMA CodesStep == TypeOK /\ Party /\ CodesAreCounted /\ [Next]_vars => CodesAreCounted'
<1> SUFFICES ASSUME TypeOK, Party, CodesAreCounted, [Next]_vars PROVE CodesAreCounted'
  OBVIOUS
<1> USE DEF campaignVars, artVars, inviteVars, partyVars
<1>1. ASSUME UNCHANGED inviteVars, row = "deleted" => row' = "deleted" PROVE CodesAreCounted'
  BY <1>1 DEF CodesAreCounted, Writing
<1>2. ASSUME UNCHANGED inviteVars, row # "deleted" PROVE CodesAreCounted'
  BY <1>2 DEF CodesAreCounted, Writing
<1>3. ASSUME NEW i \in Invites, AskForCode(i) PROVE CodesAreCounted'
  <2>1. CASE code = NoCode
    BY <1>3, <2>1 DEF AskForCode, CodesAreCounted
  <2>2. CASE code # NoCode
    BY <1>3, <2>2 DEF AskForCode, CodesAreCounted, Writing
  <2> QED
    BY <2>1, <2>2
<1>4. ASSUME NEW i \in Invites, WriteCode(i) PROVE CodesAreCounted'
  BY <1>4, CodeWritten
<1>5. CASE Delete
  BY <1>5 DEF Delete, CodesAreCounted
<1>6. CASE \/ Generate \/ Finish \/ FinishWithoutArt \/ CreationFails \/ \E u \in Guests : Remove(u)
  BY <1>1, <1>6 DEF Generate, Finish, FinishWithoutArt, CreationFails, Remove
<1>7. CASE CreateDraft \/ Activate
  BY <1>2, <1>7 DEF CreateDraft, Activate, Party, NothingBeforeTheForm
<1>8. ASSUME NEW p \in Parts, Seed(p) \/ SeedFails(p) PROVE CodesAreCounted'
  BY <1>1, <1>8 DEF Seed, SeedFails
<1>9. ASSUME NEW j \in Jobs, Put(j) \/ Save(j) \/ JobFails(j) PROVE CodesAreCounted'
  BY <1>1, <1>9 DEF Put, Save, JobFails
<1>10. ASSUME NEW c \in Calls,
             \/ \E u \in Users : FindCampaign(c, u)
             \/ Admit(c) \/ FindStart(c) \/ Join(c) \/ JoinFails(c)
      PROVE  CodesAreCounted'
  BY <1>1, <1>10 DEF FindCampaign, Admit, FindStart, Join, JoinFails
<1>11. CASE UNCHANGED vars
  BY <1>1, <1>11 DEF vars
<1> QED
  BY <1>3, <1>4, <1>5, <1>6, <1>7, <1>8, <1>9, <1>10, <1>11 DEF Next

--------------------------------------------------------------------------------
(* What the runs check, for every value of the constants.                       *)

LEMMA Invariance == Spec => [](TypeOK /\ Party /\ PlacesAreCounted /\ CodesAreCounted)
<1>1. Init => TypeOK /\ Party /\ PlacesAreCounted /\ CodesAreCounted
  BY TypeInit, PartyInit, PlacesInit, CodesInit
<1>2. TypeOK /\ Party /\ PlacesAreCounted /\ CodesAreCounted /\ [Next]_vars
        => (TypeOK /\ Party /\ PlacesAreCounted /\ CodesAreCounted)'
  BY TypeStep, PartyStep, PlacesStep, CodesStep
<1> QED
  BY <1>1, <1>2, PTL DEF Spec

(* PartyInvariance: whoever is a player of the campaign has a character and its *)
(* marker, nobody else has, and nothing outlives the campaign, whatever joins,  *)
(* removals, failures and deletions run side by side.                           *)
THEOREM PartyInvariance == Spec => []PartyIsWhole
<1>1. TypeOK /\ Party => PartyIsWhole
  <2> SUFFICES ASSUME TypeOK, Party PROVE PartyIsWhole
    OBVIOUS
  <2>1. "scene" \in world => Host \in characters \cap markers \cap participants
    <3> SUFFICES ASSUME "scene" \in world PROVE Host \in characters \cap markers \cap participants
      OBVIOUS
    <3>1. "markers" \in world /\ "codex" \in world /\ Lists \subseteq world
      BY BeforeOK DEF Party, SeededInOrder
    <3>2. "regions" \in Lists
      BY DEF Lists
    <3>3. "character" \in world
      BY <3>1, <3>2, BeforeOK DEF Party, SeededInOrder
    <3> QED
      BY <3>1, <3>3 DEF Party, HostIsSeeded
  <2> QED
    BY <2>1 DEF PartyIsWhole, Party, PlayersAreWhole, HostIsSeeded, NothingOutlives
<1> QED
  BY <1>1, Invariance, PTL

(* FilesInvariance: a row that points to an image has all of the image's files  *)
(* in the storage, however the jobs interleave and fail.                        *)
THEOREM FilesInvariance == Spec => []UrlsHaveFiles
<1>1. Party => UrlsHaveFiles
  BY DEF Party
<1> QED
  BY <1>1, Invariance, PTL

(* OverfillInvariance: k simultaneous requests to join bring a campaign at most *)
(* k - 1 players above its cap.                                                 *)
THEOREM OverfillInvariance == Spec => []OverfillBounded
<1>1. TypeOK /\ PlacesAreCounted => OverfillBounded
  BY Finite, CampaignsAssumption DEF PlacesAreCounted, OverfillBounded
<1> QED
  BY <1>1, Invariance, PTL

(* DeadCodesInvariance: k requests at once waste at most k - 1 codes, however    *)
(* often the campaign's code is asked for afterwards.                           *)
THEOREM DeadCodesInvariance == Spec => []DeadCodesBounded
<1>1. TypeOK /\ CodesAreCounted => DeadCodesBounded
  <2> SUFFICES ASSUME TypeOK, CodesAreCounted, Exists
               PROVE  Cardinality(returned \ {code}) <= Cardinality(Invites) - 1
    BY DEF DeadCodesBounded
  <2>1. CASE code = NoCode
    <3>1. returned = {}
      BY <2>1 DEF CodesAreCounted, Exists
    <3>2. returned \ {code} = {}
      BY <3>1
    <3> QED
      <4>1. Cardinality(returned \ {code}) = 0
        BY <3>2, FS_EmptySet
      <4> QED
        BY <4>1, InvitesFinite
  <2>2. CASE code # NoCode
    <3>1. /\ code \in returned /\ IsFiniteSet(returned)
          /\ Cardinality(returned) + Cardinality(Writing) <= Cardinality(Invites)
      BY <2>2 DEF CodesAreCounted
    <3>2. Cardinality(returned \ {code}) = Cardinality(returned) - 1
      BY <3>1, FS_RemoveElement
    <3> QED
      BY <3>1, <3>2, InvitesFinite, FS_CardinalityType
  <2> QED
    BY <2>1, <2>2
<1> QED
  BY <1>1, Invariance, PTL

(* StartStaysFindable: a join that looks for the starting location of a campaign*)
(* that has been created finds it, unless the landscape has been saved, for any *)
(* world and any order of its seeding (OnlyTheArtUnmarks).                      *)
THEOREM StartStaysFindable == Spec => OnlyTheArtUnmarks
<1>1. TypeOK /\ Party /\ [Next]_vars =>
        [\A c \in Calls :
           LooksForTheStart(c) => join'[c].start \/ "landscape" \in urls]_vars
  <2> SUFFICES ASSUME TypeOK, Party, [Next]_vars, NEW c \in Calls, LooksForTheStart(c),
                      "landscape" \notin urls
               PROVE  join'[c].start
    OBVIOUS
  <2>1. "scene" \in world /\ \A p \in world : Before(p) \subseteq world
    BY DEF Party, HostIsSeeded, SeededInOrder, LooksForTheStart
  <2>2. "location" \in world
    <3>1. "markers" \in world
      BY <2>1, BeforeOK
    <3>2. "codex" \in world
      BY <2>1, <3>1, BeforeOK
    <3>3. "regions" \in world
      BY <2>1, <3>2, BeforeOK DEF Lists
    <3>4. "character" \in world
      BY <2>1, <3>3, BeforeOK DEF Lists
    <3> QED
      BY <2>1, <3>4, BeforeOK
  <2>3. StartMarked
    BY <2>2 DEF StartMarked
  <2>4. FindStart(c)
    <3>1. join[c].at = "admitted" /\ join'[c].at = "located" /\ join[c] # join'[c]
      BY DEF LooksForTheStart
    <3>2. PICK d \in Calls :
             (\E u \in Users : FindCampaign(d, u)) \/ Admit(d) \/ FindStart(d) \/ Join(d)
                \/ JoinFails(d)
      BY <3>1 DEF Next, vars, campaignVars, artVars, inviteVars, partyVars, CreateDraft, Generate,
         Activate, Finish, FinishWithoutArt, CreationFails, Seed, SeedFails, Put, Save, JobFails,
         AskForCode, WriteCode, Remove, Delete
    <3>3. d = c
      BY <3>1, <3>2 DEF TypeOK, FindCampaign, Admit, FindStart, Join, JoinFails
    <3>4. ~\E u \in Users : FindCampaign(c, u)
      BY <3>1 DEF FindCampaign
    <3>5. ~(Admit(c) \/ Join(c) \/ JoinFails(c))
      BY <3>1 DEF TypeOK, Admit, Join, JoinFails, NoJoin
    <3> QED
      BY <3>2, <3>3, <3>4, <3>5
  <2> QED
    BY <2>3, <2>4 DEF FindStart, TypeOK, JoinType
<1> QED
  BY <1>1, Invariance, PTL DEF Spec, OnlyTheArtUnmarks
================================================================================
