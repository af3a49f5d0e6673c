# Verification of the campaign engine

TLA+ models, TLC runs and TLAPS proofs of the multiplayer text RPG in `src/`: what happens to a
player's action from the moment it is sent, through the reservation, the queue, the campaign's
lock, the AI call and the database transaction, to the broadcast and the screens; the event log all
of it is written to; the rounds and memberships of the table; and the life of a campaign.

1. [The system](#1-the-system)
2. [What is hard about it](#2-what-is-hard-about-it)
3. [Modules](#3-modules)
4. [Runs](#4-runs)
5. [Disagreements between the code and what is said of it](#5-disagreements)
6. [Proofs](#6-proofs)
7. [Abstractions](#7-abstractions)
8. [Not modelled](#8-not-modelled)

## 1. The system

Three processes share a PostgreSQL database and a Redis: the web server (`apps/web`, Next.js
routes), the realtime service (`apps/realtime`, Socket.IO) and the worker (`apps/worker`, BullMQ).
The rules live in `packages/domain`, which all three call. A deployment may have several instances
of each, and may lack the worker (`REALTIME_INLINE_RESOLVE`) or Redis.

| Component | Source | State | Operations | What makes it correct |
|---|---|---|---|---|
| Event log | `packages/domain/src/event-log.ts`, the index on `CampaignEvent` | rows with a sequence per campaign | `getNextEventSequence`, `appendCampaignEvent` inside callers' transactions | contiguous, no duplicates, append-only for readers, transactions not interleaved |
| Campaign lock | `redis.ts` `withCampaignLock` | one Redis key per campaign with a token and a 15 s TTL | SET NX PX, GET + DEL | two resolutions overlap only if a key is lost, and nobody loses it to another's early delete; never held forever |
| Action reservation | `redis.ts` `reserveActionSlot`, `releaseActionReservation` | one Redis key per campaign and user, TTL 30 s | GET, SET EX, GET; DEL | one action per player in flight; freed in the end |
| Submission and resolution | `action-resolver.ts`, the REST route | `PendingAction.status`, the game state | `submitActionIntent`, `resolveActionIntent`, `resolvePlayerAction` | applied once, status tells the truth, every action ends |
| Queue and worker | `apps/realtime/src/queue.ts`, `apps/worker/src/index.ts` | BullMQ jobs, attempts | enqueue, process, publish to the fan-out channel | retries do not repeat effects; the result is broadcast after it is committed |
| Turns | `turns.ts` | `turnMode`, `round`, `acted` in `scene.metadata` | `setTurnMode`, `assertMayActThisRound`, `recordTurnAction` | nobody acts twice in a round without two actions in flight; the round ends with the last one |
| Membership | `members.ts`, `invites.ts` | `CampaignMember` rows, invite code, cap | join, remove, invite code | cap respected, rounds not stuck |
| State delta | `state-update.ts` | characters, NPCs, quests, items, codex, knowledge, markers, world time | `applyStateDelta` | all of an answer or nothing, as if alone |
| Realtime service | `apps/realtime/src/handlers.ts`, `broadcast.ts` | sockets, rooms, subscriptions | `presence:join/leave`, `catch-up:request`, `action:submit`, `chat:send`, disconnect, fan-out | who receives what, how often, in which order |
| Presence and gateway | `packages/realtime/src` | Socket.IO rooms, a presence hash per campaign with a TTL | register, unregister, heartbeat, list; broadcast, send | packets reach the room |
| Browser session | `use-realtime-campaign.ts`, `browser-client.ts`, `scene-panel.tsx` | the socket, the effect and its poll, composer status, watchdog, the last resolution | connect, send, receive, catch up, clean up | one live socket, never stuck, nothing missed between catch-up and broadcasts |
| Play page | `app/campaigns/[id]/page.tsx`, `use-campaign-panels.ts`, `campaign-map.tsx`, `panel-state.ts` | the campaign, the panels, the maps, requests in flight, the art poll | load, refresh, poll, draw | shows what it has heard of, whatever order answers come in |
| Campaign creation, art | `campaigns.ts`, `campaign-art.ts`, `tile-slicer.ts`, `invites.ts` | the campaign, its world, its images, its invite code | create, activate, seed, background jobs, delete | no half-made players, no links to missing files, few dead invite codes |
| Broadcast planning, scene access | `packages/domain/src/broadcast.ts`, `scene-access.ts`, `permissions.ts` | none | pure decisions | nobody receives what they may not see; everyone else does |
| AI routing | `packages/ai/src/router.ts` | none between calls | choose, fall back | a reachable provider answers |
| Storage | `packages/storage` | objects | put, get | |
| Schema, contracts, interface | `packages/db`, `packages/shared`, `apps/web` components | | | |

How they interact. `action:submit` (or the REST route) calls `submitActionIntent`: reserve in
Redis, check the scene and the turn, write a PENDING row. The realtime service then queues a job,
or resolves in the same process. `resolveActionIntent` reads the row, takes the campaign's lock,
marks it PROCESSING, asks the AI, and in one transaction appends `action.submitted`, applies the
delta, records the turn and appends the results; then it marks the row COMPLETED, deletes the
reservation and gives back the lock. The worker publishes the result on a Redis channel to which
every realtime instance subscribes and which each of them broadcasts to the rooms. Joins, removals
and mode switches go through web routes, take no lock, and meet the resolutions in the database
only: at the event log's unique index and at the rows both write. A browser hears of a resolution
through its socket, shows the narration and the markers that came with it, and fetches the campaign
and the panels anew; without a realtime URL the answer of its own POST is all that it hears of.

## 2. What is hard about it

`PROJECT.json` lists each hazard at its line. The ones that shaped the models:

- The lock lives 15 s and is not extended, the AI call inside it has no such bound. Two
  resolutions of a campaign can run at once, so what protects the database is the event log: its
  index makes transactions that append first run one after the other. That is what `EventLog`
  establishes and the other modules use.
- The commit and the COMPLETED mark are two statements. A run that is interrupted between them is
  retried by BullMQ, and the retry applies the action again.
- The status is read before the lock is taken; the round is checked at submission and not when
  the action is applied; the expected players are read on another connection than the
  transaction's; `scene.metadata` is read and written back as a whole.
- The reservation that is to keep a player to one action lives 30 s, goes before each retry, and is
  deleted whoever holds it.
- Reservation and lock are sequences of Redis commands with other clients' commands and expiry in
  between; any process may die between two of them.
- Three attempts, then the job is dropped; a busy campaign uses up attempts.
- `applyStateDelta` reads quantities and merged values and writes them back, in transactions that
  the lock does not keep apart, next to a removal that deletes rows in another order.
- `createCampaign` activates the campaign before it seeds it, one statement after the other with
  others running on after one has failed; guests may join, hosts may delete it, and five kinds of
  background jobs write to it at the same time.
- The browser's connection is opened by an effect that runs twice, asks once per effect for the room
  and the catch-up, and reconnects beneath the hook that asked. Broadcasts are delivered several
  times and in another order than they were committed, and a publication may break off between its
  packets.
- Every screen is filled by requests whose answers may be late, fail, or overtake one another.

## 3. Modules

`CampaignHistory` - abstract: the event log as a sequence that only grows by whole transactions.

`EventLog` - detailed: `Begin`, `GetNextEventSequence`, `InsertRow`, `UniqueViolation`, `Commit`,
`Rollback` are the statements of concurrent transactions under PostgreSQL's READ COMMITTED. `log`
holds the committed rows, `rows[t]` those transaction `t` has inserted and not committed; an
insert whose sequence another transaction holds uncommitted waits (it is not enabled), one whose
sequence is committed aborts. `ImplementsHistory` maps the committed rows to the abstract history.

`ActionLife` - abstract: what becomes of the players' actions, with nothing said of deployments,
locks, queues or processes. An action is recorded, worked on, applied, completed, confirmed; it may
be interrupted just after it was applied, and what fails is recorded as failed and may be tried
again. `Deny` is an error that is told after the result, which only somebody who is told directly
(`direct`, the inline mode) can meet.

`Table` - abstract: the rounds as a game in which one action is recorded after the other, each in
the turn and among the members of its moment. Its one blemish, `EndOvertaken`, is the action that
was being recorded when the host switched the mode.

`CampaignLock` - the key (`holder`) and the calls of `withCampaignLock` (`stage`): `Acquire` and
`Busy` are the two answers of SET NX, `CheckToken` and `Delete` the two commands of the finally
block. `Abandon` is a process that dies inside, or a finally block whose command fails: the token
stays until it expires. `Expire` may come at any moment, whether the call is over or not: no TTL is
relied on. `fate[c]` is a history variable: whether the token that `c` has set is still there, has
expired, or has been deleted by another call (`robbed`).

`ActionPipeline` - EXTENDS `CampaignLock`; composes the reservation, `submitActionIntent`,
`resolveActionIntent`, the queue, the worker, the inline mode and the REST route. `client[r]` is the
program counter of a submission and `pc[r]` that of its resolution, one action per await; every
submission has a `clientRequestId` of its own. `mode` chooses the deployment: `worker`, `inline`,
`rest`, and `rest-bare` (no `REDIS_URL`, hence neither lock nor reservation). `Publish` is the
moment the player gets the result, `FanOut` what is still awaited after it; when that fails in the
inline mode, `EndRun` tells an error after the result (`denied`). `Crash`, `AwaitFails` and
`SubmitFails` may happen at every await. `Handler` is where an exception goes from each point of the
function. `late[r]` is a history variable: it counts the runs that committed and were interrupted
before they returned. `ImplementsLife` maps the row's status, the count of applications and the
answer to those of `ActionLife`, which have the same names. `StepsLeft(r)` bounds the steps an
action can still take, from where its run is and what its job has left.

`Rounds` - the table: the turn fields of one scene, the memberships, `joinCampaignByCode`,
`removeCampaignMember`, `setTurnMode`, and the transactions of resolutions as far as they touch them
(`BeginResolution` appends, `ReadTurn`, `WriteTurn`, `CommitResolution`). A player may have several
actions in flight, up to the bound `InFlightLimit`, and a run that is interrupted after its commit
is run again (`RunsAgain`). `SwitchMode` writes the mode; its event is appended outside any
transaction: `ReadLogEnd` reads the last number (`logEnd` says whether it still is that),
`LogSwitch` takes the next one and waits for a resolution that holds it, `LogSwitchFails` finds it
committed. Two history variables: `switchLost`, a resolution has overwritten a mode that
`setTurnMode` wrote after it had read; `doubled`, who has an action in flight beside another or
beside its own earlier run. `ImplementsTable` maps `members` and `turn` to themselves and the `undo`
of `Table` to what the overtaken transaction is going to write (`OvertakenTurns`); the transactions
in flight are otherwise invisible there.

`WorldState` - the rows an AI answer may change, the answers `stateDeltaSchema` admits, and, as
operators, when an answer is applicable and what it makes of the rows.

`StateHistory` - abstract: answers applied whole, one after another, and the removal of a player.

`StateDelta` - detailed: the transactions of resolutions and of `removeCampaignMember`, one action
per statement, under READ COMMITTED. `db` is what is committed, `mine[a]` what `a` has written and
not committed, `found[a]` what its last `findFirst` returned, `holder` the transaction whose event
has the next number. Rows written by a transaction are locked until it is over; waiting is not being
enabled; `BreakDeadlock` is the server's detector. `ImplementsHistory` maps `db` and `delta` to
`StateHistory`.

`Campaigns` - one campaign: `CreateDraft`, `Generate`, `Activate` and `Finish` are the stages of
`createCampaign`, `Seed` and `SeedFails` the statements of `seedGeneratedWorld` (`Before` is their
order), `Put`, `Uploaded` and `Save` the steps of a job of `generateCampaignArt`; `AskForCode` and
`WriteCode` the two statements of `getOrCreateInviteCode` (`returned` is every code it has given
out, `NewCode` one it has not); `FindCampaign`, `Admit`, `FindStart` and
`Join` those of `joinCampaignByCode`; `Remove` and `Delete`. `MCCampaigns` adds symmetry.

`Gateway` - external behaviour of Socket.IO as `socket-io-gateway.ts` uses it: the campaign's room
and an ordered inbox per connection, of at most `MaxInbox` packets, a bound.

`BrowserSession` - EXTENDS `Gateway`: one browser on the play page. `conn[e]` is how far `connect()`
of effect `e` has come, `sock[c]` the Socket.IO client socket that effect `c` opened, `cur` the one
`RealtimeClient` holds, `asked[e]` the presence:join and catch-up of effect `e` on their way through
the service. `Submit`, `Hear`, `Accept` or `Refuse`, and `Commit` take a request from the composer
to its resolution. `PublishStatus`, `PublishResult` and `PublishToken` are the packets of its
result, each published by itself and none of them bound to follow; `Echo` is a further copy of one
of them. `Handle` is the hook's handlers: all but the statuses set the markers, which `view` and
`version` are about, and a catch-up sets nothing else. `mode` is the deployment: `rest` (no realtime
URL), `worker`, `inline`. `LinkDrops`, `Recovers`, `ReconnectsAnew` and `InstanceDies` are the
faults; the last is also what the disconnect handler does to its process (see 5). `overtaken` is a
history variable.

`PlayPage` - the page between its requests and its screen. Data are versions: a query returns the
version at its sending, a panel holds the one it was given. `Resolved`, `HostChanges` and `Poll`
send requests, `PanelsAnswer`, `CampaignAnswers` and the failures end them in any order; `Redraw`,
`Rebuild` and `MapLoads` are the effects and the load event of `CampaignMap`. `fetchTrouble` and
`mapTrouble` are history variables: they name the cases in which the code does not keep up, and the
properties say that there are no others.

`MCActionPipeline` gives `ActionPipeline` its instance for TLC. The modules `...Proofs` hold the
proofs about the module they are named after. Operators whose comment begins with "Mutant:" are
plausible mistakes in the definition that follows them; none of the specifications uses them. They
show that the properties would notice.

## 4. Runs

| Run | Question | Bounds |
|---|---|---|
| `EventLog` | Is the log of concurrent writers contiguous, append-only, a sequence of whole transactions, and does everybody get through? | three transactions of one to three events each |
| `ActionPipeline` | Does every failure at every await leave what is applied, recorded and told consistent, the lock with its owner, and somebody to go on? | two requests of one player, all four deployments, two attempts, one redelivery |
| `ActionPipelineLive` | Do accepted actions end, and is nothing held for good? | the same, no redelivery |
| `Rounds` | What lets a player act twice in a round, or a round stall, while members come, go and the host switches? | a host and two guests, two actions in flight for each, rounds 1 to 3 |
| `StateDelta` | Is each answer applied whole, by the rows as they are then, and does every transaction end? | two resolutions and a removal; answers of up to two entries about a character, an item and a marker |
| `Campaigns` | What do creation, art, joining, removal and deletion leave behind, whatever fails in between? | three guests, two of them at once, a cap of two, one NPC, two requests for the code |
| `BrowserSession` | One socket? The newest markers after a catch-up? The composer back? The page listening? | one own and one foreign action, two effects, one further copy, two packets at once to a connection, three deployments |
| `PlayPage` | Does the page show what it has heard of, and stop loading? | two changes, three requests at once, one poll |
| `ReservationRace` | Does the reservation keep a player to one action? (No.) | two requests, no failures |
| `RestFallback` | Does an undisturbed REST action resolve? (No.) | one request, no failures |
| `RoundStall` | Does a round end whenever everybody has acted? (No.) | as `Rounds` |
| `SwitchUndone` | Does only the host change the mode? (No.) | as `Rounds` |

What they show.

*EventLog.* `NoGapsNoDuplicates`, `OneWriter`, `TransactionsEnd`, and the refinement: together they
say that a reader who asks for what follows its last event misses nothing. Three
transactions suffice for the one case that two do not have: one commits, one waits for it, and one
has read before both. Three events per transaction is what `resolveActionIntent` appends.

*ActionPipeline.* `AppliedOnceUnlessLate` says exactly how far "applied once" holds: once, plus once
for every run interrupted between its commit and its return. `ImplementsLife` says the rest of what
players are promised, as an order of events: a row is COMPLETED and a result broadcast only when the
game shows the action, nothing is worked on again that is COMPLETED although its status is read
outside the lock, and FAILED is written only over what the game does not show or what an interrupted
run has left there. In the inline mode it allows one thing more, which the code does: an error told
after the result (see 5). Its mutant broadcasts as soon as the transaction has committed.
`OverlapNeedsLostKey` and `OnlyLateDeletesRob` say what the lock gives although its key may expire
under a call that goes on: two resolutions overlap only when one of them has lost its key, and a
call takes another's key only if its own was lost between its GET and its DEL. Their mutants are a
SET without NX and a DEL without a GET. `NothingIsStranded` and `EveryStepCounts` are what can be
said of the actions' end without fairness: an accepted action is queued, running or over, whoever is
inside the lock is before the step that gives it back, and no order of failures and retries is
longer than `StepsLeft`. Their mutants let an exception pass the finally block, and retry without
counting the attempt. Two requests contend for the reservation (one player) and the lock (one
campaign); a third adds no step that the second does not have. `MaxAttempts = 2` stands for the
three of `queue.ts`: a first run, and a retry that may find anything the first one left; `attempts`
enters no guard but the last one.

*ActionPipelineLive.* `ActionsEnd` and `NothingHeldForever` under `FairSpec`. `MaxStalls = 0` keeps
the graph small enough for TLC's liveness check; a dead worker's job then ends as failed, which is
how BullMQ ends it after its last redelivery.

*Rounds.* `InFlightLimit` is a bound on the exploration, not something the code enforces: the
reservation lets several actions of a player through (see 5). Two in flight show what a second one
does. `OnlyDoublesActTwice` says that with this, a repeated run and an overwritten switch all ways
to act twice in a round are named; its mutant forgets the gate on submissions.
`MaxRound` bounds the exploration in the guard of `ReadTurn`: a resolution can roll back at the last
round. Three rounds give an action accepted in one round the time to be applied in the next.
`NoLostTurn` holds only because the transactions append to the log before they read, which its
mutant undoes. `ImplementsTable` is the same claim about whole behaviours: reads and writes of the
turn in four statements are one move of the game. Its mutant is a join that is logged after its
transaction and so meets no resolution.

*StateDelta.* `ImplementsHistory`: no update is lost, no half of an answer is seen, although the
lock is not relied on. What makes it true is that `action.submitted` is inserted before anything is
read; its mutant logs it on its own. The three sections cover a merged value, a quantity that may
use up its row, and a row whose disappearance aborts the answer; `character` and `marker` are also
what the removal deletes, in the order that can deadlock. The other sections repeat one of these
patterns (`Merging`, `Upserting`, `Skipping`), which the proof covers. `TransactionsEnd` needs the
detector: without it the removal and a resolution wait for each other. That the detector as
modelled, which looks for two that wait for each other, misses no longer circle is proved (see 6).

*Campaigns.* `PartyIsWhole` is about every way in which joins, removals and deletion fall between
the statements of a creation that may fail at each of them. `OverfillBounded` says how far the cap
is from holding: two requests at once exceed it by one. `DeadCodesBounded` says how far an invite
code that was given out is from working: all but one of the requests that find none may end up with
a dead one, and no later request adds to them. Its mutant makes a code at every request. Three
guests are one more than may be under way at once. `OnlyTheArtUnmarks`: in a campaign that has been
created, a join misses the starting location only if the landscape has been saved (see 5); its
mutant issues the statements of the seeding without awaiting them.

*BrowserSession.* `Converges`: after the catch-up has come and the inbox is empty the page shows the
newest markers, once the newest resolution has been told and unless a packet of older markers,
result, token or catch-up, was sent after newer ones. Whether older resolutions were ever told does
not matter; one own and one foreign action give every order of commit, join, read and publication.
It is about markers only: nothing brings back a narration that was missed (see 5). `OneLiveSocket`
holds because a cleanup that cannot send throws; its mutant, a `send` that does nothing, leaves two
sockets. `OnlyLateStatusSticks` and `OnlyReconnectsDeafen` name the only ways in which the composer
sticks and the page stops hearing (both are disagreements, see 5). `ComposerFrees` is what the
watchdog gives.

*PlayPage.* `PanelsConverge`, `PageConverges` and `MapsShowTheMarkers` say that only the named
troubles keep the page from showing what it has heard of; two changes and three requests allow an
older answer, a newer one and one that fails. `PanelsConverge` includes the safety half of
`SpinnersEnd`: while the panels say that they load, a request for them is in flight
(`SpinnersHaveRequests`). `SpinnersEnd` and `ArtAppears` are liveness; `MaxPolls` stands for the ten
of `page.tsx`, `ArtAppears`'s mutant polls once less.

Fairness. Code that can run does run, once a submission has taken its first step (nothing obliges a
player to send anything); BullMQ serves waiting jobs and notices dead workers; Redis drops expired
keys; the database runs the statements it is given and breaks deadlocks. In the browser only timers
fire (the watchdog, the art poll) and requests end, with an answer or without; no packet need ever
arrive. Failures, crashes, removals and switches are never fair. `Campaigns` assumes no fairness.

Deadlock. `EventLog`, `ActionPipeline` and `Rounds` name the states in which nothing is left to do
(`AllEnded`, `AllDone`), and every other state must have a successor. `StateDelta`, `Campaigns`,
`BrowserSession` and `PlayPage` say `CHECK_DEADLOCK FALSE`: transactions end, campaigns are deleted,
pages are left, and the bounds on versions and requests are reached. What hangs there is a matter of
the liveness properties.

## 5. Disagreements

Four are runs TLC must find violated; the counterexamples are short.

- `ReservationRace`: two submissions of one player both read the key before either writes it and
  both find their own value when they read it back in the right order. The key is written without
  NX (`redis.ts:56`).
- `RestFallback`: the REST route takes the lock and calls the resolver, which takes it again
  (`route.ts:33`, `action-resolver.ts:121`). With a `REDIS_URL` every accepted REST action fails as
  busy, by itself.
- `RoundStall`: removing the last player a round waits for leaves a round in which everybody has
  acted; only an action could end it and nobody may act. `OnlyDeparturesStall` shows that nothing
  else gets there, short of an overwritten switch.
- `SwitchUndone`: `recordTurnAction` writes back the metadata it read before the host switched the
  mode; the scene returns to the mode the host has just left.

The others came up while modelling, at the lines `PROJECT.json` gives under "findings". They are
modelled as the code has them, and the properties named here hold because they allow for them:

- The disconnect handler uses a name that its module does not have (`handlers.ts:227`): any
  browser's disconnect ends the process (`InstanceDies`), and nobody leaves the presence list.
- The landscape job replaces the start location's metadata, and with it the mark that joins look for
  (`campaign-art.ts:124`): whoever joins later has no location (`OnlyTheArtUnmarks`: nothing else gets
  there).
- The cap is compared before the transaction (`invites.ts:67`; `OverfillBounded`).
- Two first requests for the invite code each write one, and the first works no longer
  (`invites.ts:15`; `DeadCodesBounded`).
- The reservation does not keep a player to one action (`redis.ts:44`: it expires while the AI is
  asked, is released before a retry, raced, and deleted by others), so that a round can record two
  of one player, though BACKLOG.md:55 says one (`OnlyDoublesActTwice`).
- The lock's key expires while the action it protects goes on (`redis.ts:24`; `OverlapNeedsLostKey`).
- Inline, a fan-out that rejects after the delivery to the service's own sockets is told as
  ACTION_SUBMIT_FAILED of an action whose result has been shown (`broadcast.ts:47`; `Deny`).
- A catch-up brings the markers and no narration, world time or panels
  (`use-realtime-campaign.ts:168`; `Converges` is about markers).
- Nothing rejoins the room after a reconnection (`browser-client.ts:40`; `OnlyReconnectsDeafen`).
- A status packet can lock the composer (`use-realtime-campaign.ts:142`; `OnlyLateStatusSticks`).
- An older resolution may be the last one shown, and an older token packet takes a marker back
  (`use-realtime-campaign.ts:152`; `overtaken`).
- Leaving a page that is not connected throws (`use-realtime-campaign.ts:178`; `CleanupThrows`).
- A refused token leaves the composer disabled (`use-realtime-campaign.ts:103`; `TokenFails`).
- A rejected fetch leaves the skeleton for good (`page.tsx:94`; `CampaignRejects`).
- Maps lose their markers when rebuilt, loading or sharing the page (`campaign-map.tsx:97`;
  `mapTrouble`).

## 6. Proofs

All proofs hold for every value of the constants that satisfies the named assumptions
(`MaxAppendsAssumption`, `LockAssumption`, `PipelineAssumption`, `RoundsAssumption`,
`WorldAssumption`, `TxAssumption`, `CampaignsAssumption`, `SessionAssumption`, `PageAssumption`),
which only type the constants and keep names apart. What more a theorem assumes stands in its
statement.

`EventLogProofs`. Neither `NoGapsNoDuplicates` nor `OneWriter` is inductive. The invariant adds that
each transaction's uncommitted rows continue the committed ones exactly (`RowsContinue`) and that a
sequence once read is at most one above what its reader sees now (`ReadsAreLowerBounds`): a stale
read can only be too small. Hence an insert that the index accepts is the one after everything seen
(`NextIsFresh`), and a second writer meets the first one's first row. Theorems: `TypeCorrect`,
`LogIsContiguous`, `WritersTakeTurns`, `ReadersMissNothing`, `NobodyWaitsInALine` (`BlockersGoOn`:
whoever an insert waits for is running and, being the only writer, waits for nobody), and
`LogImplementsHistory`, the refinement, for which `CommitAppends` shows that a commit extends the
abstract history by one block.

`CampaignLockProofs`. The key holds the token of a call exactly if the call is not over and has not
lost it (`KeptIsHeld`). From it `LockExcludes`: of two calls inside one has lost its key; and
`LockRobsLate`: only a call whose key went between its GET and its DEL deletes another's. Nothing is
assumed of how long calls take.

`ActionPipelineProofs`. The invariant is a conjunction over requests: nothing has happened to an
action that has not been handed over (`Untouched`), a run exists only for an active job
(`RunsAreJobs`), what the row says at each point of a run (`StatusOfRun`), and how often an action
whose row is not COMPLETED can have been applied (`AppliedByLateRuns`): only by runs that were
late. No other request appears in it, which is why the status may be read outside the lock: one
job has one run at a time. Theorems: `TypeCorrect`, `AppliedAtMostOnce`, `StatusIsTrue`,
`OnlyCommittedIsConfirmed`, `CompletedStays`, and `ResolutionsExclude` and `RobbedLate`, which carry
the two theorems about the lock over to every path of the pipeline (by the lemma `LockUsed`: its
steps are steps of `CampaignLock`).

`PipelineImplementsLife` needs a second invariant (`LifeInv`), because `ActionLife` counts: a run
that is between its commit and its end has changed the game itself (`AheadOfLate`), so that what it
completes or confirms is due; the catch block follows the work (`CatchesAfterWork`), so that it
never writes FAILED over PENDING; and without a queue no run follows the one whose result was told
(`OneRunWithoutQueue`). Each action of the pipeline is then a step of `ActionLife` or leaves its
variables alone. `StepsRunOut` compares `StepsLeft` before and after every action, and
`StepsAreCounted` says that it is a natural number: together, an action takes finitely many steps
whatever fails. `EveryoneGoesOn` shows that until then it is somewhere where it can take one, the
lock included. `StatusIsTrue`, `OnlyCommittedIsConfirmed` and `CompletedStays` spell out parts of
`ImplementsLife` in the terms of the code; they are proved and not run. What is left to fairness in
`ActionsEnd` is that the steps which are possible are taken.

`RoundsProofs`. The properties of `Rounds` are about what a commit may do to the turn, and no state
invariant follows from them. The invariant says that what a transaction is going to write is exactly
what the turn and the memberships of this moment call for, unless `setTurnMode` has overtaken it
(`ReadsAreCurrent`, `WritesAreCurrent`), which needs `OneResolution` (from the log) and that
memberships change only while no transaction holds the log. `TurnChanges` then lists all that can
happen to the turn in a step. `InFlightHasToAct`: who has one action in flight, and is not
`doubled`, has yet to act, as long as no switch was overwritten. Theorems: `TypeCorrect`,
`OthersActOnce` (for every `InFlightLimit`), `NoTurnIsLost`, `DeparturesStall`, and
`TurnsImplementTable`: a write of the turn that was not overtaken is, by `WritesAreCurrent`, the
move of `Table`; for the others the invariant has `OvertakenHasRead`, so that `undo` is empty unless
a transaction is about to write.

`StateDeltaProofs`. `AnswersApplyWhole`, the refinement, `TypeCorrect`, and `DetectorSuffices`. The
invariant: a transaction is open exactly if it holds the next number of the log (`HolderIsOpen`), so
there is one at a time; only the holder can commit, so what it has found and written is what the
committed rows call for (`WorkIsCurrent`: `FoundIsCurrent`, `WrittenIsWanted`), up to the section it
is in. `FromFinds` says that the sections are visited once and in order; it is about `CHOOSE` over
the eight of them. From this `CommitApplies` concludes that a commit makes of the rows what
`Applied` does, and `RemovalApplies` the same of the removal. The row locks of the removal enter
nowhere: the log's number alone makes the transactions serial. Locks matter for `TransactionsEnd`,
and there `DetectorSuffices` counts who can be waited for: only the removal and the holder of the
log's number have rows (`WritersAreFew`), so a circle of waits runs through both (`WaitsAreFew`).

`CampaignsProofs`. `TypeInvariance`, `PartyInvariance`, `FilesInvariance`, `OverfillInvariance`,
`DeadCodesInvariance`, `StartStaysFindable`. Statements are issued in order (`SeededInOrder`), so a
creation that ended well has written the host's character, marker and place (`HostIsSeeded`). For
the cap, a request that has found a place counts like a member from then on, until it takes the
place or is turned away (`PlacesAreCounted`). For the codes, once there is one, those given out and
the requests that are still to write one are together no more than the requests (`CodesAreCounted`).

`PlayPageProofs`. `TypeCorrect`, `PanelsCatchUp`, `PageCatchesUp`, `MapsAreCurrent`,
`SpinnersAreBacked`. What is due is shown or asked for by a request in flight (`FetchesInv`), which
with nothing in flight is what the properties say; a map shows the markers or has them pending for
its load event (`MapsInv`).

`BrowserSessionProofs`. `TypeCorrect`, `SocketIsTheClients`, `CatchUpMissesNothing`,
`StuckOnlyByLateStatus`, `DeafOnlyAfterReconnect`. Sockets: the second effect runs only when the
first one's socket is up, and closes it (`SocketsInv`). Answers: what is under way was asked over
the client's connection, and nothing is left behind on another (`AnswersInv`). Packets: unless one
has overtaken another, an inbox holds versions in order, none below the one shown (`OrderInv`); then
a result that was out before the catch-up was read is in it, and one that came out after the join is
in the inbox (`CoverInv`), so that with an empty inbox the page shows every result that is out, the
newest included if it is (`NewestIsOut`).

Only model-checked: everything about liveness (`TransactionsEnd` twice, `ActionsEnd`,
`NothingHeldForever`, `ComposerFrees`, `SpinnersEnd`, `ArtAppears`), which is out of the prover's
reach. For four of them the part that needs no fairness is proved: that waiting transactions have
somebody to wait for (`BlockersGoOn`), that a deadlock is one the detector finds
(`DeadlocksAreMutual`), that an action is never stuck and never runs for ever (`NothingIsStranded`,
`EveryStepCounts`), that a spinner has a request (`SpinnersHaveRequests`). Every other property of a
passing run is proved for all values of the constants. Proved without being asked of TLC in a run
are `NeverBehindAReader`, `BlockersGoOn`, `StatusTellsTheTruth`, `ConfirmedOnlyAfterCommit`,
`CompletedIsFinal`, `DeadlocksAreMutual`: they follow from, or explain, properties that a run
checks.

## 7. Abstractions

- `ActionPipeline` has the transaction of a resolution as one step, because `EventLog` shows that
  its events reach the log as one block. What it writes is counted (`applied`), not described.
- Time is not counted: a key with a TTL may expire at any moment.
- External code is modelled from how it is used: PostgreSQL's unique index, BullMQ's attempts
  and redelivery, Redis's commands (each atomic), marked external in the map.
- A stalled job whose worker is merely slow, and so runs twice at once, is not modelled: a run is
  lost only with its process. `PROJECT.json` lists that hazard (`action-resolver.ts:114`) without a
  property.
- After the result has been told, `FanOut` stands for every packet that is still to be awaited.
- Users with the ADMIN role, who pass every check, and OBSERVER members, who never act, are left
  out of `Rounds`.

- `StateDelta` has one row per section. Ids of another campaign's quests or markers, which the code
  does not tell apart, are not modelled. The world time is read at the top of `applyStateDelta`; it is
  modelled in its section, which is the same while commits are serial.
- In `Campaigns` a transaction is one step (`EventLog` and `StateDelta` are about collisions) that
  may fail. An NPC is one statement, a map's tiles are one file, `MaxPortraits` stands for three.
  Guests may join a DRAFT campaign and files outlive a deleted one, as in the code.
- `BrowserSession` chooses freely whether a submission is accepted, resolved and published;
  `ActionPipeline` says how. Of the page's data it has the markers, as a version: one marker, which
  every resolution moves, stands for all. The list in a packet is never empty, since a campaign that
  is played has its host's marker (`HostIsSeeded`); markers that go with a removed player are not
  followed. The markers of a result are read just after the commit (`action-resolver.ts:205`) and
  taken with it. "received", "queued" and "processing" all lock the composer and are one status; a
  status about another player's request is told to everybody, as in the code. `campaign:event`,
  which no page listens to, is no packet. The narration and what is fetched because of it are
  `PlayPage`'s. What is left of a page that has gone is not followed further.
- `PlayPage` hears of a resolution in one step (`Resolved`); what it may miss of them is
  `BrowserSession`'s subject. Two requests of one kind that read the same version are one.

## 8. Not modelled

- AI routing: a loop over providers without state between calls. The call is an await that fails or
  answers anything the schema admits. Image generation likewise.
- The presence list: entries are only added (see 5), so there is no protocol to check.
- Which scenes and events a player may see (`scene-access.ts`, the filters of queries, the planning
  of broadcasts beyond the campaign's room): functions without state. Every plan contains the
  campaign's room, on which `Gateway` rests.
- The storage adapters' I/O, the schema's layout, authentication (a library behind one call), and
  markup.
- `chat:send`, `listCampaigns`, `exportCampaign` and the other calls that keep no state.
