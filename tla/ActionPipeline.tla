----------------------------- MODULE ActionPipeline -----------------------------
(* A player's action from the request to the answer: submitActionIntent and     *)
(* resolveActionIntent (packages/domain/src/action-resolver.ts), the reservation*)
(* of redis.ts, the BullMQ queue (apps/realtime/src/queue.ts), the worker       *)
(* (apps/worker/src/index.ts), the realtime service's inline mode and the REST  *)
(* route.  One campaign; the lock is CampaignLock's.                            *)
(*                                                                              *)
(* The database transaction that applies an action is one step here: EventLog   *)
(* shows that its events reach the log as one block.  An await may fail wherever*)
(* the code has one, and a process may die between any two.                     *)
EXTENDS CampaignLock, Integers

CONSTANTS
    Requests,       \* submissions, each with a clientRequestId of its own
    UserOf,         \* UserOf[r]: who submits r
    Modes,          \* the deployments to consider, a subset of AllModes
    NoOne,          \* no reservation
    MaxAttempts,    \* how often BullMQ runs a job that fails (queue.ts: 3)
    MaxStalls,      \* how often it restarts a job whose worker died (BullMQ: 1)
    Faults          \* whether awaits may reject and processes may die

Users == {UserOf[r] : r \in Requests}

\* "worker": the realtime service queues, a worker resolves.  "inline":
\* REALTIME_INLINE_RESOLVE.  "rest": POST /api/campaigns/:id/actions with a
\* REDIS_URL.  "rest-bare": the same without one.
AllModes == {"worker", "inline", "rest", "rest-bare"}

ASSUME PipelineAssumption ==
    /\ Calls = Requests \X {"route", "resolver"}
    /\ NoOne \notin Requests
    /\ Modes \subseteq AllModes
    /\ MaxAttempts \in Nat \ {0}
    /\ MaxStalls \in Nat
    /\ Faults \in BOOLEAN

VARIABLES
    mode,           \* the deployment; it never changes
    reservation,    \* reservation[u]: the Redis key reservation:action:campaign:u
    client,         \* client[r]: how far the submission of r has come
    status,         \* status[r]: the status of its PendingAction row
    job,            \* job[r]: its BullMQ job, or the request that runs it inline
    attempts,       \* attempts[r]: failed runs of the job so far
    stalls,         \* stalls[r]: runs lost to a dead worker so far
    pc,             \* pc[r]: where resolveActionIntent and its caller are
    thrown,         \* thrown[r]: an exception is on its way to the caller
    applied,        \* applied[r]: how often r has been applied to the game state
    late,           \* late[r]: runs that committed and then did not get to the end
    answer          \* answer[r]: what the submitting client has been told; "denied" is
                    \* an error after the result

pipelineVars == <<mode, reservation, client, status, job, attempts, stalls, pc, thrown,
                  applied, late, answer>>

vars == <<pipelineVars, lockVars>>

ResolverPcs == {"idle", "entered", "locking", "locked", "working", "committed", "completed",
                "catching", "caught", "leaving", "unlocking", "publishing", "fanning", "ended"}

TypeOK ==
    /\ LockTypeOK
    /\ mode \in Modes
    /\ reservation \in [Users -> Requests \cup {NoOne}]
    /\ client \in [Requests -> {"idle", "routed", "checked", "set", "reserved", "refused",
                                "accepted", "submitted", "rejected"}]
    /\ status \in [Requests -> {"none", "PENDING", "PROCESSING", "COMPLETED", "FAILED"}]
    /\ job \in [Requests -> {"none", "waiting", "active", "stalled", "succeeded", "failed"}]
    /\ attempts \in [Requests -> 0..MaxAttempts]
    /\ stalls \in [Requests -> 0..MaxStalls]
    /\ pc \in [Requests -> ResolverPcs]
    /\ thrown \in [Requests -> BOOLEAN]
    /\ applied \in [Requests -> Nat]
    /\ late \in [Requests -> Nat]
    /\ answer \in [Requests -> {"none", "resolved", "error", "denied"}]

--------------------------------------------------------------------------------
RouteCall(r) == <<r, "route">>

ResolverCall(r) == <<r, "resolver">>

Redis == mode # "rest-bare"

Rest == mode \in {"rest", "rest-bare"}

Over(r) == job[r] \in {"succeeded", "failed"}

\* Once the row is written the action is in flight until its job is over.
InFlight(r) == client[r] = "submitted" /\ ~Over(r)

Init ==
    /\ LockInit
    /\ mode \in Modes
    /\ reservation = [u \in Users |-> NoOne]
    /\ client = [r \in Requests |-> "idle"]
    /\ status = [r \in Requests |-> "none"]
    /\ job = [r \in Requests |-> "none"]
    /\ attempts = [r \in Requests |-> 0]
    /\ stalls = [r \in Requests |-> 0]
    /\ pc = [r \in Requests |-> "idle"]
    /\ thrown = [r \in Requests |-> FALSE]
    /\ applied = [r \in Requests |-> 0]
    /\ late = [r \in Requests |-> 0]
    /\ answer = [r \in Requests |-> "none"]

--------------------------------------------------------------------------------
(* Submission. *)

GoTo(r, where) == client' = [client EXCEPT ![r] = where]

\* The exception reaches the handler or the route, which reports it.
Reject(r) ==
    /\ GoTo(r, "rejected")
    /\ answer' = [answer EXCEPT ![r] = "error"]

submissionRest == <<mode, status, job, attempts, stalls, pc, thrown, applied, late>>

\* The REST route takes the campaign's lock around the whole request.
EnterRoute(r) ==
    /\ Rest
    /\ client[r] = "idle"
    /\ \/ /\ ~Redis
          /\ GoTo(r, "routed")
          /\ UNCHANGED <<lockVars, answer>>
       \/ /\ Redis
          /\ Acquire(RouteCall(r))
          /\ GoTo(r, "routed")
          /\ UNCHANGED answer
       \/ /\ Redis
          /\ Busy(RouteCall(r))
          /\ Reject(r)
    /\ UNCHANGED <<submissionRest, reservation>>

\* reserveActionSlot: GET.
ReserveRead(r) ==
    /\ client[r] = IF Rest THEN "routed" ELSE "idle"
    /\ \/ /\ ~Redis
          /\ GoTo(r, "reserved")
          /\ UNCHANGED answer
       \/ /\ Redis
          /\ reservation[UserOf[r]] \in {NoOne, r}
          /\ GoTo(r, "checked")
          /\ UNCHANGED answer
       \/ /\ Redis
          /\ reservation[UserOf[r]] \notin {NoOne, r}
          /\ Reject(r)
    /\ UNCHANGED <<submissionRest, reservation, lockVars>>

\* SET EX 30, whatever has been written since the GET.
ReserveWrite(r) ==
    /\ client[r] = "checked"
    /\ reservation' = [reservation EXCEPT ![UserOf[r]] = r]
    /\ GoTo(r, "set")
    /\ UNCHANGED <<submissionRest, answer, lockVars>>

\* The second GET.
ReserveConfirm(r) ==
    /\ client[r] = "set"
    /\ \/ reservation[UserOf[r]] = r /\ GoTo(r, "reserved") /\ UNCHANGED answer
       \/ reservation[UserOf[r]] # r /\ Reject(r)
    /\ UNCHANGED <<submissionRest, reservation, lockVars>>

\* No such scene, no access to it, or the player has acted this round.
Refuse(r) ==
    /\ client[r] = "reserved"
    /\ GoTo(r, "refused")
    /\ UNCHANGED <<submissionRest, reservation, answer, lockVars>>

\* releaseActionReservation: DEL, whoever holds the reservation by now.
Release(r) ==
    reservation' = IF Redis THEN [reservation EXCEPT ![UserOf[r]] = NoOne] ELSE reservation

ReleaseRefused(r) ==
    /\ client[r] = "refused"
    /\ Release(r)
    /\ Reject(r)
    /\ UNCHANGED <<submissionRest, lockVars>>

CreatePending(r) ==
    /\ client[r] = "reserved"
    /\ status' = [status EXCEPT ![r] = "PENDING"]
    /\ GoTo(r, "accepted")
    /\ UNCHANGED <<mode, reservation, job, attempts, stalls, pc, thrown, applied, late, answer,
                   lockVars>>

\* An await rejects or the process dies.  Nothing takes back the reservation that
\* has been written, nor the row: if queueing fails it stays PENDING.
SubmitFails(r) ==
    /\ client[r] \in {"routed", "checked", "set", "reserved", "refused", "accepted"}
    /\ Reject(r)
    /\ UNCHANGED <<submissionRest, reservation, lockVars>>

\* enqueueActionResolution; or the resolver runs in the request that submitted.
HandOver(r) ==
    /\ client[r] = "accepted"
    /\ GoTo(r, "submitted")
    /\ job' = [job EXCEPT ![r] = IF mode = "worker" THEN "waiting" ELSE "active"]
    /\ pc' = [pc EXCEPT ![r] = IF mode = "worker" THEN "idle" ELSE "entered"]
    /\ UNCHANGED <<mode, reservation, status, attempts, stalls, thrown, applied, late, answer,
                   lockVars>>

--------------------------------------------------------------------------------
(* Resolution: the body of resolveActionIntent, run by a worker or inline. *)

resolverRest == <<mode, client, stalls, answer>>

Move(r, where) == pc' = [pc EXCEPT ![r] = where]

Throw(r) == thrown' = [thrown EXCEPT ![r] = TRUE]

SetStatus(r, s) == status' = [status EXCEPT ![r] = s]

\* BullMQ gives the job to a worker; how many run at once is not bounded here.
TakeJob(r) ==
    /\ job[r] = "waiting"
    /\ job' = [job EXCEPT ![r] = "active"]
    /\ thrown' = [thrown EXCEPT ![r] = FALSE]
    /\ Move(r, "entered")
    /\ UNCHANGED <<resolverRest, reservation, status, attempts, applied, late, lockVars>>

\* Mutant: a job that was completed before is resolved again.
ReadPendingUnchecked(r) ==
    /\ pc[r] = "entered"
    /\ Move(r, "locking")
    /\ UNCHANGED <<resolverRest, reservation, status, job, attempts, thrown, applied, late,
                   lockVars>>

\* The row is read, and its status checked, before the lock is taken.
ReadPending(r) ==
    /\ pc[r] = "entered"
    /\ \/ status[r] = "COMPLETED" /\ Throw(r) /\ Move(r, "ended")
       \/ status[r] # "COMPLETED" /\ Move(r, "locking") /\ UNCHANGED thrown
    /\ UNCHANGED <<resolverRest, reservation, status, job, attempts, applied, late, lockVars>>

TakeLock(r) ==
    /\ pc[r] = "locking"
    /\ \/ Redis /\ Acquire(ResolverCall(r)) /\ Move(r, "locked") /\ UNCHANGED thrown
       \/ Redis /\ Busy(ResolverCall(r)) /\ Throw(r) /\ Move(r, "ended")
       \/ ~Redis /\ Move(r, "locked") /\ UNCHANGED <<thrown, lockVars>>
    /\ UNCHANGED <<resolverRest, reservation, status, job, attempts, applied, late>>

MarkProcessing(r) ==
    /\ pc[r] = "locked"
    /\ SetStatus(r, "PROCESSING")
    /\ Move(r, "working")
    /\ UNCHANGED <<resolverRest, reservation, job, attempts, thrown, applied, late, lockVars>>

\* The AI has answered, its delta is valid, and the transaction commits.
CommitDelta(r) ==
    /\ pc[r] = "working"
    /\ applied' = [applied EXCEPT ![r] = @ + 1]
    /\ Move(r, "committed")
    /\ UNCHANGED <<resolverRest, reservation, status, job, attempts, thrown, late, lockVars>>

MarkCompleted(r) ==
    /\ pc[r] = "committed"
    /\ SetStatus(r, "COMPLETED")
    /\ Move(r, "completed")
    /\ UNCHANGED <<resolverRest, reservation, job, attempts, thrown, applied, late, lockVars>>

ReleaseDone(r) ==
    /\ pc[r] = "completed"
    /\ Release(r)
    /\ Move(r, "leaving")
    /\ UNCHANGED <<resolverRest, status, job, attempts, thrown, applied, late, lockVars>>

\* The catch block: the status, then the reservation.
CatchMarkFailed(r) ==
    /\ pc[r] = "catching"
    /\ SetStatus(r, "FAILED")
    /\ Move(r, "caught")
    /\ UNCHANGED <<resolverRest, reservation, job, attempts, thrown, applied, late, lockVars>>

CatchRelease(r) ==
    /\ pc[r] = "caught"
    /\ Release(r)
    /\ Move(r, "leaving")
    /\ UNCHANGED <<resolverRest, status, job, attempts, thrown, applied, late, lockVars>>

\* Where the function goes on once the lock's finally block is done.
AfterLock(r) == IF thrown[r] THEN "ended" ELSE "publishing"

\* Mutant: the finally block deletes the key without looking at it.
LeaveLockUnchecked(r) ==
    /\ pc[r] \in {"leaving", "unlocking"}
    /\ IF Redis
       THEN holder' = Free /\ Leave({ResolverCall(r)})
       ELSE UNCHANGED lockVars
    /\ Move(r, AfterLock(r))
    /\ UNCHANGED <<resolverRest, reservation, status, job, attempts, thrown, applied, late>>

\* The finally block of withCampaignLock.
LeaveLock(r) ==
    /\ \/ /\ pc[r] = "leaving"
          /\ Redis
          /\ CheckToken(ResolverCall(r))
          /\ Move(r, IF holder = ResolverCall(r) THEN "unlocking" ELSE AfterLock(r))
       \/ /\ pc[r] = "unlocking"
          /\ Delete(ResolverCall(r))
          /\ Move(r, AfterLock(r))
       \/ /\ pc[r] = "leaving"
          /\ ~Redis
          /\ Move(r, AfterLock(r))
          /\ UNCHANGED lockVars
    /\ UNCHANGED <<resolverRest, reservation, status, job, attempts, thrown, applied, late>>

\* Mutant: the result is broadcast as soon as the transaction has committed.
PublishEarly(r) ==
    /\ pc[r] \in {"committed", "publishing"}
    /\ answer' = [answer EXCEPT ![r] = "resolved"]
    /\ Move(r, CASE pc[r] = "committed" -> "leaving"
                 [] pc[r] # "committed" /\ Rest -> "ended"
                 [] OTHER -> "fanning")
    /\ UNCHANGED <<mode, client, stalls, reservation, status, job, attempts, thrown, applied,
                   late, lockVars>>

\* The player gets the result: the worker's fanout of action:resolved, the inline
\* mode's delivery to its own sockets, the route's response.
Publish(r) ==
    /\ pc[r] = "publishing"
    /\ answer' = [answer EXCEPT ![r] = "resolved"]
    /\ Move(r, IF Rest THEN "ended" ELSE "fanning")
    /\ UNCHANGED <<mode, client, stalls, reservation, status, job, attempts, thrown, applied,
                   late, lockVars>>

\* What is left to await: the inline mode's fan-out, campaign:event, the tokens.
FanOut(r) ==
    /\ pc[r] = "fanning"
    /\ Move(r, "ended")
    /\ UNCHANGED <<resolverRest, reservation, status, job, attempts, thrown, applied, late,
                   lockVars>>

\* Mutant: an exception leaves the function without its finally blocks.
HandlerPastFinally == [p \in ResolverPcs |-> "ended"]

\* Where an exception thrown at each point is caught.
Handler == [p \in ResolverPcs |->
    CASE p \in {"working", "committed", "completed"} -> "catching"
      [] p \in {"locked", "catching", "caught"}      -> "leaving"
      [] OTHER                                       -> "ended"]

\* A run that has committed and is interrupted before it has returned.
CountLate(r) ==
    late' = IF pc[r] \in {"committed", "completed"} THEN [late EXCEPT ![r] = @ + 1] ELSE late

\* An await rejects: the database, Redis, the AI provider, an invalid delta.
AwaitFails(r) ==
    /\ pc[r] \notin {"idle", "ended"}
    /\ pc[r] = "leaving" => Redis
    /\ pc[r] = "publishing" => ~Rest
    /\ Throw(r)
    /\ Move(r, Handler[pc[r]])
    /\ CountLate(r)
    /\ IF pc[r] \in {"leaving", "unlocking"}
       THEN Abandon({ResolverCall(r)})
       ELSE UNCHANGED lockVars
    /\ UNCHANGED <<resolverRest, reservation, status, job, attempts, applied>>

\* Mutant: a job that fails is always queued again.
EndRunUnbounded(r) ==
    /\ pc[r] = "ended"
    /\ Move(r, "idle")
    /\ attempts' = [attempts EXCEPT ![r] = IF thrown[r] THEN @ + 1 ELSE @]
    /\ job' = [job EXCEPT ![r] = IF thrown[r] THEN "waiting" ELSE "succeeded"]
    /\ UNCHANGED <<mode, client, answer, stalls, reservation, status, thrown, applied, late,
                   lockVars>>

\* Mutant: the attempts of a job are not counted.
EndRunUncounted(r) ==
    /\ pc[r] = "ended"
    /\ Move(r, "idle")
    /\ job' = [job EXCEPT ![r] = IF thrown[r] THEN "waiting" ELSE "succeeded"]
    /\ UNCHANGED <<mode, client, answer, stalls, attempts, reservation, status, thrown, applied,
                   late, lockVars>>

\* The call has returned or thrown.  A failed job goes back to the queue until its
\* attempts are used up; the worker only logs it.  The other modes report it.
EndRun(r) ==
    /\ pc[r] = "ended"
    /\ Move(r, "idle")
    /\ \/ /\ ~thrown[r]
          /\ job' = [job EXCEPT ![r] = "succeeded"]
          /\ UNCHANGED <<attempts, answer>>
       \/ /\ thrown[r]
          /\ mode = "worker"
          /\ attempts' = [attempts EXCEPT ![r] = @ + 1]
          /\ job' = [job EXCEPT ![r] = IF attempts'[r] < MaxAttempts THEN "waiting" ELSE "failed"]
          /\ UNCHANGED answer
       \/ /\ thrown[r]
          /\ mode # "worker"
          /\ job' = [job EXCEPT ![r] = "failed"]
          /\ answer' = [answer EXCEPT ![r] = IF @ = "resolved" THEN "denied" ELSE "error"]
          /\ UNCHANGED attempts
    /\ UNCHANGED <<mode, client, stalls, reservation, status, thrown, applied, late, lockVars>>

--------------------------------------------------------------------------------
(* Failures of processes, and time. *)

\* The calls of withCampaignLock that r's process is in.
Within(r) == {c \in {RouteCall(r), ResolverCall(r)} : stage[c] # "outside"}

\* The process that runs r's job dies.
Crash(r) ==
    /\ job[r] = "active"
    /\ job' = [job EXCEPT ![r] = IF mode = "worker" THEN "stalled" ELSE "failed"]
    /\ Move(r, "idle")
    /\ CountLate(r)
    /\ \/ Abandon(Within(r))
       \/ Within(r) = {} /\ UNCHANGED lockVars
    /\ UNCHANGED <<resolverRest, reservation, status, attempts, thrown, applied>>

\* BullMQ notices a job without a living worker and queues it again, MaxStalls times.
RecoverStalled(r) ==
    /\ job[r] = "stalled"
    /\ \/ /\ stalls[r] < MaxStalls
          /\ stalls' = [stalls EXCEPT ![r] = @ + 1]
          /\ job' = [job EXCEPT ![r] = "waiting"]
       \/ /\ stalls[r] = MaxStalls
          /\ job' = [job EXCEPT ![r] = "failed"]
          /\ UNCHANGED stalls
    /\ UNCHANGED <<mode, client, answer, reservation, status, attempts, pc, thrown, applied, late,
                   lockVars>>

\* The finally block around the whole REST request.
LeaveRoute(r) ==
    /\ Rest
    /\ client[r] = "rejected" \/ Over(r)
    /\ \/ CheckToken(RouteCall(r))
       \/ Delete(RouteCall(r))
       \/ Faults /\ Abandon({RouteCall(r)})
    /\ UNCHANGED pipelineVars

ReservationExpires(u) ==
    /\ reservation[u] # NoOne
    /\ reservation' = [reservation EXCEPT ![u] = NoOne]
    /\ UNCHANGED <<submissionRest, client, answer, lockVars>>

LockExpires ==
    /\ Expire
    /\ UNCHANGED pipelineVars

--------------------------------------------------------------------------------
Submission(r) ==
    \/ EnterRoute(r) \/ ReserveRead(r) \/ ReserveWrite(r) \/ ReserveConfirm(r)
    \/ Refuse(r) \/ ReleaseRefused(r) \/ CreatePending(r) \/ HandOver(r) \/ LeaveRoute(r)

Resolution(r) ==
    \/ TakeJob(r) \/ ReadPending(r) \/ TakeLock(r) \/ MarkProcessing(r) \/ CommitDelta(r)
    \/ MarkCompleted(r) \/ ReleaseDone(r) \/ CatchMarkFailed(r) \/ CatchRelease(r)
    \/ LeaveLock(r) \/ Publish(r) \/ FanOut(r) \/ EndRun(r) \/ RecoverStalled(r)

Failure(r) == Faults /\ (SubmitFails(r) \/ AwaitFails(r) \/ Crash(r))

Time == LockExpires \/ \E u \in Users : ReservationExpires(u)

\* Every request has been answered or given up; only keys are left to expire.
AllDone ==
    /\ \A r \in Requests : client[r] = "rejected" \/ Over(r)
    /\ \A c \in Calls : stage[c] = "outside"
    /\ UNCHANGED vars

Next ==
    \/ \E r \in Requests : Submission(r) \/ Resolution(r) \/ Failure(r)
    \/ Time
    \/ AllDone

Spec == Init /\ [][Next]_vars

\* Code that can run does, BullMQ serves its jobs, and Redis drops keys that nobody
\* else will.  Nothing obliges a player to submit, so only steps after the first are fair.
Fairness ==
    /\ \A r \in Requests :
          /\ WF_vars(client[r] # "idle" /\ Submission(r))
          /\ WF_vars(Resolution(r))
    /\ \A u \in Users : WF_vars(ReservationExpires(u))
    /\ WF_vars(holder = Orphan /\ LockExpires)

FairSpec == Spec /\ Fairness

--------------------------------------------------------------------------------
(* AppliedOnceUnlessLate: an action changes the game state at most once, plus   *)
(* once for every run that was interrupted after its transaction committed and  *)
(* before it returned.  The retry of such a run applies the action again: the   *)
(* transaction leaves no mark on the row that resolveActionIntent reads.        *)
AppliedOnceUnlessLate ==
    \A r \in Requests : applied[r] <= 1 + late[r]

(* StatusTellsTheTruth: a COMPLETED row has been applied; a FAILED one has not, *)
(* unless a run was interrupted after its commit.                               *)
StatusTellsTheTruth ==
    \A r \in Requests :
        /\ status[r] = "COMPLETED" => applied[r] > 0
        /\ status[r] = "FAILED" /\ late[r] = 0 => applied[r] = 0

(* ConfirmedOnlyAfterCommit: what is broadcast as resolved has been committed   *)
(* and its row says so, and stays so ("only after DB transaction commits",      *)
(* apps/realtime/src/broadcast.ts:5).                                           *)
ConfirmedOnlyAfterCommit ==
    \A r \in Requests :
        answer[r] = "resolved" => applied[r] > 0 /\ status[r] = "COMPLETED"

(* CompletedIsFinal: once a run has left the resolver with the row COMPLETED,   *)
(* no later run of the job applies the action again or changes the row, although*)
(* the status is read before the lock is taken (action-resolver.ts:114).        *)
CompletedIsFinal ==
    [][\A r \in Requests :
          status[r] = "COMPLETED" /\ pc[r] \notin {"completed", "catching"} =>
             applied'[r] = applied[r] /\ status'[r] = "COMPLETED"]_vars

\* The points of a run at which its lock has yet to be given back.
Guarded == {"locked", "working", "committed", "completed", "catching", "caught", "leaving"}

(* NothingIsStranded: wherever an action is, somebody can go on with it.  Its   *)
(* job is in the queue or has a run, the run is inside the lock exactly between *)
(* taking it and the end of its finally block, whatever was thrown in between,  *)
(* and the route's lock is held until the request is over and not beyond.       *)
NothingIsStranded ==
    \A r \in Requests :
        /\ InFlight(r) => job[r] \in {"waiting", "stalled"} \/ pc[r] # "idle"
        /\ stage[ResolverCall(r)] = "inside" <=> Redis /\ pc[r] \in Guarded
        /\ stage[ResolverCall(r)] = "deleting" <=> pc[r] = "unlocking"
        /\ stage[RouteCall(r)] # "outside" => mode = "rest" /\ client[r] # "idle"
        /\ mode = "rest" /\ client[r] \notin {"idle", "rejected"} /\ ~Over(r)
              => stage[RouteCall(r)] = "inside"

Life == INSTANCE ActionLife WITH direct <- mode = "inline"

(* ImplementsLife: for each action, in every deployment and whatever fails, the *)
(* row, the game and the answer take the steps of ActionLife and no others:     *)
(* nothing is worked on again that is COMPLETED, FAILED is written only over    *)
(* what the game does not show or an interrupted run has left there, the result *)
(* is told once, and only in the inline mode an error may follow it: its fan-out*)
(* is awaited after the delivery (apps/realtime/src/broadcast.ts:46-47).        *)
ImplementsLife == Life!Spec

\* The steps that a run can still take from each of its points.
PointsLeft ==
    [entered |-> 14, locking |-> 13, locked |-> 12, working |-> 11, committed |-> 10,
     completed |-> 9, catching |-> 8, caught |-> 7, leaving |-> 6, unlocking |-> 5,
     publishing |-> 4, fanning |-> 3, ended |-> 2, idle |-> 2]

\* The same for a job in state j whose run is at p, if it is not retried.
Remaining(j, p) ==
    CASE j = "none"                  -> 16
      [] j = "waiting"               -> 15
      [] j = "active"                -> PointsLeft[p]
      [] j = "stalled"               -> 1
      [] j \in {"succeeded", "failed"} -> 0

\* The most steps the action can still take.
StepsLeft(r) ==
    17 * (MaxAttempts - attempts[r] + MaxStalls - stalls[r]) + Remaining(job[r], pc[r])

(* EveryStepCounts: whatever an action does next - go on, fail, be caught, be   *)
(* retried, be redelivered - brings it nearer to its end, by a bound that the   *)
(* attempts and redeliveries of its job set.  No order of crashes and retries   *)
(* keeps it going for ever.                                                     *)
EveryStepCounts ==
    [][\A r \in Requests :
          <<job[r], pc[r], attempts[r], stalls[r]>>' # <<job[r], pc[r], attempts[r], stalls[r]>>
              => StepsLeft(r)' < StepsLeft(r)]_vars

(* ActionsEnd: an action whose row was written ends, although the lock makes    *)
(* concurrent actions fail rather than wait.                                    *)
ActionsEnd ==
    \A r \in Requests : client[r] = "accepted" ~> client[r] = "rejected" \/ Over(r)

(* NothingHeldForever: no crash or failure leaves a player's reservation or the *)
(* campaign's lock held for good.                                               *)
NothingHeldForever ==
    /\ \A u \in Users : []<>(reservation[u] = NoOne)
    /\ []<>(holder \in {Free} \cup Calls)
    /\ \A c \in Calls : []<>(holder # c)

(* OneActionPerUser: the reservation lets a player have one action in flight    *)
(* ("Temporary action reservation to prevent duplicate/conflicting intents",    *)
(* packages/domain/src/redis.ts:46).                                            *)
OneActionPerUser ==
    \A q, r \in Requests : UserOf[q] = UserOf[r] /\ InFlight(q) /\ InFlight(r) => q = r

(* UndisturbedActionsResolve: where nothing fails and nobody else acts, an      *)
(* action that is not refused is resolved ("Gameplay uses REST actions",        *)
(* DEPLOYMENT.md:15).                                                           *)
UndisturbedActionsResolve ==
    \A r \in Requests : job[r] # "failed"
================================================================================
