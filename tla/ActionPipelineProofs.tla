------------------------- MODULE ActionPipelineProofs -------------------------
(* Proofs about ActionPipeline for any number of requests and players, every    *)
(* deployment, every number of attempts and every interleaving of crashes.      *)
EXTENDS ActionPipeline, CampaignLockProofs

--------------------------------------------------------------------------------
(* The inductive invariant.  AppliedOnceUnlessLate is not inductive: it rests   *)
(* on where a run can be while the row is not COMPLETED, and on what a run that *)
(* has been interrupted leaves behind.                                          *)

\* Until a submission is handed over, nothing has happened to its action.
Untouched(r) ==
    client[r] # "submitted" =>
        /\ job[r] = "none"
        /\ status[r] \in {"none", "PENDING"}
        /\ applied[r] = 0
        /\ answer[r] \notin {"resolved", "denied"}

RunsAreJobs(r) == job[r] # "active" => pc[r] = "idle"

AttemptsLeft(r) == job[r] # "failed" /\ job[r] # "succeeded" => attempts[r] < MaxAttempts

\* What the row says at each point of a run.
StatusOfRun(r) ==
    /\ pc[r] \in {"locking", "locked"} => status[r] # "COMPLETED"
    /\ pc[r] \in {"working", "committed"} => status[r] = "PROCESSING"
    /\ pc[r] \in {"completed", "publishing"} => status[r] = "COMPLETED"
    /\ pc[r] \in {"leaving", "unlocking"} /\ ~thrown[r] => status[r] = "COMPLETED"
    /\ pc[r] \in {"catching", "caught"} => thrown[r]

\* A row that is not COMPLETED has only been applied by runs that were late.
AppliedByLateRuns(r) ==
    /\ applied[r] <= late[r] + 1
    /\ status[r] = "COMPLETED" \/ pc[r] = "committed" \/ applied[r] <= late[r]
    /\ pc[r] \in {"catching", "caught"} => applied[r] <= late[r]
    /\ pc[r] = "committed" \/ status[r] = "COMPLETED" => applied[r] > 0

AnsweredWhenCompleted(r) ==
    answer[r] \in {"resolved", "denied"} =>
        status[r] = "COMPLETED" /\ pc[r] \in {"idle", "entered", "fanning", "ended"}

RequestOK(r) ==
    /\ Untouched(r)
    /\ RunsAreJobs(r)
    /\ AttemptsLeft(r)
    /\ StatusOfRun(r)
    /\ AppliedByLateRuns(r)
    /\ AnsweredWhenCompleted(r)

IInv ==
    /\ TypeOK
    /\ \A r \in Requests : RequestOK(r)

--------------------------------------------------------------------------------
(* HandlerOf: where an exception goes from each point of a run.                 *)
LEMMA HandlerOf ==
    ASSUME NEW p \in ResolverPcs
    PROVE  /\ p \in {"working", "committed", "completed"} => Handler[p] = "catching"
           /\ p \in {"locked", "catching", "caught"} => Handler[p] = "leaving"
           /\ p \notin {"working", "committed", "completed", "locked", "catching", "caught"}
                 => Handler[p] = "ended"
           /\ Handler[p] \in {"catching", "leaving", "ended"}
BY DEF Handler

(* CallsOfRequest: a request's two calls of withCampaignLock are among Calls.  *)
LEMMA CallsOfRequest ==
    ASSUME NEW r \in Requests
    PROVE  RouteCall(r) \in Calls /\ ResolverCall(r) \in Calls /\ Within(r) \subseteq Calls
BY PipelineAssumption DEF RouteCall, ResolverCall, Within

(* LockTyped: the lock's steps keep its variables in their types.               *)
LEMMA LockTyped ==
    ASSUME LockTypeOK, [LockNext]_lockVars
    PROVE  LockTypeOK'
<1> USE LockAssumption DEF LockTypeOK
<1>1. ASSUME NEW c \in Calls, Acquire(c) \/ CheckToken(c) \/ Delete(c) PROVE LockTypeOK'
  BY <1>1 DEF Acquire, CheckToken, Delete, Leave
<1>2. ASSUME NEW S \in SUBSET Calls, Abandon(S) PROVE LockTypeOK'
  BY <1>2 DEF Abandon, Leave
<1>3. CASE Expire \/ UNCHANGED lockVars
  BY <1>3 DEF Expire, lockVars
<1> QED
  BY <1>1, <1>2, <1>3 DEF LockNext

(* StepUsesLock: every step of the pipeline treats the lock as CampaignLock     *)
(* says.                                                                        *)
LEMMA StepUsesLock ==
    ASSUME [Next]_vars
    PROVE  [LockNext]_lockVars
<1>1. ASSUME NEW r \in Requests, Submission(r) PROVE [LockNext]_lockVars
  BY <1>1, CallsOfRequest DEF Submission, EnterRoute, ReserveRead, ReserveWrite, ReserveConfirm,
     Refuse, ReleaseRefused, CreatePending, HandOver, LeaveRoute, Busy, LockNext
<1>2. ASSUME NEW r \in Requests, Resolution(r) PROVE [LockNext]_lockVars
  BY <1>2, CallsOfRequest DEF Resolution, TakeJob, ReadPending, TakeLock, MarkProcessing,
     CommitDelta, MarkCompleted, ReleaseDone, CatchMarkFailed, CatchRelease, LeaveLock, Publish,
     FanOut, EndRun, RecoverStalled, Busy, LockNext
<1>3. ASSUME NEW r \in Requests, Failure(r) PROVE [LockNext]_lockVars
  <2>1. {ResolverCall(r)} \in SUBSET Calls /\ Within(r) \in SUBSET Calls
    BY CallsOfRequest
  <2> QED
    BY <1>3, <2>1 DEF Failure, SubmitFails, AwaitFails, Crash, LockNext
<1>4. CASE Time
  BY <1>4 DEF Time, LockExpires, ReservationExpires, LockNext
<1>5. CASE AllDone \/ UNCHANGED vars
  BY <1>5 DEF AllDone, vars, lockVars
<1> QED
  BY <1>1, <1>2, <1>3, <1>4, <1>5 DEF Next

--------------------------------------------------------------------------------
(* Every action preserves the invariant. *)

(* InitInductive: before any submission the invariant holds.                   *)
LEMMA InitInductive == Init => IInv
<1> SUFFICES ASSUME Init PROVE IInv
  OBVIOUS
<1> USE PipelineAssumption, LockAssumption DEF Init
<1>1. TypeOK
  BY DEF TypeOK, LockInit, LockTypeOK, ResolverPcs
<1>2. \A r \in Requests : RequestOK(r)
  BY DEF RequestOK, Untouched, RunsAreJobs, AttemptsLeft, StatusOfRun, AppliedByLateRuns,
         AnsweredWhenCompleted
<1> QED
  BY <1>1, <1>2 DEF IInv

(* UsersOfRequests: every request is somebody's.                               *)
LEMMA UsersOfRequests ==
    ASSUME NEW r \in Requests
    PROVE  UserOf[r] \in Users
BY DEF Users

(* SubmissionInductive: nothing that happens before an action is handed over    *)
(* has an effect on what the invariant says of any action.                      *)
LEMMA SubmissionInductive ==
    ASSUME IInv, LockTypeOK', NEW r \in Requests, Submission(r)
    PROVE  IInv'
<1> USE PipelineAssumption, UsersOfRequests
<1> USE DEF IInv, TypeOK, ResolverPcs, RequestOK, Untouched, RunsAreJobs, AttemptsLeft,
            StatusOfRun, AppliedByLateRuns, AnsweredWhenCompleted
<1>1. CASE EnterRoute(r)
  BY <1>1 DEF EnterRoute, submissionRest, GoTo, Reject
<1>2. CASE ReserveRead(r)
  BY <1>2 DEF ReserveRead, submissionRest, GoTo, Reject
<1>3. CASE ReserveWrite(r)
  BY <1>3 DEF ReserveWrite, submissionRest, GoTo
<1>4. CASE ReserveConfirm(r)
  BY <1>4 DEF ReserveConfirm, submissionRest, GoTo, Reject
<1>5. CASE Refuse(r)
  BY <1>5 DEF Refuse, submissionRest, GoTo
<1>6. CASE ReleaseRefused(r)
  BY <1>6 DEF ReleaseRefused, Release, submissionRest, GoTo, Reject
<1>7. CASE CreatePending(r)
  BY <1>7 DEF CreatePending, GoTo
<1>8. CASE HandOver(r)
  BY <1>8 DEF HandOver, GoTo
<1>9. CASE LeaveRoute(r)
  BY <1>9 DEF LeaveRoute, pipelineVars
<1> QED
  BY <1>1, <1>2, <1>3, <1>4, <1>5, <1>6, <1>7, <1>8, <1>9 DEF Submission

(* ResolutionInductive: the runs of the resolver, one case per step.            *)
LEMMA ResolutionInductive ==
    ASSUME IInv, LockTypeOK', NEW r \in Requests, Resolution(r)
    PROVE  IInv'
<1> USE PipelineAssumption, UsersOfRequests
<1> USE DEF IInv, TypeOK, ResolverPcs, RequestOK, Untouched, RunsAreJobs, AttemptsLeft,
            StatusOfRun, AppliedByLateRuns, AnsweredWhenCompleted
<1>1. CASE TakeJob(r)
  BY <1>1 DEF TakeJob, resolverRest, Move
<1>2. CASE ReadPending(r)
  <2>1. CASE Throw(r)
    BY <1>2, <2>1 DEF ReadPending, resolverRest, Move, Throw
  <2>2. CASE UNCHANGED thrown
    BY <1>2, <2>2 DEF ReadPending, resolverRest, Move
  <2> QED
    BY <1>2, <2>1, <2>2 DEF ReadPending
<1>3. CASE TakeLock(r)
  <2>1. CASE Throw(r)
    BY <1>3, <2>1 DEF TakeLock, resolverRest, Move, Throw
  <2>2. CASE UNCHANGED thrown
    BY <1>3, <2>2 DEF TakeLock, resolverRest, Move
  <2> QED
    BY <1>3, <2>1, <2>2 DEF TakeLock
<1>4. CASE MarkProcessing(r)
  BY <1>4 DEF MarkProcessing, resolverRest, Move, SetStatus
<1>5. CASE CommitDelta(r)
  BY <1>5 DEF CommitDelta, resolverRest, Move
<1>6. CASE MarkCompleted(r)
  BY <1>6 DEF MarkCompleted, resolverRest, Move, SetStatus
<1>7. CASE ReleaseDone(r)
  BY <1>7 DEF ReleaseDone, Release, resolverRest, Move
<1>8. CASE CatchMarkFailed(r)
  BY <1>8 DEF CatchMarkFailed, resolverRest, Move, SetStatus
<1>9. CASE CatchRelease(r)
  BY <1>9 DEF CatchRelease, Release, resolverRest, Move
<1>10. CASE LeaveLock(r)
  BY <1>10 DEF LeaveLock, AfterLock, resolverRest, Move
<1>11. CASE Publish(r)
  BY <1>11 DEF Publish, Move
<1>12. CASE EndRun(r)
  BY <1>12 DEF EndRun, Move
<1>13. CASE RecoverStalled(r)
  BY <1>13 DEF RecoverStalled
<1>14. CASE FanOut(r)
  BY <1>14 DEF FanOut, resolverRest, Move
<1> QED
  BY <1>1, <1>2, <1>3, <1>4, <1>5, <1>6, <1>7, <1>8, <1>9, <1>10, <1>11, <1>12, <1>13, <1>14
     DEF Resolution

(* FailureInductive: rejected awaits and dying processes.                       *)
LEMMA FailureInductive ==
    ASSUME IInv, LockTypeOK', NEW r \in Requests, Failure(r)
    PROVE  IInv'
<1> USE PipelineAssumption, UsersOfRequests
<1> USE DEF IInv, TypeOK, RequestOK, Untouched, RunsAreJobs, AttemptsLeft, StatusOfRun,
            AppliedByLateRuns, AnsweredWhenCompleted
<1>1. CASE SubmitFails(r)
  BY <1>1 DEF SubmitFails, submissionRest, GoTo, Reject, ResolverPcs
<1>2. CASE AwaitFails(r)
  BY <1>2, HandlerOf DEF AwaitFails, resolverRest, Move, Throw, CountLate, ResolverPcs
<1>3. CASE Crash(r)
  BY <1>3 DEF Crash, resolverRest, Move, CountLate, ResolverPcs
<1> QED
  BY <1>1, <1>2, <1>3 DEF Failure

(* NextInductive: a step of the pipeline is a step of one request, or of time, *)
(* which only frees the reservation or the lock.                               *)
LEMMA NextInductive ==
    ASSUME IInv, [Next]_vars
    PROVE  IInv'
<1>1. LockTypeOK'
  BY StepUsesLock, LockTyped DEF IInv, TypeOK
<1>2. ASSUME NEW r \in Requests, Submission(r) \/ Resolution(r) \/ Failure(r) PROVE IInv'
  BY <1>1, <1>2, SubmissionInductive, ResolutionInductive, FailureInductive
<1>3. CASE Time \/ AllDone \/ UNCHANGED vars
  <2> USE DEF IInv, TypeOK, ResolverPcs, RequestOK, Untouched, RunsAreJobs, AttemptsLeft,
              StatusOfRun, AppliedByLateRuns, AnsweredWhenCompleted
  <2>1. ASSUME NEW u \in Users, ReservationExpires(u) PROVE IInv'
    BY <1>1, <2>1 DEF ReservationExpires, submissionRest
  <2>2. CASE LockExpires \/ AllDone \/ UNCHANGED vars
    BY <1>1, <2>2 DEF LockExpires, AllDone, vars, pipelineVars
  <2> QED
    BY <1>3, <2>1, <2>2 DEF Time
<1> QED
  BY <1>2, <1>3 DEF Next

(* Invariance: the inductive invariant holds in every reachable state.          *)
THEOREM Invariance == Spec => []IInv
BY InitInductive, NextInductive, PTL DEF Spec

--------------------------------------------------------------------------------
(* What follows from it. *)

(* TypeCorrect: every variable keeps its type; in particular no job is run more *)
(* often than BullMQ's attempts allow.                                          *)
THEOREM TypeCorrect == Spec => []TypeOK
<1>1. IInv => TypeOK
  BY DEF IInv
<1> QED
  BY <1>1, Invariance, PTL

(* AppliedAtMostOnce: resolveActionIntent applies an action once, plus once for *)
(* every run that was interrupted between its commit and its return.            *)
THEOREM AppliedAtMostOnce == Spec => []AppliedOnceUnlessLate
<1>1. IInv => AppliedOnceUnlessLate
  <2> SUFFICES ASSUME IInv, NEW r \in Requests PROVE applied[r] <= 1 + late[r]
    BY DEF AppliedOnceUnlessLate
  <2> QED
    BY DEF IInv, TypeOK, RequestOK, AppliedByLateRuns
<1> QED
  BY <1>1, Invariance, PTL

(* StatusIsTrue: what the PendingAction row says of an action agrees with what  *)
(* was done with it.                                                            *)
THEOREM StatusIsTrue == Spec => []StatusTellsTheTruth
<1>1. IInv => StatusTellsTheTruth
  <2> SUFFICES ASSUME IInv, NEW r \in Requests
               PROVE  /\ status[r] = "COMPLETED" => applied[r] > 0
                      /\ status[r] = "FAILED" /\ late[r] = 0 => applied[r] = 0
    BY DEF StatusTellsTheTruth
  <2> QED
    BY DEF IInv, TypeOK, RequestOK, AppliedByLateRuns, StatusOfRun
<1> QED
  BY <1>1, Invariance, PTL

(* OnlyCommittedIsConfirmed: nothing is broadcast as resolved before its        *)
(* transaction has committed, nor taken back afterwards.                        *)
THEOREM OnlyCommittedIsConfirmed == Spec => []ConfirmedOnlyAfterCommit
<1>1. IInv => ConfirmedOnlyAfterCommit
  BY DEF IInv, RequestOK, AppliedByLateRuns, AnsweredWhenCompleted, ConfirmedOnlyAfterCommit
<1> QED
  BY <1>1, Invariance, PTL

(* CompletedStepsAreFinal: the step from a row that is COMPLETED and whose run  *)
(* has left the resolver's try block.                                           *)
LEMMA CompletedStepsAreFinal ==
    ASSUME IInv, Next, NEW r \in Requests,
           status[r] = "COMPLETED", pc[r] \notin {"completed", "catching"}
    PROVE  applied'[r] = applied[r] /\ status'[r] = "COMPLETED"
<1> USE DEF IInv, TypeOK, RequestOK, StatusOfRun, Untouched
<1>1. ASSUME NEW q \in Requests, Submission(q)
      PROVE  applied'[r] = applied[r] /\ status'[r] = "COMPLETED"
  <2>1. CASE CreatePending(q)
    BY <2>1 DEF CreatePending
  <2>2. CASE ~CreatePending(q)
    BY <1>1, <2>2 DEF Submission, EnterRoute, ReserveRead, ReserveWrite, ReserveConfirm, Refuse,
       ReleaseRefused, HandOver, LeaveRoute, submissionRest, pipelineVars
  <2> QED
    BY <2>1, <2>2
<1>2. ASSUME NEW q \in Requests, Resolution(q)
      PROVE  applied'[r] = applied[r] /\ status'[r] = "COMPLETED"
  <2>1. CASE MarkProcessing(q) \/ CommitDelta(q) \/ MarkCompleted(q) \/ CatchMarkFailed(q)
    BY <2>1 DEF MarkProcessing, CommitDelta, MarkCompleted, CatchMarkFailed, SetStatus
  <2>2. CASE ~(MarkProcessing(q) \/ CommitDelta(q) \/ MarkCompleted(q) \/ CatchMarkFailed(q))
    BY <1>2, <2>2 DEF Resolution, TakeJob, ReadPending, TakeLock, ReleaseDone, CatchRelease,
       LeaveLock, Publish, FanOut, EndRun, RecoverStalled, resolverRest
  <2> QED
    BY <2>1, <2>2
<1>3. ASSUME NEW q \in Requests, Failure(q)
      PROVE  applied'[r] = applied[r] /\ status'[r] = "COMPLETED"
  BY <1>3 DEF Failure, SubmitFails, AwaitFails, Crash, submissionRest
<1>4. CASE Time
  BY <1>4 DEF Time, LockExpires, ReservationExpires, submissionRest, pipelineVars
<1>5. CASE AllDone
  BY <1>5 DEF AllDone, vars, pipelineVars
<1> QED
  BY <1>1, <1>2, <1>3, <1>4, <1>5 DEF Next

(* CompletedStays: once an action's row is COMPLETED and its run has left the   *)
(* resolver, no retry of the job applies it again.                              *)
THEOREM CompletedStays == Spec => CompletedIsFinal
<1>1. IInv /\ [Next]_vars =>
        [\A r \in Requests :
           status[r] = "COMPLETED" /\ pc[r] \notin {"completed", "catching"} =>
              applied'[r] = applied[r] /\ status'[r] = "COMPLETED"]_vars
  BY CompletedStepsAreFinal
<1> QED
  BY <1>1, Invariance, PTL DEF Spec, CompletedIsFinal

(* LockUsed: what CampaignLock promises of its own steps therefore holds of the *)
(* pipeline, whose every step takes and gives back the lock by those.           *)
LEMMA LockUsed == Spec => LockSpec
<1>1. Init => LockInit
  BY DEF Init
<1>2. [Next]_vars => [LockNext]_lockVars
  BY StepUsesLock
<1> QED
  BY <1>1, <1>2, PTL DEF Spec, LockSpec

(* ResolutionsExclude: two actions of the campaign are resolved at the same time*)
(* only if one of them has lost the lock's key, to its TTL or to another call.  *)
THEOREM ResolutionsExclude == Spec => []OverlapNeedsLostKey
BY LockUsed, LockExcludes, PTL

(* RobbedLate: and a run that ends deletes the key of another only if its own   *)
(* was lost after it had looked at it, however its own run came to its end.     *)
THEOREM RobbedLate == Spec => OnlyLateDeletesRob
BY LockUsed, LockRobsLate, PTL
--------------------------------------------------------------------------------
(* The pipeline implements ActionLife.  That needs more than IInv: when a run   *)
(* that is interrupted has already changed the game, and that outside the worker*)
(* no run follows the one whose result was told.                                *)

\* The row is written when the submission is accepted, neither before nor after.
RowWhenAccepted(r) ==
    /\ client[r] \notin {"accepted", "submitted", "rejected"} => status[r] = "none"
    /\ client[r] \in {"accepted", "submitted"} => status[r] # "none"

\* Between its commit and its end a run has changed the game itself.
AheadOfLate(r) ==
    /\ late[r] <= applied[r]
    /\ pc[r] \in {"committed", "completed", "publishing"} => late[r] < applied[r]
    /\ pc[r] \in {"leaving", "unlocking"} /\ ~thrown[r] => late[r] < applied[r]

\* The catch block follows the work, and no exception gets as far as the result.
CatchesAfterWork(r) ==
    /\ pc[r] = "publishing" => ~thrown[r]
    /\ pc[r] = "catching" => status[r] \in {"PROCESSING", "COMPLETED"}

\* Without a queue there is one run, and a route's is over when it has answered.
OneRunWithoutQueue(r) ==
    /\ mode # "worker" => job[r] \notin {"waiting", "stalled"}
    /\ Rest /\ answer[r] = "resolved" => pc[r] \in {"idle", "ended"} /\ ~thrown[r]

\* Nothing is told after an error.
ErrorsAreLast(r) ==
    answer[r] \in {"error", "denied"} => client[r] = "rejected" \/ Over(r)

RunOK(r) ==
    /\ RowWhenAccepted(r)
    /\ AheadOfLate(r)
    /\ CatchesAfterWork(r)
    /\ OneRunWithoutQueue(r)
    /\ ErrorsAreLast(r)

LifeInv == \A r \in Requests : RunOK(r)

(* NextKeepsLife: every step preserves it, given the first invariant.           *)
LEMMA NextKeepsLife ==
    ASSUME IInv, LifeInv, [Next]_vars
    PROVE  LifeInv'
<1> USE PipelineAssumption
<1> USE DEF LifeInv, RunOK, RowWhenAccepted, AheadOfLate, CatchesAfterWork, OneRunWithoutQueue,
            ErrorsAreLast, Over, Rest
<1>1. ASSUME NEW r \in Requests, Submission(r) PROVE LifeInv'
  <2> USE DEF IInv, TypeOK, RequestOK, Untouched, RunsAreJobs
  <2>1. CASE CreatePending(r)
    BY <2>1 DEF CreatePending, GoTo
  <2>2. CASE HandOver(r)
    BY <2>2 DEF HandOver, GoTo
  <2>3. CASE EnterRoute(r)
    BY <2>3 DEF EnterRoute, submissionRest, GoTo, Reject
  <2>4. CASE ReserveRead(r)
    BY <2>4 DEF ReserveRead, submissionRest, GoTo, Reject
  <2>5. CASE ReserveWrite(r) \/ ReserveConfirm(r) \/ Refuse(r)
    BY <2>5 DEF ReserveWrite, ReserveConfirm, Refuse, submissionRest, GoTo, Reject
  <2>6. CASE ReleaseRefused(r)
    BY <2>6 DEF ReleaseRefused, Release, submissionRest, GoTo, Reject
  <2>7. CASE LeaveRoute(r)
    BY <2>7 DEF LeaveRoute, pipelineVars
  <2> QED
    BY <1>1, <2>1, <2>2, <2>3, <2>4, <2>5, <2>6, <2>7 DEF Submission
<1>2. ASSUME NEW r \in Requests, Resolution(r) PROVE LifeInv'
  <2> USE DEF IInv, TypeOK, ResolverPcs, RequestOK, Untouched, RunsAreJobs, StatusOfRun,
              AppliedByLateRuns, AnsweredWhenCompleted
  <2>1. CASE TakeJob(r)
    BY <2>1 DEF TakeJob, resolverRest, Move
  <2>2. CASE ReadPending(r)
    <3>1. CASE Throw(r)
      BY <2>2, <3>1 DEF ReadPending, resolverRest, Move, Throw
    <3>2. CASE UNCHANGED thrown
      BY <2>2, <3>2 DEF ReadPending, resolverRest, Move
    <3> QED
      BY <2>2, <3>1, <3>2 DEF ReadPending
  <2>3. CASE TakeLock(r)
    <3>1. CASE Throw(r)
      BY <2>3, <3>1 DEF TakeLock, resolverRest, Move, Throw
    <3>2. CASE UNCHANGED thrown
      BY <2>3, <3>2 DEF TakeLock, resolverRest, Move
    <3> QED
      BY <2>3, <3>1, <3>2 DEF TakeLock
  <2>4. CASE MarkProcessing(r)
    BY <2>4 DEF MarkProcessing, resolverRest, Move, SetStatus
  <2>5. CASE CommitDelta(r)
    BY <2>5 DEF CommitDelta, resolverRest, Move
  <2>6. CASE MarkCompleted(r)
    BY <2>6 DEF MarkCompleted, resolverRest, Move, SetStatus
  <2>7. CASE ReleaseDone(r)
    <3> SUFFICES ASSUME NEW q \in Requests PROVE RunOK(q)'
      BY DEF LifeInv
    <3>1. CASE q = r
      BY <2>7, <3>1 DEF ReleaseDone, resolverRest, Move
    <3>2. CASE q # r
      BY <2>7, <3>2 DEF ReleaseDone, resolverRest, Move
    <3> QED
      BY <3>1, <3>2
  <2>8. CASE CatchMarkFailed(r)
    BY <2>8 DEF CatchMarkFailed, resolverRest, Move, SetStatus
  <2>9. CASE CatchRelease(r)
    BY <2>9 DEF CatchRelease, resolverRest, Move
  <2>10. CASE LeaveLock(r)
    BY <2>10 DEF LeaveLock, AfterLock, resolverRest, Move
  <2>11. CASE Publish(r)
    <3> SUFFICES ASSUME NEW q \in Requests PROVE RunOK(q)'
      BY DEF LifeInv
    <3>1. CASE q = r
      BY <2>11, <3>1 DEF Publish, Move
    <3>2. CASE q # r
      BY <2>11, <3>2 DEF Publish, Move
    <3> QED
      BY <3>1, <3>2
  <2>12. CASE EndRun(r)
    BY <2>12 DEF EndRun, Move
  <2>13. CASE RecoverStalled(r)
    BY <2>13 DEF RecoverStalled
  <2>14. CASE FanOut(r)
    BY <2>14 DEF FanOut, resolverRest, Move
  <2> QED
    BY <1>2, <2>1, <2>2, <2>3, <2>4, <2>5, <2>6, <2>7, <2>8, <2>9, <2>10, <2>11, <2>12, <2>13,
       <2>14 DEF Resolution
<1>3. ASSUME NEW r \in Requests, Failure(r) PROVE LifeInv'
  <2> USE DEF IInv, TypeOK, RequestOK, Untouched, RunsAreJobs, StatusOfRun,
              AppliedByLateRuns, AnsweredWhenCompleted
  <2>1. CASE SubmitFails(r)
    BY <2>1 DEF SubmitFails, submissionRest, GoTo, Reject
  <2>2. CASE AwaitFails(r)
    <3>1. pc[r] \in {"committed", "completed"} => late[r] < applied[r] /\ applied[r] <= late[r] + 1
      OBVIOUS
    <3>2. Rest => answer[r] # "resolved"
      BY <2>2 DEF AwaitFails
    <3> SUFFICES ASSUME NEW q \in Requests PROVE RunOK(q)'
      BY DEF LifeInv
    <3>3. CASE q = r
      BY <2>2, <3>1, <3>2, <3>3, HandlerOf
         DEF AwaitFails, resolverRest, Move, Throw, CountLate, ResolverPcs
    <3>4. CASE q # r
      BY <2>2, <3>4 DEF AwaitFails, resolverRest, Move, Throw, CountLate
    <3> QED
      BY <3>3, <3>4
  <2>3. CASE Crash(r)
    <3> SUFFICES ASSUME NEW q \in Requests PROVE RunOK(q)'
      BY DEF LifeInv
    <3>1. CASE q = r
      BY <2>3, <3>1 DEF Crash, resolverRest, Move, CountLate, ResolverPcs
    <3>2. CASE q # r
      BY <2>3, <3>2 DEF Crash, resolverRest, Move, CountLate
    <3> QED
      BY <3>1, <3>2
  <2> QED
    BY <1>3, <2>1, <2>2, <2>3 DEF Failure
<1>4. CASE Time
  BY <1>4 DEF Time, LockExpires, ReservationExpires, submissionRest, pipelineVars
<1>5. CASE AllDone \/ UNCHANGED vars
  BY <1>5 DEF AllDone, vars, pipelineVars
<1> QED
  BY <1>1, <1>2, <1>3, <1>4, <1>5 DEF Next

(* LifeInvariance: it holds in every reachable state.                           *)
LEMMA LifeInvariance == Spec => []LifeInv
<1>1. Init => LifeInv
  BY PipelineAssumption DEF Init, LifeInv, RunOK, RowWhenAccepted, AheadOfLate,
     CatchesAfterWork, OneRunWithoutQueue, ErrorsAreLast, Rest
<1>2. IInv /\ LifeInv /\ [Next]_vars => LifeInv'
  BY NextKeepsLife
<1> QED
  BY <1>1, <1>2, Invariance, PTL DEF Spec

(* ModeStays: a deployment is what it is.                                       *)
LEMMA ModeStays ==
    ASSUME [Next]_vars
    PROVE  mode' = mode
<1> USE DEF submissionRest, resolverRest, pipelineVars, vars
<1>1. ASSUME NEW r \in Requests, Submission(r) PROVE mode' = mode
  BY <1>1 DEF Submission, EnterRoute, ReserveRead, ReserveWrite, ReserveConfirm, Refuse,
     ReleaseRefused, CreatePending, HandOver, LeaveRoute
<1>2. ASSUME NEW r \in Requests, Resolution(r) PROVE mode' = mode
  BY <1>2 DEF Resolution, TakeJob, ReadPending, TakeLock, MarkProcessing, CommitDelta,
     MarkCompleted, ReleaseDone, CatchMarkFailed, CatchRelease, LeaveLock, Publish, FanOut,
     EndRun, RecoverStalled
<1>3. ASSUME NEW r \in Requests, Failure(r) PROVE mode' = mode
  BY <1>3 DEF Failure, SubmitFails, AwaitFails, Crash
<1>4. CASE Time \/ AllDone \/ UNCHANGED vars
  BY <1>4 DEF Time, LockExpires, ReservationExpires, AllDone
<1> QED
  BY <1>1, <1>2, <1>3, <1>4 DEF Next

(* StepsOfALife: what a step of the pipeline does to the rows, the game and the *)
(* answers.  A run that is interrupted when it has just changed the game is     *)
(* Interrupt, and the catch block's FAILED that may follow is Fail.             *)
LEMMA StepsOfALife ==
    ASSUME IInv, LifeInv, [Next]_vars
    PROVE  [Life!Next]_(Life!vars)
<1> USE ModeStays DEF Life!vars, Life!Next
<1>1. ASSUME NEW r \in Requests, Submission(r) PROVE [Life!Next]_(Life!vars)
  <2>1. client[r] \notin {"submitted", "rejected"} => answer[r] = "none"
    BY DEF IInv, TypeOK, RequestOK, Untouched, LifeInv, RunOK, ErrorsAreLast, Over
  <2>2. CASE CreatePending(r)
    <3>1. Life!Record(r)
      BY <2>2 DEF CreatePending, Life!Record, Life!Becomes, LifeInv, RunOK, RowWhenAccepted
    <3> QED
      BY <3>1
  <2>3. CASE answer' = [answer EXCEPT ![r] = "error"] /\ UNCHANGED <<status, applied, late>>
             /\ client[r] \notin {"submitted", "rejected"}
    <3>1. Life!Report(r)
      BY <2>1, <2>3 DEF Life!Report
    <3> QED
      BY <3>1
  <2>4. CASE UNCHANGED <<status, applied, late, answer>>
    BY <2>4
  <2> QED
    BY <1>1, <2>2, <2>3, <2>4 DEF Submission, EnterRoute, ReserveRead, ReserveWrite,
       ReserveConfirm, Refuse, ReleaseRefused, HandOver, LeaveRoute, Reject, submissionRest,
       pipelineVars
<1>2. ASSUME NEW r \in Requests, Resolution(r) PROVE [Life!Next]_(Life!vars)
  <2>1. applied[r] \in Nat /\ late[r] \in Nat
    BY DEF IInv, TypeOK
  <2>2. /\ AppliedByLateRuns(r) /\ StatusOfRun(r) /\ AnsweredWhenCompleted(r) /\ RunOK(r)
        /\ pc[r] # "idle" => answer[r] \in {"none", "resolved"}
    BY DEF IInv, TypeOK, RequestOK, Untouched, RunsAreJobs, LifeInv, RunOK, ErrorsAreLast, Over
  <2>3. CASE MarkProcessing(r)
    <3>1. status[r] # "none" /\ applied[r] = late[r]
      <4>1. client[r] = "submitted"
        BY <2>3 DEF MarkProcessing, IInv, RequestOK, Untouched, RunsAreJobs
      <4> QED
        BY <2>1, <2>2, <2>3, <4>1 DEF MarkProcessing, RunOK, RowWhenAccepted, AheadOfLate,
           StatusOfRun, AppliedByLateRuns
    <3>2. status[r] \in {"PENDING", "PROCESSING", "FAILED"}
      BY <2>2, <2>3, <3>1 DEF MarkProcessing, StatusOfRun, IInv, TypeOK
    <3>3. Life!Work(r)
      BY <2>3, <3>1, <3>2 DEF MarkProcessing, SetStatus, resolverRest, Life!Work, Life!Becomes
    <3> QED
      BY <3>3
  <2>4. CASE CommitDelta(r)
    <3>1. status[r] = "PROCESSING" /\ applied[r] = late[r]
      BY <2>1, <2>2, <2>4 DEF CommitDelta, RunOK, AheadOfLate, StatusOfRun, AppliedByLateRuns
    <3>2. Life!Apply(r)
      BY <2>4, <3>1 DEF CommitDelta, resolverRest, Life!Apply
    <3> QED
      BY <3>2
  <2>5. CASE MarkCompleted(r)
    <3>1. status[r] = "PROCESSING" /\ applied[r] = late[r] + 1
      BY <2>1, <2>2, <2>5 DEF MarkCompleted, RunOK, AheadOfLate, StatusOfRun, AppliedByLateRuns
    <3>2. Life!Complete(r)
      BY <2>5, <3>1
         DEF MarkCompleted, SetStatus, resolverRest, Life!Complete, Life!Due, Life!Becomes
    <3> QED
      BY <3>2
  <2>6. CASE CatchMarkFailed(r)
    <3>1. status[r] \in {"PROCESSING", "COMPLETED"} /\ applied[r] = late[r]
      BY <2>1, <2>2, <2>6
         DEF CatchMarkFailed, RunOK, AheadOfLate, CatchesAfterWork, AppliedByLateRuns
    <3>2. Life!Fail(r)
      BY <2>6, <3>1 DEF CatchMarkFailed, SetStatus, resolverRest, Life!Fail, Life!Becomes
    <3> QED
      BY <3>2
  <2>7. CASE Publish(r)
    <3>1. status[r] = "COMPLETED" /\ applied[r] = late[r] + 1
      BY <2>1, <2>2, <2>7 DEF Publish, RunOK, AheadOfLate, StatusOfRun, AppliedByLateRuns
    <3>2. answer[r] = "none"
      BY <2>2, <2>7 DEF Publish, AnsweredWhenCompleted
    <3>3. Life!Confirm(r)
      BY <2>7, <3>1, <3>2 DEF Publish, Life!Confirm, Life!Due
    <3> QED
      BY <2>7, <3>3 DEF Publish
  <2>8. CASE EndRun(r) /\ thrown[r] /\ mode # "worker"
    <3>1. answer[r] = "none" \/ (answer[r] = "resolved" /\ mode = "inline")
      <4>1. pc[r] = "ended" /\ thrown[r] /\ mode # "worker"
        BY <2>8 DEF EndRun
      <4>2. answer[r] \in {"none", "resolved"}
        BY <2>2, <4>1
      <4>3. mode \in {"worker", "inline", "rest", "rest-bare"}
        BY PipelineAssumption DEF AllModes, IInv, TypeOK
      <4>4. Rest => answer[r] # "resolved"
        BY <2>2, <4>1 DEF RunOK, OneRunWithoutQueue
      <4> QED
        BY <4>1, <4>2, <4>3, <4>4 DEF Rest
    <3>2. CASE answer[r] = "none"
      BY <2>8, <3>2 DEF EndRun, Life!Report
    <3>3. CASE answer[r] = "resolved" /\ mode = "inline"
      BY <2>8, <3>3 DEF EndRun, Life!Deny
    <3> QED
      BY <3>1, <3>2, <3>3
  <2>9. CASE UNCHANGED <<status, applied, late, answer>>
    BY <2>9
  <2>10. EndRun(r) => (thrown[r] /\ mode # "worker") \/ UNCHANGED <<status, applied, late, answer>>
    BY DEF EndRun
  <2>11. TakeJob(r) \/ ReadPending(r) \/ TakeLock(r) \/ ReleaseDone(r) \/ CatchRelease(r)
            \/ LeaveLock(r) \/ FanOut(r) \/ RecoverStalled(r)
              => UNCHANGED <<status, applied, late, answer>>
    BY DEF TakeJob, ReadPending, TakeLock, ReleaseDone, CatchRelease, LeaveLock, FanOut,
           RecoverStalled, resolverRest
  <2> QED
    BY <1>2, <2>3, <2>4, <2>5, <2>6, <2>7, <2>8, <2>9, <2>10, <2>11 DEF Resolution
<1>3. ASSUME NEW r \in Requests, Failure(r) PROVE [Life!Next]_(Life!vars)
  <2>1. CASE SubmitFails(r)
    <3>1. Life!Report(r)
      BY <2>1 DEF SubmitFails, Reject, submissionRest, Life!Report, IInv, TypeOK, RequestOK,
         Untouched, LifeInv, RunOK, ErrorsAreLast, Over
    <3> QED
      BY <3>1
  <2>2. CASE /\ UNCHANGED <<status, applied, answer>>
             /\ pc[r] \in {"committed", "completed"}
             /\ late' = [late EXCEPT ![r] = @ + 1]
    <3>1. applied[r] \in Nat /\ late[r] \in Nat
      BY DEF IInv, TypeOK
    <3>2. applied[r] = late[r] + 1
      BY <2>2, <3>1 DEF IInv, RequestOK, AppliedByLateRuns, LifeInv, RunOK, AheadOfLate
    <3>3. status[r] \in {"PROCESSING", "COMPLETED"} /\ answer[r] \notin {"resolved", "denied"}
      BY <2>2 DEF IInv, RequestOK, StatusOfRun, AnsweredWhenCompleted
    <3>4. Life!Interrupt(r)
      BY <2>2, <3>2, <3>3 DEF Life!Interrupt, Life!Due
    <3> QED
      BY <3>4
  <2>3. CASE UNCHANGED <<status, applied, late, answer>>
    BY <2>3
  <2> QED
    BY <1>3, <2>1, <2>2, <2>3 DEF Failure, AwaitFails, Crash, CountLate, resolverRest
<1>4. CASE Time \/ AllDone \/ UNCHANGED vars
  BY <1>4 DEF Time, LockExpires, ReservationExpires, AllDone, submissionRest, pipelineVars, vars
<1> QED
  BY <1>1, <1>2, <1>3, <1>4 DEF Next

(* PipelineImplementsLife: for any number of actions and players, every         *)
(* deployment and every interleaving of failures, retries and redeliveries, the *)
(* rows, the game and the answers behave as ActionLife says.                    *)
THEOREM PipelineImplementsLife == Spec => ImplementsLife
<1>1. Init => Life!Init
  BY DEF Init, Life!Init
<1>2. IInv /\ LifeInv /\ [Next]_vars => [Life!Next]_(Life!vars)
  BY StepsOfALife
<1> QED
  BY <1>1, <1>2, Invariance, LifeInvariance, PTL DEF Spec, ImplementsLife, Life!Spec

--------------------------------------------------------------------------------
(* Every step of a job brings it nearer to its end. *)

(* RemainingOf: what is left to a job in each of its states, and to a run at    *)
(* each of its points.                                                          *)
LEMMA RemainingOf ==
    ASSUME NEW p \in ResolverPcs
    PROVE  /\ Remaining("none", p) = 16 /\ Remaining("waiting", p) = 15
           /\ Remaining("stalled", p) = 1
           /\ Remaining("succeeded", p) = 0 /\ Remaining("failed", p) = 0
           /\ Remaining("active", p) = PointsLeft[p]
           /\ PointsLeft[p] \in 2..14
BY DEF Remaining, PointsLeft, ResolverPcs

(* HandlerIsNearer: an exception takes a run nearer to its end.                 *)
LEMMA HandlerIsNearer ==
    ASSUME NEW p \in ResolverPcs \ {"idle", "ended"}
    PROVE  Handler[p] \in ResolverPcs /\ PointsLeft[Handler[p]] < PointsLeft[p]
BY HandlerOf DEF PointsLeft, ResolverPcs

\* What a step changes of r's job, if it changes anything of it.
JobOf(r) == <<job[r], pc[r], attempts[r], stalls[r]>>

(* RunMovesOn: a run that goes on within the resolver is nearer to its end.     *)
LEMMA RunMovesOn ==
    ASSUME IInv, TypeOK', NEW r \in Requests, NEW p \in ResolverPcs,
           pc[r] # "idle", pc'[r] = p, PointsLeft[p] < PointsLeft[pc[r]],
           UNCHANGED <<job, attempts, stalls>>
    PROVE  StepsLeft(r)' < StepsLeft(r)
<1>1. job[r] = "active" /\ job'[r] = "active" /\ pc[r] \in ResolverPcs
  BY DEF IInv, TypeOK, RequestOK, RunsAreJobs
<1>2. /\ Remaining(job[r], pc[r]) = PointsLeft[pc[r]]
      /\ Remaining(job'[r], pc'[r]) = PointsLeft[p]
      /\ PointsLeft[p] \in Int /\ PointsLeft[pc[r]] \in Int
  BY <1>1, RemainingOf
<1>3. /\ attempts[r] \in Int /\ stalls[r] \in Int
      /\ attempts'[r] = attempts[r] /\ stalls'[r] = stalls[r]
  BY DEF IInv, TypeOK
<1> QED
  BY <1>2, <1>3, PipelineAssumption DEF StepsLeft

(* JobMovesOn: so is a job that is handed over, taken, ended, retried or        *)
(* redelivered: every retry and redelivery costs more than a whole run is worth.*)
LEMMA JobMovesOn ==
    ASSUME IInv, TypeOK', NEW r \in Requests,
           \/ HandOver(r) \/ TakeJob(r) \/ EndRun(r) \/ RecoverStalled(r) \/ Crash(r)
    PROVE  StepsLeft(r)' < StepsLeft(r)
<1>1. /\ attempts[r] \in Int /\ stalls[r] \in Int /\ pc[r] \in ResolverPcs
      /\ attempts'[r] \in Int /\ stalls'[r] \in Int /\ pc'[r] \in ResolverPcs
  BY DEF IInv, TypeOK
<1>2. MaxAttempts \in Int /\ MaxStalls \in Int
  BY PipelineAssumption
<1>3. PointsLeft["entered"] = 14 /\ PointsLeft["ended"] = 2
  BY DEF PointsLeft
<1>4. SUFFICES
        17 * (attempts[r] + stalls[r]) + Remaining(job'[r], pc'[r])
           < 17 * (attempts'[r] + stalls'[r]) + Remaining(job[r], pc[r])
  <2>1. Remaining(job[r], pc[r]) \in Int /\ Remaining(job'[r], pc'[r]) \in Int
    BY <1>1, RemainingOf DEF IInv, TypeOK
  <2> QED
    BY <1>1, <1>2, <2>1 DEF StepsLeft
<1>5. CASE HandOver(r)
  <2>1. job[r] = "none" /\ attempts' = attempts /\ stalls' = stalls
    BY <1>5 DEF HandOver, IInv, RequestOK, Untouched
  <2>2. \/ job'[r] = "waiting"
        \/ job'[r] = "active" /\ pc'[r] = "entered"
    BY <1>5 DEF HandOver, IInv, TypeOK
  <2> QED
    BY <1>1, <1>3, <2>1, <2>2, RemainingOf
<1>6. CASE TakeJob(r)
  <2>1. /\ job[r] = "waiting" /\ attempts' = attempts /\ stalls' = stalls
        /\ job'[r] = "active" /\ pc'[r] = "entered"
    BY <1>6 DEF TakeJob, Move, resolverRest, IInv, TypeOK
  <2> QED
    BY <1>1, <1>3, <2>1, RemainingOf
<1>7. CASE EndRun(r)
  <2>1. job[r] = "active" /\ pc[r] = "ended" /\ stalls' = stalls
    BY <1>7 DEF EndRun, IInv, RequestOK, RunsAreJobs
  <2>2. \/ job'[r] \in {"succeeded", "failed"} /\ attempts'[r] = attempts[r]
        \/ job'[r] \in {"waiting", "failed"} /\ attempts'[r] = attempts[r] + 1
    BY <1>7 DEF EndRun, IInv, TypeOK
  <2> QED
    BY <1>1, <1>3, <2>1, <2>2, RemainingOf
<1>8. CASE RecoverStalled(r)
  <2>1. job[r] = "stalled" /\ attempts' = attempts
    BY <1>8 DEF RecoverStalled
  <2>2. \/ job'[r] = "failed" /\ stalls'[r] = stalls[r]
        \/ job'[r] = "waiting" /\ stalls'[r] = stalls[r] + 1
    BY <1>8 DEF RecoverStalled, IInv, TypeOK
  <2> QED
    BY <1>1, <2>1, <2>2, RemainingOf
<1>9. CASE Crash(r)
  <2>1. /\ job[r] = "active" /\ attempts' = attempts /\ stalls' = stalls
        /\ job'[r] \in {"stalled", "failed"}
    BY <1>9 DEF Crash, resolverRest, IInv, TypeOK
  <2> QED
    BY <1>1, <2>1, RemainingOf
<1> QED
  BY <1>5, <1>6, <1>7, <1>8, <1>9

(* EveryStepNearer: and no other step changes anything of a job.                *)
LEMMA EveryStepNearer ==
    ASSUME IInv, TypeOK', Next, NEW r \in Requests, JobOf(r)' # JobOf(r)
    PROVE  StepsLeft(r)' < StepsLeft(r)
<1> USE DEF JobOf
<1>1. ASSUME NEW q \in Requests, q # r, Submission(q) \/ Resolution(q) \/ Failure(q)
      PROVE  FALSE
  <2> USE DEF IInv, TypeOK
  <2>1. CASE Submission(q)
    BY <1>1, <2>1 DEF Submission, EnterRoute, ReserveRead, ReserveWrite, ReserveConfirm, Refuse,
       ReleaseRefused, CreatePending, HandOver, LeaveRoute, submissionRest, pipelineVars
  <2>2. CASE Resolution(q)
    BY <1>1, <2>2 DEF Resolution, TakeJob, ReadPending, TakeLock, MarkProcessing, CommitDelta,
       MarkCompleted, ReleaseDone, CatchMarkFailed, CatchRelease, LeaveLock, Publish, FanOut, EndRun,
       RecoverStalled, Move, resolverRest
  <2>3. CASE Failure(q)
    BY <1>1, <2>3 DEF Failure, SubmitFails, AwaitFails, Crash, Move, submissionRest, resolverRest
  <2> QED
    BY <1>1, <2>1, <2>2, <2>3
<1>2. CASE Submission(r)
  <2>1. HandOver(r)
    BY <1>2 DEF Submission, EnterRoute, ReserveRead, ReserveWrite, ReserveConfirm, Refuse,
       ReleaseRefused, CreatePending, LeaveRoute, submissionRest, pipelineVars
  <2> QED
    BY <2>1, JobMovesOn
<1>3. CASE Resolution(r)
  <2>1. CASE TakeJob(r) \/ EndRun(r) \/ RecoverStalled(r)
    BY <2>1, JobMovesOn
  <2>2. CASE ~(TakeJob(r) \/ EndRun(r) \/ RecoverStalled(r))
    <3>1. UNCHANGED <<job, attempts, stalls>>
      BY <1>3, <2>2 DEF Resolution, ReadPending, TakeLock, MarkProcessing, CommitDelta,
         MarkCompleted, ReleaseDone, CatchMarkFailed, CatchRelease, LeaveLock, Publish, FanOut,
         resolverRest
    <3>2. pc \in [Requests -> ResolverPcs]
      BY DEF IInv, TypeOK
    <3>3. \/ pc[r] = "entered" /\ pc'[r] \in {"locking", "ended"}
          \/ pc[r] = "locking" /\ pc'[r] \in {"locked", "ended"}
          \/ pc[r] = "locked" /\ pc'[r] = "working"
          \/ pc[r] = "working" /\ pc'[r] = "committed"
          \/ pc[r] = "committed" /\ pc'[r] = "completed"
          \/ pc[r] = "completed" /\ pc'[r] = "leaving"
          \/ pc[r] = "catching" /\ pc'[r] = "caught"
          \/ pc[r] = "caught" /\ pc'[r] = "leaving"
          \/ pc[r] = "leaving" /\ pc'[r] \in {"unlocking", "publishing", "ended"}
          \/ pc[r] = "unlocking" /\ pc'[r] \in {"publishing", "ended"}
          \/ pc[r] = "publishing" /\ pc'[r] \in {"fanning", "ended"}
          \/ pc[r] = "fanning" /\ pc'[r] = "ended"
      BY <1>3, <2>2, <3>2 DEF Resolution, ReadPending, TakeLock, MarkProcessing, CommitDelta,
         MarkCompleted, ReleaseDone, CatchMarkFailed, CatchRelease, LeaveLock, AfterLock, Publish,
         FanOut, Move
    <3>4. /\ pc'[r] \in ResolverPcs /\ pc[r] # "idle"
          /\ PointsLeft[pc'[r]] < PointsLeft[pc[r]]
      BY <3>3 DEF PointsLeft, ResolverPcs
    <3> QED
      BY <3>1, <3>4, RunMovesOn
  <2> QED
    BY <2>1, <2>2
<1>4. CASE Failure(r)
  <2>1. CASE Crash(r)
    BY <2>1, JobMovesOn
  <2>2. CASE AwaitFails(r)
    <3>1. /\ UNCHANGED <<job, attempts, stalls>>
          /\ pc[r] \in ResolverPcs \ {"idle", "ended"}
          /\ pc'[r] = Handler[pc[r]]
      BY <2>2 DEF AwaitFails, Move, resolverRest, IInv, TypeOK
    <3> QED
      BY <3>1, HandlerIsNearer, RunMovesOn
  <2>3. CASE SubmitFails(r)
    BY <2>3 DEF SubmitFails, submissionRest
  <2> QED
    BY <1>4, <2>1, <2>2, <2>3 DEF Failure
<1>5. CASE Time \/ AllDone
  BY <1>5 DEF Time, LockExpires, ReservationExpires, AllDone, submissionRest, pipelineVars, vars
<1> QED
  BY <1>1, <1>2, <1>3, <1>4, <1>5 DEF Next

(* StepsRunOut: for any number of attempts and redeliveries no job is retried   *)
(* for ever: whatever happens to an action uses up what is left of a bound that *)
(* is fixed when it is submitted.                                               *)
THEOREM StepsRunOut == Spec => EveryStepCounts
<1>1. IInv /\ IInv' /\ [Next]_vars =>
        [\A r \in Requests :
           <<job[r], pc[r], attempts[r], stalls[r]>>' # <<job[r], pc[r], attempts[r], stalls[r]>>
              => StepsLeft(r)' < StepsLeft(r)]_vars
  BY EveryStepNearer DEF IInv, JobOf
<1> QED
  BY <1>1, Invariance, PTL DEF Spec, EveryStepCounts

(* StepsAreCounted: and there are never fewer than none left.                   *)
THEOREM StepsAreCounted == Spec => [](\A r \in Requests : StepsLeft(r) \in Nat)
<1>1. IInv => \A r \in Requests : StepsLeft(r) \in Nat
  <2> SUFFICES ASSUME IInv, NEW r \in Requests PROVE StepsLeft(r) \in Nat
    OBVIOUS
  <2>1. /\ attempts[r] \in 0..MaxAttempts /\ stalls[r] \in 0..MaxStalls
        /\ MaxAttempts \in Nat /\ MaxStalls \in Nat
    BY PipelineAssumption DEF IInv, TypeOK
  <2>2. Remaining(job[r], pc[r]) \in Nat
    BY RemainingOf DEF IInv, TypeOK
  <2> QED
    BY <2>1, <2>2 DEF StepsLeft
<1> QED
  BY <1>1, Invariance, PTL

--------------------------------------------------------------------------------
(* Nothing is stranded. *)

(* CallsDiffer: no two of the calls of withCampaignLock are the same.           *)
LEMMA CallsDiffer ==
    ASSUME NEW q \in Requests, NEW r \in Requests
    PROVE  /\ RouteCall(q) # ResolverCall(r)
           /\ RouteCall(q) = RouteCall(r) => q = r
           /\ ResolverCall(q) = ResolverCall(r) => q = r
BY DEF RouteCall, ResolverCall

\* What NothingIsStranded says of one action.
NotStranded(r) ==
    /\ InFlight(r) => job[r] \in {"waiting", "stalled"} \/ pc[r] # "idle"
    /\ stage[ResolverCall(r)] = "inside" <=> Redis /\ pc[r] \in Guarded
    /\ stage[ResolverCall(r)] = "deleting" <=> pc[r] = "unlocking"
    /\ stage[RouteCall(r)] # "outside" => mode = "rest" /\ client[r] # "idle"
    /\ mode = "rest" /\ client[r] \notin {"idle", "rejected"} /\ ~Over(r)
          => stage[RouteCall(r)] = "inside"

\* What q's step leaves as it is of another request r.
Untroubled(r) ==
    /\ job'[r] = job[r] /\ pc'[r] = pc[r] /\ client'[r] = client[r] /\ mode' = mode
    /\ stage'[ResolverCall(r)] = stage[ResolverCall(r)]
    /\ stage'[RouteCall(r)] = stage[RouteCall(r)]

LEMMA UntroubledIsNotStranded ==
    ASSUME NEW r \in Requests, NotStranded(r), Untroubled(r)
    PROVE  NotStranded(r)'
BY DEF NotStranded, Untroubled, InFlight, Over, Redis, Guarded, RouteCall, ResolverCall

(* OthersUntroubled: a step of one request does not touch the job, the run and  *)
(* the locks of another.                                                        *)
LEMMA OthersUntroubled ==
    ASSUME IInv, NEW q \in Requests, NEW r \in Requests, q # r,
           Submission(q) \/ Resolution(q) \/ Failure(q)
    PROVE  Untroubled(r)
<1>1. /\ RouteCall(r) \in Calls /\ ResolverCall(r) \in Calls
      /\ RouteCall(r) \notin {RouteCall(q), ResolverCall(q)}
      /\ ResolverCall(r) \notin {RouteCall(q), ResolverCall(q)}
  BY CallsOfRequest, CallsDiffer
<1>2. /\ job \in [Requests -> {"none", "waiting", "active", "stalled", "succeeded", "failed"}]
      /\ pc \in [Requests -> ResolverPcs] /\ stage \in [Calls -> {"outside", "inside", "deleting"}]
      /\ client \in [Requests -> {"idle", "routed", "checked", "set", "reserved", "refused",
                                  "accepted", "submitted", "rejected"}]
  BY DEF IInv, TypeOK, LockTypeOK
<1>3. ASSUME NEW c \in {RouteCall(q), ResolverCall(q)},
             Acquire(c) \/ CheckToken(c) \/ Delete(c) \/ Abandon({c}) \/ Abandon(Within(q))
                \/ UNCHANGED lockVars
      PROVE  /\ stage'[ResolverCall(r)] = stage[ResolverCall(r)]
             /\ stage'[RouteCall(r)] = stage[RouteCall(r)]
  BY <1>1, <1>2, <1>3 DEF Acquire, CheckToken, Delete, Abandon, Leave, Within, lockVars
<1>4. job'[r] = job[r] /\ pc'[r] = pc[r] /\ client'[r] = client[r] /\ mode' = mode
  <2>1. CASE Submission(q)
    BY <1>2, <2>1 DEF Submission, EnterRoute, ReserveRead, ReserveWrite, ReserveConfirm, Refuse,
       ReleaseRefused, CreatePending, HandOver, LeaveRoute, GoTo, Reject, submissionRest,
       pipelineVars
  <2>2. CASE Resolution(q)
    BY <1>2, <2>2 DEF Resolution, TakeJob, ReadPending, TakeLock, MarkProcessing, CommitDelta,
       MarkCompleted, ReleaseDone, CatchMarkFailed, CatchRelease, LeaveLock, Publish, FanOut, EndRun,
       RecoverStalled, Move, resolverRest
  <2>3. CASE Failure(q)
    BY <1>2, <2>3 DEF Failure, SubmitFails, AwaitFails, Crash, Move, GoTo, Reject,
       submissionRest, resolverRest
  <2> QED
    BY <2>1, <2>2, <2>3
<1>5. \E c \in {RouteCall(q), ResolverCall(q)} :
         Acquire(c) \/ CheckToken(c) \/ Delete(c) \/ Abandon({c}) \/ Abandon(Within(q))
            \/ UNCHANGED lockVars
  <2>1. CASE Submission(q)
    BY <2>1 DEF Submission, EnterRoute, ReserveRead, ReserveWrite, ReserveConfirm, Refuse,
       ReleaseRefused, CreatePending, HandOver, LeaveRoute, Busy
  <2>2. CASE Resolution(q)
    BY <2>2 DEF Resolution, TakeJob, ReadPending, TakeLock, MarkProcessing, CommitDelta,
       MarkCompleted, ReleaseDone, CatchMarkFailed, CatchRelease, LeaveLock, Publish, FanOut, EndRun,
       RecoverStalled, Busy
  <2>3. CASE Failure(q)
    BY <2>3 DEF Failure, SubmitFails, AwaitFails, Crash
  <2> QED
    BY <2>1, <2>2, <2>3
<1> QED
  BY <1>3, <1>4, <1>5 DEF Untroubled

(* SubmissionStrandsNothing, ResolutionStrandsNothing, FailureStrandsNothing:   *)
(* the request's own steps.                                                     *)
LEMMA SubmissionStrandsNothing ==
    ASSUME IInv, NEW r \in Requests, NotStranded(r), Submission(r)
    PROVE  NotStranded(r)'
<1> USE PipelineAssumption, CallsOfRequest, CallsDiffer
<1> USE DEF IInv, TypeOK, LockTypeOK, RequestOK, Untouched, RunsAreJobs, NotStranded, InFlight,
            Over, Redis, Guarded
<1>1. CASE EnterRoute(r)
  BY <1>1 DEF EnterRoute, Rest, Acquire, Busy, lockVars, submissionRest, GoTo, Reject
<1>2. CASE ReserveRead(r) \/ ReserveWrite(r) \/ ReserveConfirm(r) \/ Refuse(r)
  BY <1>2 DEF ReserveRead, ReserveWrite, ReserveConfirm, Refuse, Rest, lockVars, submissionRest,
     GoTo, Reject
<1>3. CASE ReleaseRefused(r)
  BY <1>3 DEF ReleaseRefused, lockVars, submissionRest, GoTo, Reject
<1>4. CASE CreatePending(r)
  BY <1>4 DEF CreatePending, lockVars, GoTo
<1>5. CASE HandOver(r)
  <2>1. /\ client[r] = "accepted" /\ job[r] = "none" /\ pc[r] = "idle"
        /\ mode' = mode /\ stage' = stage
    BY <1>5 DEF HandOver, lockVars
  <2>2. /\ client'[r] = "submitted"
        /\ \/ job'[r] = "waiting" /\ pc'[r] = "idle"
           \/ job'[r] = "active" /\ pc'[r] = "entered"
    BY <1>5 DEF HandOver, GoTo
  <2> QED
    BY <2>1, <2>2
<1>6. CASE LeaveRoute(r)
  BY <1>6 DEF LeaveRoute, CheckToken, Delete, Abandon, Leave, pipelineVars
<1> QED
  BY <1>1, <1>2, <1>3, <1>4, <1>5, <1>6 DEF Submission

LEMMA ResolutionStrandsNothing ==
    ASSUME IInv, NEW r \in Requests, NotStranded(r), Resolution(r)
    PROVE  NotStranded(r)'
<1> USE PipelineAssumption, CallsOfRequest, CallsDiffer
<1> USE DEF IInv, TypeOK, LockTypeOK, ResolverPcs, RequestOK, Untouched, RunsAreJobs, NotStranded,
            InFlight, Over, Redis, Guarded
<1>1. CASE TakeJob(r) \/ ReadPending(r)
  BY <1>1 DEF TakeJob, ReadPending, Move, resolverRest, lockVars
<1>2. CASE TakeLock(r)
  BY <1>2 DEF TakeLock, Acquire, Busy, Move, resolverRest, lockVars
<1>3. CASE MarkProcessing(r) \/ CommitDelta(r) \/ MarkCompleted(r) \/ CatchMarkFailed(r)
  BY <1>3 DEF MarkProcessing, CommitDelta, MarkCompleted, CatchMarkFailed, Move, resolverRest,
     lockVars
<1>4. CASE ReleaseDone(r) \/ CatchRelease(r)
  BY <1>4 DEF ReleaseDone, CatchRelease, Move, resolverRest, lockVars
<1>5. CASE LeaveLock(r)
  BY <1>5 DEF LeaveLock, AfterLock, CheckToken, Delete, Leave, Move, resolverRest, lockVars
<1>6. CASE Publish(r) \/ FanOut(r)
  BY <1>6 DEF Publish, FanOut, Rest, Move, resolverRest, lockVars
<1>7. CASE EndRun(r)
  BY <1>7 DEF EndRun, Move, lockVars
<1>8. CASE RecoverStalled(r)
  BY <1>8 DEF RecoverStalled, lockVars
<1> QED
  BY <1>1, <1>2, <1>3, <1>4, <1>5, <1>6, <1>7, <1>8 DEF Resolution

LEMMA FailureStrandsNothing ==
    ASSUME IInv, NEW r \in Requests, NotStranded(r), Failure(r)
    PROVE  NotStranded(r)'
<1> USE PipelineAssumption, CallsOfRequest, CallsDiffer
<1> USE DEF IInv, TypeOK, LockTypeOK, RequestOK, Untouched, RunsAreJobs, NotStranded, InFlight,
            Over, Redis, Guarded
<1>1. CASE SubmitFails(r)
  BY <1>1 DEF SubmitFails, GoTo, Reject, submissionRest, lockVars
<1>2. CASE AwaitFails(r)
  <2>1. CASE pc[r] \in {"leaving", "unlocking"}
    <3>1. pc'[r] = "ended" /\ job' = job /\ client' = client /\ mode' = mode
      BY <1>2, <2>1, HandlerOf DEF AwaitFails, Move, resolverRest, ResolverPcs
    <3>2. /\ stage'[ResolverCall(r)] = "outside"
          /\ stage'[RouteCall(r)] = stage[RouteCall(r)]
      BY <1>2, <2>1 DEF AwaitFails, Abandon, Leave
    <3> QED
      BY <2>1, <3>1, <3>2
  <2>2. CASE pc[r] \notin {"leaving", "unlocking"}
    <3>1. job' = job /\ client' = client /\ mode' = mode /\ stage' = stage /\ pc[r] # "idle"
      BY <1>2, <2>2 DEF AwaitFails, resolverRest, lockVars
    <3>2. pc'[r] = Handler[pc[r]] /\ pc[r] \in ResolverPcs
      BY <1>2 DEF AwaitFails, Move
    <3>3. /\ pc'[r] \in {"catching", "leaving", "ended"}
          /\ pc'[r] = "ended" <=> pc[r] \notin Guarded
      BY <2>2, <3>2, HandlerOf DEF ResolverPcs
    <3> QED
      BY <2>2, <3>1, <3>3
  <2> QED
    BY <2>1, <2>2
<1>3. CASE Crash(r)
  <2>1. stage'[ResolverCall(r)] = "outside" /\ stage'[RouteCall(r)] = "outside"
    BY <1>3 DEF Crash, Abandon, Leave, Within, lockVars
  <2>2. client' = client /\ mode' = mode /\ pc'[r] = "idle"
    BY <1>3 DEF Crash, Move, resolverRest
  <2>3. job'[r] = IF mode = "worker" THEN "stalled" ELSE "failed"
    BY <1>3 DEF Crash
  <2> QED
    BY <2>1, <2>2, <2>3
<1> QED
  BY <1>1, <1>2, <1>3 DEF Failure

(* TimeStrandsNothing: the expiry of a key is noticed by nobody.                *)
LEMMA TimeStrandsNothing ==
    ASSUME NEW r \in Requests, NotStranded(r), Time \/ AllDone \/ UNCHANGED vars
    PROVE  NotStranded(r)'
<1> Untroubled(r)
  BY DEF Time, LockExpires, Expire, ReservationExpires, AllDone, vars, pipelineVars, lockVars,
         submissionRest, Untroubled
<1> QED
  BY UntroubledIsNotStranded

(* EveryoneGoesOn: for any number of requests, in every deployment and whatever *)
(* fails, no job is left without a run or a place in the queue, and no run is   *)
(* at a point of the lock's finally block that its lock does not allow.         *)
THEOREM EveryoneGoesOn == Spec => []NothingIsStranded
<1> DEFINE Inv == \A r \in Requests : NotStranded(r)
<1>1. Init => Inv
  BY CallsOfRequest, PipelineAssumption DEF Init, LockInit, NotStranded, InFlight, Guarded
<1>2. IInv /\ Inv /\ [Next]_vars => Inv'
  <2> SUFFICES ASSUME IInv, Inv, [Next]_vars, NEW r \in Requests PROVE NotStranded(r)'
    OBVIOUS
  <2>1. ASSUME NEW q \in Requests, Submission(q) \/ Resolution(q) \/ Failure(q)
        PROVE  NotStranded(r)'
    <3>1. CASE q = r
      BY <2>1, <3>1, SubmissionStrandsNothing, ResolutionStrandsNothing, FailureStrandsNothing
    <3>2. CASE q # r
      BY <2>1, <3>2, OthersUntroubled, UntroubledIsNotStranded
    <3> QED
      BY <3>1, <3>2
  <2>2. CASE Time \/ AllDone \/ UNCHANGED vars
    BY <2>2, TimeStrandsNothing
  <2> QED
    BY <2>1, <2>2 DEF Next
<1>3. Inv => NothingIsStranded
  BY DEF NotStranded, NothingIsStranded
<1> QED
  BY <1>1, <1>2, <1>3, Invariance, PTL DEF Spec
================================================================================
