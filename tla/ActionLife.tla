------------------------------- MODULE ActionLife -------------------------------
(* What becomes of the players' actions, with nothing said of deployments,      *)
(* locks, queues or processes: each is recorded, worked on, applied, completed  *)
(* and confirmed, or fails and may be tried again.  It is applied once for every*)
(* time that its working was interrupted after the game had changed, and once   *)
(* more; what has been confirmed stays as it is, and only somebody who is told  *)
(* directly may be told of an error after that.                                 *)
EXTENDS Integers

CONSTANT
    Requests    \* the submitted actions

VARIABLES
    direct,     \* whether the players are told by whoever works on their actions
    status,     \* status[r]: what is recorded of r
    applied,    \* applied[r]: how often r has changed the game
    late,       \* late[r]: how often it was interrupted when it just had
    answer      \* answer[r]: what its player has been told

vars == <<direct, status, applied, late, answer>>

Init ==
    /\ direct \in BOOLEAN
    /\ status = [r \in Requests |-> "none"]
    /\ applied = [r \in Requests |-> 0]
    /\ late = [r \in Requests |-> 0]
    /\ answer = [r \in Requests |-> "none"]

Becomes(r, s) ==
    /\ status' = [status EXCEPT ![r] = s]
    /\ UNCHANGED <<applied, late, answer>>

\* The game shows r once more than it would without the interruptions.
Due(r) == applied[r] = late[r] + 1

Record(r) ==
    /\ status[r] = "none"
    /\ Becomes(r, "PENDING")

Work(r) ==
    /\ status[r] \in {"PENDING", "PROCESSING", "FAILED"}
    /\ applied[r] = late[r]
    /\ Becomes(r, "PROCESSING")

Apply(r) ==
    /\ status[r] = "PROCESSING"
    /\ applied[r] = late[r]
    /\ applied' = [applied EXCEPT ![r] = @ + 1]
    /\ UNCHANGED <<status, late, answer>>

Complete(r) ==
    /\ status[r] = "PROCESSING"
    /\ Due(r)
    /\ Becomes(r, "COMPLETED")

\* Whoever works on r is interrupted after it has changed the game.
Interrupt(r) ==
    /\ status[r] \in {"PROCESSING", "COMPLETED"}
    /\ Due(r)
    /\ answer[r] \notin {"resolved", "denied"}
    /\ late' = [late EXCEPT ![r] = @ + 1]
    /\ UNCHANGED <<status, applied, answer>>

\* The interruption, or a failure before r has changed the game, is recorded.
Fail(r) ==
    /\ status[r] \in {"PROCESSING", "COMPLETED"}
    /\ applied[r] = late[r]
    /\ Becomes(r, "FAILED")

\* The result is told once.
Confirm(r) ==
    /\ status[r] = "COMPLETED"
    /\ Due(r)
    /\ answer[r] = "none"
    /\ answer' = [answer EXCEPT ![r] = "resolved"]
    /\ UNCHANGED <<status, applied, late>>

Report(r) ==
    /\ answer[r] = "none"
    /\ answer' = [answer EXCEPT ![r] = "error"]
    /\ UNCHANGED <<status, applied, late>>

\* An error is told of an action after its result: the telling itself has failed.
Deny(r) ==
    /\ direct
    /\ answer[r] = "resolved"
    /\ answer' = [answer EXCEPT ![r] = "denied"]
    /\ UNCHANGED <<status, applied, late>>

Next ==
    /\ \E r \in Requests :
          \/ Record(r) \/ Work(r) \/ Apply(r) \/ Complete(r)
          \/ Interrupt(r) \/ Fail(r) \/ Confirm(r) \/ Report(r) \/ Deny(r)
    /\ UNCHANGED direct

Spec == Init /\ [][Next]_vars
================================================================================
