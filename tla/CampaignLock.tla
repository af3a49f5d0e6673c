------------------------------ MODULE CampaignLock ------------------------------
(* withCampaignLock, packages/domain/src/redis.ts: one Redis key per campaign,  *)
(* taken with SET key token PX ttl NX, and given back in a finally block that   *)
(* reads the key and, if it still holds the caller's token, deletes it.  The    *)
(* two commands are separate, the lock is not reentrant and nobody waits for    *)
(* it: a caller that finds it taken throws.                                     *)
CONSTANTS
    Calls,         \* calls of withCampaignLock for this campaign, one token each
    Free,          \* the key is absent
    Orphan         \* the key holds a token whose caller will never delete it

ASSUME LockAssumption ==
    /\ Free \notin Calls
    /\ Orphan \notin Calls
    /\ Free # Orphan

VARIABLES
    holder,    \* the value of the key
    stage,     \* stage[c]: where call c is with respect to the lock
    fate       \* fate[c]: what has become of the token that c, not outside, has set

lockVars == <<holder, stage, fate>>

LockTypeOK ==
    /\ holder \in Calls \cup {Free, Orphan}
    /\ stage \in [Calls -> {"outside", "inside", "deleting"}]
    /\ fate \in [Calls -> {"kept", "expired", "robbed"}]

LockInit ==
    /\ holder = Free
    /\ stage = [c \in Calls |-> "outside"]
    /\ fate = [c \in Calls |-> "kept"]

\* Mutant: SET without NX.
AcquireAnyway(c) ==
    /\ stage[c] = "outside"
    /\ holder' = c
    /\ stage' = [stage EXCEPT ![c] = "inside"]
    /\ UNCHANGED fate

\* SET ... NX answers OK.
Acquire(c) ==
    /\ stage[c] = "outside"
    /\ holder = Free
    /\ holder' = c
    /\ stage' = [stage EXCEPT ![c] = "inside"]
    /\ UNCHANGED fate

\* SET ... NX does not: "Campaign is busy processing another action".
Busy(c) ==
    /\ stage[c] = "outside"
    /\ holder # Free
    /\ UNCHANGED lockVars

\* The calls S are over; a later call starts with a token of its own.
Leave(S) ==
    /\ stage' = [c \in Calls |-> IF c \in S THEN "outside" ELSE stage[c]]
    /\ fate' = [c \in Calls |-> IF c \in S THEN "kept" ELSE fate[c]]

\* finally: GET the key; the caller goes on to delete it only if it is its own.
CheckToken(c) ==
    /\ stage[c] = "inside"
    /\ \/ /\ holder = c
          /\ stage' = [stage EXCEPT ![c] = "deleting"]
          /\ UNCHANGED fate
       \/ /\ holder # c
          /\ Leave({c})
    /\ UNCHANGED holder

\* DEL, whatever the key holds by now.
Delete(c) ==
    /\ stage[c] = "deleting"
    /\ holder' = Free
    /\ stage' = [stage EXCEPT ![c] = "outside"]
    /\ fate' = [d \in Calls |-> CASE d = c -> "kept"
                                  [] d # c /\ d = holder -> "robbed"
                                  [] OTHER -> fate[d]]

\* A process dies in the calls S, or a GET or DEL fails: the token stays behind.
Abandon(S) ==
    /\ S # {}
    /\ \A c \in S : stage[c] # "outside"
    /\ holder' = IF holder \in S THEN Orphan ELSE holder
    /\ Leave(S)

\* Mutant: the key is set without a TTL.
ExpireNever ==
    /\ FALSE
    /\ UNCHANGED lockVars

\* PX: Redis drops the key after 15 s, whether its call is over or not.
Expire ==
    /\ holder # Free
    /\ holder' = Free
    /\ fate' = [c \in Calls |-> IF c = holder THEN "expired" ELSE fate[c]]
    /\ UNCHANGED stage

LockNext ==
    \/ \E c \in Calls : Acquire(c) \/ CheckToken(c) \/ Delete(c)
    \/ \E S \in SUBSET Calls : Abandon(S)
    \/ Expire

LockSpec == LockInit /\ [][LockNext]_lockVars

(* OverlapNeedsLostKey: two calls run their functions at the same time only if  *)
(* the key of one of them has been lost: it has expired under it, which an AI   *)
(* call alone may take long enough for, or another call has deleted it.         *)
OverlapNeedsLostKey ==
    \A c, d \in Calls :
        c # d /\ stage[c] # "outside" /\ stage[d] # "outside"
            => fate[c] # "kept" \/ fate[d] # "kept"

(* OnlyLateDeletesRob: a call deletes the key of another only if it has lost its*)
(* own between the GET and the DEL of its finally block; a call whose key was   *)
(* taken over while it still ran leaves the new owner's alone.                  *)
OnlyLateDeletesRob ==
    [][\A c, d \in Calls :
          holder = d /\ holder' # d /\ stage'[d] = stage[d] /\ stage'[c] # stage[c]
              => stage[c] = "deleting" /\ fate[c] # "kept"]_lockVars
================================================================================
