--------------------------- MODULE CampaignLockProofs ---------------------------
(* What withCampaignLock guarantees, for any number of calls, whether or not    *)
(* they outlive the key's TTL.                                                  *)
EXTENDS CampaignLock, TLAPS

\* The key holds the token of a call exactly if the call is not over and has not
\* lost it.
KeptIsHeld ==
    \A c \in Calls : holder = c <=> stage[c] # "outside" /\ fate[c] = "kept"

\* A token that has not been set cannot have been lost.
FreshOutside == \A c \in Calls : stage[c] = "outside" => fate[c] = "kept"

LockIInv == LockTypeOK /\ KeptIsHeld /\ FreshOutside

(* LockInductive: every step of the lock preserves it.                         *)
LEMMA LockInductive ==
    ASSUME LockIInv, [LockNext]_lockVars
    PROVE  LockIInv'
<1> USE LockAssumption DEF LockIInv, LockTypeOK, KeptIsHeld, FreshOutside
<1>1. ASSUME NEW c \in Calls, Acquire(c) PROVE LockIInv'
  BY <1>1 DEF Acquire
<1>2. ASSUME NEW c \in Calls, CheckToken(c) PROVE LockIInv'
  BY <1>2 DEF CheckToken, Leave
<1>3. ASSUME NEW c \in Calls, Delete(c) PROVE LockIInv'
  <2>1. ASSUME NEW d \in Calls
        PROVE  /\ stage'[d] = IF d = c THEN "outside" ELSE stage[d]
               /\ fate'[d] = IF d = c THEN "kept" ELSE IF d = holder THEN "robbed" ELSE fate[d]
    BY <1>3 DEF Delete
  <2>2. LockTypeOK'
    BY <1>3, <2>1 DEF Delete
  <2> QED
    BY <1>3, <2>1, <2>2 DEF Delete
<1>4. ASSUME NEW S \in SUBSET Calls, Abandon(S) PROVE LockIInv'
  BY <1>4 DEF Abandon, Leave
<1>5. CASE Expire
  BY <1>5 DEF Expire
<1>6. CASE UNCHANGED lockVars
  BY <1>6 DEF lockVars
<1> QED
  BY <1>1, <1>2, <1>3, <1>4, <1>5, <1>6 DEF LockNext

(* LockInvariance: it holds in every reachable state.                          *)
LEMMA LockInvariance == LockSpec => []LockIInv
<1>1. LockInit => LockIInv
  BY LockAssumption DEF LockInit, LockIInv, LockTypeOK, KeptIsHeld, FreshOutside
<1>2. LockIInv /\ [LockNext]_lockVars => LockIInv'
  BY LockInductive
<1> QED
  BY <1>1, <1>2, PTL DEF LockSpec

(* LockExcludes: whatever expires and whoever dies, of two calls that run their *)
(* functions at the same time one has lost its key.                             *)
THEOREM LockExcludes == LockSpec => []OverlapNeedsLostKey
<1>1. LockIInv => OverlapNeedsLostKey
  BY DEF LockIInv, KeptIsHeld, OverlapNeedsLostKey
<1> QED
  BY <1>1, LockInvariance, PTL

(* LockRobsLate: a call deletes another's key only if its own was lost between  *)
(* the GET and the DEL of its finally block.                                    *)
THEOREM LockRobsLate == LockSpec => OnlyLateDeletesRob
<1>1. LockIInv /\ [LockNext]_lockVars =>
        [\A c, d \in Calls :
           holder = d /\ holder' # d /\ stage'[d] = stage[d] /\ stage'[c] # stage[c]
              => stage[c] = "deleting" /\ fate[c] # "kept"]_lockVars
  <2> SUFFICES ASSUME LockIInv, LockNext, NEW c \in Calls, NEW d \in Calls,
                      holder = d, holder' # d, stage'[d] = stage[d], stage'[c] # stage[c]
               PROVE  stage[c] = "deleting" /\ fate[c] # "kept"
    OBVIOUS
  <2> USE DEF LockIInv, LockTypeOK, KeptIsHeld
  <2>1. ASSUME NEW e \in Calls, Acquire(e) PROVE FALSE
    BY <2>1, LockAssumption DEF Acquire
  <2>2. ASSUME NEW e \in Calls, CheckToken(e) PROVE FALSE
    BY <2>2 DEF CheckToken
  <2>3. ASSUME NEW e \in Calls, Delete(e) PROVE stage[c] = "deleting" /\ fate[c] # "kept"
    BY <2>3 DEF Delete
  <2>4. ASSUME NEW S \in SUBSET Calls, Abandon(S) PROVE FALSE
    <3>1. d \in S
      BY <2>4 DEF Abandon
    <3> QED
      BY <2>4, <3>1 DEF Abandon, Leave
  <2>5. CASE Expire
    BY <2>5 DEF Expire
  <2> QED
    BY <2>1, <2>2, <2>3, <2>4, <2>5 DEF LockNext
<1> QED
  BY <1>1, LockInvariance, PTL DEF LockSpec, OnlyLateDeletesRob
================================================================================
