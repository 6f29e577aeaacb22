-------------------------- MODULE InvocationsProofs --------------------------
(***************************************************************************)
(* Proofs about the store on its own, for any sessions and calls.          *)
(***************************************************************************)
EXTENDS Invocations, TLAPS

USE InvocationsAssumption

LEMMA UnusedType == Unused \in PendingInvocation
<1>1. (CHOOSE c \in Call : TRUE) \in Call
  OBVIOUS
<1> QED
  BY <1>1 DEF Unused, PendingInvocation

LEMMA StoreTypeInit == StoreInit => StoreTypeOK
BY UnusedType DEF StoreInit, StoreTypeOK, InvId

(* Records change only by updates of a field or at the fresh id. *)
LEMMA InvTypeStep ==
    ASSUME StoreTypeOK, [StoreNext]_storeVars
    PROVE  inv' \in [InvId -> PendingInvocation]
<1> USE DEF StoreTypeOK
<1>1. ASSUME NEW c \in Call, NEW callee \in Session, NEW p \in BOOLEAN,
             NEW t \in BOOLEAN, NEW m \in BOOLEAN, DispatchNew(c, callee, p, t, m)
      PROVE  inv' \in [InvId -> PendingInvocation]
  BY <1>1 DEF DispatchNew, PendingInvocation
<1>2. ASSUME NEW c \in Call, NEW i \in InvId, NEW m \in BOOLEAN,
             DispatchChunk(c, i, m)
      PROVE  inv' \in [InvId -> PendingInvocation]
  BY <1>2 DEF DispatchChunk, PendingInvocation
<1>3. ASSUME NEW i \in InvId, NEW w \in BOOLEAN, CancelInvocation(i, w)
      PROVE  inv' \in [InvId -> PendingInvocation]
  <2>1. [inv[i] EXCEPT !.cancelRequested = TRUE] \in PendingInvocation
    BY DEF PendingInvocation
  <2> QED
    BY <1>3, <2>1 DEF CancelInvocation
<1> QED
  BY <1>1, <1>2, <1>3 DEF StoreNext, storeVars, CompleteInvocation,
     TouchInvocation, ExpireInvocation, CloseStoreSession, RegisterProcedure,
     UnregisterProcedure

LEMMA StoreTypeStep == StoreTypeOK /\ [StoreNext]_storeVars => StoreTypeOK'
<1> SUFFICES ASSUME StoreTypeOK, [StoreNext]_storeVars PROVE StoreTypeOK'
  OBVIOUS
<1> USE InvTypeStep DEF StoreTypeOK, InvId
<1>1. ASSUME NEW c \in Call, NEW callee \in Session, NEW p \in BOOLEAN,
             NEW t \in BOOLEAN, NEW m \in BOOLEAN, DispatchNew(c, callee, p, t, m)
      PROVE  StoreTypeOK'
  BY <1>1 DEF DispatchNew
<1>2. ASSUME NEW i \in InvId,
             \/ CompleteInvocation(i) \/ TouchInvocation(i)
             \/ CancelInvocation(i, TRUE) \/ CancelInvocation(i, FALSE)
             \/ ExpireInvocation(i)
      PROVE  StoreTypeOK'
  BY <1>2 DEF CompleteInvocation, TouchInvocation, CancelInvocation,
     ExpireInvocation
<1>3. ASSUME NEW s \in Session,
             \/ CloseStoreSession(s) \/ RegisterProcedure(s)
             \/ UnregisterProcedure(s)
      PROVE  StoreTypeOK'
  BY <1>3 DEF CloseStoreSession, RegisterProcedure, UnregisterProcedure
<1>4. ASSUME NEW c \in Call, NEW i \in InvId, NEW m \in BOOLEAN,
             DispatchChunk(c, i, m)
      PROVE  StoreTypeOK'
  BY <1>4 DEF DispatchChunk
<1>5. CASE UNCHANGED storeVars
  BY <1>5 DEF storeVars
<1> QED
  BY <1>1, <1>2, <1>3, <1>4, <1>5 DEF StoreNext

(* What holds of every id handed out, and of none that was not. *)
Issued == live \subseteq 1..(nextInv - 1) /\ callees \subseteq open

StoreInv == StoreTypeOK /\ Issued /\ NoOrphans /\ OnePending

(* A record keeps its call, its ends and its timeout once its id is handed *)
(* out, and a cancel request is never taken back.                          *)
LEMMA RecordsKept ==
    ASSUME StoreTypeOK, Issued, [StoreNext]_storeVars, NEW k \in 1..(nextInv - 1)
    PROVE  /\ k \in InvId /\ k \in 1..(nextInv' - 1)
           /\ inv'[k].call = inv[k].call /\ inv'[k].callee = inv[k].callee
           /\ inv'[k].timed = inv[k].timed
           /\ inv'[k].allowProgress = inv[k].allowProgress
           /\ inv[k].cancelRequested => inv'[k].cancelRequested
           /\ k \in live' => k \in live
<1> USE DEF StoreTypeOK, InvId, PendingInvocation
<1>1. ASSUME NEW c \in Call, NEW callee \in Session, NEW p \in BOOLEAN,
             NEW t \in BOOLEAN, NEW m \in BOOLEAN, DispatchNew(c, callee, p, t, m)
      PROVE  inv'[k] = inv[k] /\ nextInv' = nextInv + 1 /\ (k \in live' => k \in live)
  BY <1>1 DEF DispatchNew
<1>2. ASSUME NEW c \in Call, NEW j \in InvId, NEW m \in BOOLEAN,
             DispatchChunk(c, j, m)
      PROVE  /\ inv'[k] = IF k = j THEN [inv[k] EXCEPT !.chunks = m] ELSE inv[k]
             /\ nextInv' = nextInv /\ live' = live
  BY <1>2 DEF DispatchChunk
<1>3. ASSUME NEW j \in InvId, NEW w \in BOOLEAN, CancelInvocation(j, w)
      PROVE  /\ inv'[k].call = inv[k].call /\ inv'[k].callee = inv[k].callee
             /\ inv'[k].timed = inv[k].timed
             /\ inv'[k].allowProgress = inv[k].allowProgress
             /\ inv[k].cancelRequested => inv'[k].cancelRequested
             /\ nextInv' = nextInv /\ live' \subseteq live
  <2>1. live' \subseteq live /\ nextInv' = nextInv
    BY <1>3 DEF CancelInvocation
  <2>2. CASE k = j
    BY <1>3, <2>1, <2>2 DEF CancelInvocation
  <2>3. CASE k # j
    <3>1. inv'[k] = inv[k]
      BY <1>3, <2>3 DEF CancelInvocation
    <3> QED
      BY <2>1, <3>1
  <2> QED
    BY <2>2, <2>3
<1>4. ASSUME NEW j \in InvId,
             CompleteInvocation(j) \/ TouchInvocation(j) \/ ExpireInvocation(j)
      PROVE  inv' = inv /\ nextInv' = nextInv /\ live' \subseteq live
  BY <1>4 DEF CompleteInvocation, TouchInvocation, ExpireInvocation
<1>5. ASSUME NEW s \in Session,
             \/ CloseStoreSession(s) \/ RegisterProcedure(s)
             \/ UnregisterProcedure(s)
      PROVE  inv' = inv /\ nextInv' = nextInv /\ live' \subseteq live
  BY <1>5 DEF CloseStoreSession, RegisterProcedure, UnregisterProcedure
<1>6. k \in InvId
  OBVIOUS
<1>7. inv[k] \in PendingInvocation
  BY <1>6
<1> DEFINE Kept == /\ k \in 1..(nextInv' - 1)
                   /\ inv'[k].call = inv[k].call /\ inv'[k].callee = inv[k].callee
                   /\ inv'[k].timed = inv[k].timed
                   /\ inv'[k].allowProgress = inv[k].allowProgress
                   /\ inv[k].cancelRequested => inv'[k].cancelRequested
                   /\ k \in live' => k \in live
<1>8. ASSUME NEW j \in InvId, NEW w \in BOOLEAN, CancelInvocation(j, w)
      PROVE  Kept
  BY <1>7, <1>8, <1>3
<1>9. ASSUME NEW c \in Call, NEW j \in InvId, NEW m \in BOOLEAN,
             DispatchChunk(c, j, m)
      PROVE  Kept
  BY <1>7, <1>9, <1>2
<1>10. ASSUME NEW c \in Call, NEW callee \in Session, NEW p \in BOOLEAN,
              NEW t \in BOOLEAN, NEW m \in BOOLEAN, DispatchNew(c, callee, p, t, m)
       PROVE  Kept
  BY <1>1, <1>10
<1>11. ASSUME UNCHANGED storeVars PROVE Kept
  BY <1>11 DEF storeVars
<1>12. Kept
  <2>1. ASSUME NEW j \in InvId,
               \/ CompleteInvocation(j) \/ TouchInvocation(j)
               \/ CancelInvocation(j, TRUE) \/ CancelInvocation(j, FALSE)
               \/ ExpireInvocation(j)
        PROVE  Kept
    BY <2>1, <1>4, <1>8
  <2>2. ASSUME NEW s \in Session,
               \/ CloseStoreSession(s) \/ RegisterProcedure(s)
               \/ UnregisterProcedure(s)
        PROVE  Kept
    BY <2>2, <1>5
  <2> HIDE DEF Kept, StoreTypeOK, InvId, PendingInvocation
  <2> QED
    BY <2>1, <2>2, <1>9, <1>10, <1>11 DEF StoreNext
<1> QED
  BY <1>6, <1>12

LEMMA StoreInvStep == StoreInv /\ [StoreNext]_storeVars => StoreInv'
<1> SUFFICES ASSUME StoreTypeOK, Issued, NoOrphans, OnePending,
                    [StoreNext]_storeVars
             PROVE  Issued' /\ NoOrphans' /\ OnePending'
  BY StoreTypeStep DEF StoreInv
<1> USE DEF StoreTypeOK
<1>0. \A i \in live : /\ i \in 1..(nextInv - 1) /\ i \in InvId
                      /\ inv[i] \in PendingInvocation
  BY DEF Issued
<1>1. ASSUME NEW c \in Call, NEW callee \in Session, NEW p \in BOOLEAN,
             NEW t \in BOOLEAN, NEW m \in BOOLEAN, DispatchNew(c, callee, p, t, m)
      PROVE  Issued' /\ NoOrphans' /\ OnePending'
  <2> DEFINE r == [call |-> c, callee |-> callee, allowProgress |-> p,
                   timed |-> t, chunks |-> m, cancelRequested |-> FALSE]
  <2>1. /\ nextInv \in InvId /\ live' = live \cup {nextInv} /\ open' = open
        /\ callees' = callees /\ nextInv' = nextInv + 1
        /\ timers' = IF t THEN timers \cup {nextInv} ELSE timers
        /\ inv' = [inv EXCEPT ![nextInv] = r]
        /\ callee \in callees /\ CallerOf[c] \in open
        /\ \A i \in live : inv[i].call # c
    BY <1>1 DEF DispatchNew, FindInvocationByCaller
  <2>2. inv'[nextInv] = r /\ \A i \in live : i # nextInv /\ inv'[i] = inv[i]
    BY <1>0, <2>1 DEF InvId
  <2>3. Issued'
    BY <2>1 DEF Issued, InvId
  <2>4. NoOrphans'
    BY <2>1, <2>2 DEF NoOrphans, Issued
  <2>5. OnePending'
    BY <2>1, <2>2 DEF OnePending
  <2> QED
    BY <2>3, <2>4, <2>5
<1>2. ASSUME NEW c \in Call, NEW j \in InvId, NEW m \in BOOLEAN,
             DispatchChunk(c, j, m)
      PROVE  Issued' /\ NoOrphans' /\ OnePending'
  <2>1. \A i \in live : /\ inv'[i].call = inv[i].call
                        /\ inv'[i].callee = inv[i].callee
                        /\ inv'[i].timed = inv[i].timed
                        /\ inv'[i].cancelRequested = inv[i].cancelRequested
    BY <1>0, <1>2 DEF DispatchChunk, PendingInvocation
  <2> QED
    BY <1>2, <2>1 DEF DispatchChunk, Issued, NoOrphans, OnePending
<1>3. ASSUME NEW j \in InvId, NEW w \in BOOLEAN, CancelInvocation(j, w)
      PROVE  Issued' /\ NoOrphans' /\ OnePending'
  <2>1. \A i \in live : /\ inv'[i].call = inv[i].call
                        /\ inv'[i].callee = inv[i].callee
                        /\ inv'[i].timed = inv[i].timed
                        /\ i # j => inv'[i] = inv[i]
    BY <1>0, <1>3 DEF CancelInvocation, PendingInvocation
  <2>2. inv'[j].cancelRequested /\ j \in live
    BY <1>0, <1>3 DEF CancelInvocation, PendingInvocation
  <2>3. /\ open' = open /\ callees' = callees /\ nextInv' = nextInv
        /\ timers' = timers \ {j}
        /\ live' = live \/ live' = live \ {j}
    BY <1>3 DEF CancelInvocation
  <2>4. NoOrphans'
    <3>1. timers' \subseteq live'
      BY <2>3 DEF NoOrphans
    <3>2. ASSUME NEW i \in live'
          PROVE  /\ inv'[i].callee \in open' /\ CallerOf[inv'[i].call] \in open'
                 /\ inv'[i].timed /\ ~inv'[i].cancelRequested => i \in timers'
      <4>1. i \in live
        BY <2>3
      <4>2. CASE i = j
        <5>1. inv'[i].callee \in open' /\ CallerOf[inv'[i].call] \in open'
          BY <4>1, <2>1, <2>3 DEF NoOrphans
        <5>2. inv'[i].cancelRequested
          BY <4>2, <2>2
        <5> QED
          BY <5>1, <5>2
      <4>3. CASE i # j
        <5>1. inv'[i] = inv[i]
          BY <4>1, <4>3, <2>1
        <5>2. (i \in timers' <=> i \in timers) /\ open' = open
          BY <4>3, <2>3
        <5> QED
          BY <4>1, <5>1, <5>2 DEF NoOrphans
      <4> QED
        BY <4>2, <4>3
    <3> QED
      BY <3>1, <3>2 DEF NoOrphans
  <2>5. live' \subseteq live
    BY <2>3
  <2>6. Issued'
    BY <2>3, <2>5 DEF Issued
  <2>7. OnePending'
    BY <2>1, <2>5 DEF OnePending
  <2> QED
    BY <2>4, <2>6, <2>7
<1>4. ASSUME NEW j \in InvId, CompleteInvocation(j) \/ ExpireInvocation(j)
      PROVE  Issued' /\ NoOrphans' /\ OnePending'
  BY <1>4 DEF CompleteInvocation, ExpireInvocation, Issued, NoOrphans, OnePending
<1>5. ASSUME NEW j \in InvId, TouchInvocation(j)
      PROVE  Issued' /\ NoOrphans' /\ OnePending'
  BY <1>5 DEF TouchInvocation, Issued, NoOrphans, OnePending
<1>6. ASSUME NEW s \in Session, CloseStoreSession(s)
      PROVE  Issued' /\ NoOrphans' /\ OnePending'
  BY <1>6 DEF CloseStoreSession, InvocationsOf, Issued, NoOrphans, OnePending
<1>7. ASSUME NEW s \in Session, RegisterProcedure(s) \/ UnregisterProcedure(s)
      PROVE  Issued' /\ NoOrphans' /\ OnePending'
  BY <1>7 DEF RegisterProcedure, UnregisterProcedure, Issued, NoOrphans, OnePending
<1>8. CASE UNCHANGED storeVars
  BY <1>8 DEF storeVars, Issued, NoOrphans, OnePending
<1> QED
  BY <1>1, <1>2, <1>3, <1>4, <1>5, <1>6, <1>7, <1>8 DEF StoreNext

LEMMA StoreInvInit == StoreInit => StoreInv
BY StoreTypeInit DEF StoreInit, StoreInv, Issued, NoOrphans, OnePending

(* Whatever commands the store gets, in whatever order, it keeps no        *)
(* invocation of a closed session and none without a way to end, and never *)
(* two for one call.                                                       *)
THEOREM StoreKeepsInvocations == StoreSpec => [](NoOrphans /\ OnePending)
<1>1. StoreInv => NoOrphans /\ OnePending
  BY DEF StoreInv
<1> QED
  BY StoreInvInit, StoreInvStep, <1>1, PTL DEF StoreSpec
=============================================================================
