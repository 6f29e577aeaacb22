-------------------------- MODULE RetryDedupProofs --------------------------
(***************************************************************************)
(* Proofs about RetryDedup, for any sessions, calls, hashes and policies:  *)
(* the books of the store agree, the throttle holds, and a debounced call  *)
(* is dispatched by the deadline its first retry set.                      *)
(*                                                                         *)
(* The argument looks at the two sides of the store apart.  A step drops   *)
(* leases, with their reverse entries and for one of three reasons, or     *)
(* takes one for a fresh invocation; and it answers calls, lets one wait   *)
(* or takes some off the waiting ones.                                     *)
(***************************************************************************)
EXTENDS RetryDedup, InvocationsProofs, FiniteSetTheorems

(* An entry of the procedure has a registration id.                        *)
Registered == callees # {} => reg >= 1

(* The calls that wait.                                                    *)
Waits(c) == \E k \in DOMAIN pending : pending[k].call = c

(* A waiting call is one of the registration there is, by a caller that is *)
(* there; it waits under one hash, and is the only one its worker has not  *)
(* been told about.  Its timer is not set beyond its expiry.               *)
WaitingSound ==
    /\ \A k \in DOMAIN pending : /\ k[1] = reg /\ callees # {}
                                 /\ CallerOf[pending[k].call] \in open
                                 /\ pending[k].fireAt <= pending[k].expiresAt
    /\ \A k, l \in DOMAIN pending : pending[k].call = pending[l].call => k = l
    /\ \A c \in Call : asked[c] = told[c] + (IF Waits(c) THEN 1 ELSE 0)

(* The maps are finite, so that their entries can be counted.              *)
Countable == IsFiniteSet(DOMAIN leases) /\ IsFiniteSet(DOMAIN pending)

(* A throttled invocation was made under a registration there has been.    *)
BornEarlier ==
    \A i \in DOMAIN born : /\ i < nextInv /\ born[i].key \in Key /\ born[i].at \in Nat
                           /\ born[i].key[1] <= reg

(* Its lease is held, with the expiry it was given.                        *)
Holds(i) ==
    /\ i \in DOMAIN keyOf /\ keyOf[i] = born[i].key
    /\ leases[born[i].key].expiresAt = born[i].at + Expiry

(* No call can be throttled by its registration any more.                  *)
Cleared(i) == born[i].key[1] < reg \/ callees = {}

(* A pending throttled invocation has its lease, unless that has expired   *)
(* or its registration is gone.                                            *)
LeaseKept ==
    \A i \in live \cap DOMAIN born :
        Holds(i) \/ born[i].at + Expiry <= now \/ Cleared(i)

(* The inductive invariant.                                                *)
DedupInv ==
    /\ TypeOK /\ StoreInv /\ Registered /\ Countable
    /\ LeasesAgree /\ WithinCapacity /\ WaitingSound
    /\ BornEarlier /\ LeaseKept /\ ThrottleHolds

(* What Map.remove leaves of a map.                                        *)
LEMMA WithoutIs ==
  ASSUME NEW f, NEW S
  PROVE  /\ DOMAIN Without(f, S) = DOMAIN f \ S
         /\ \A y \in DOMAIN f \ S : Without(f, S)[y] = f[y]
  BY DEF Without, Restrict

(* The capacities, the times of a policy and the bounds are numbers.       *)
LEMMA Bounds ==
    /\ Capacity \in Nat /\ Global \in Nat /\ Expiry \in Nat /\ Debounce \in Nat
    /\ MaxReg \in Nat /\ MaxAsk \in Nat /\ LastAsk \in Nat
  BY DedupAssumption

(* The types of the maps, entry by entry.                                  *)
MapTypes ==
    /\ \A k \in DOMAIN leases : k \in Key /\ leases[k] \in Lease
    /\ \A i \in DOMAIN keyOf : i \in InvId /\ keyOf[i] \in Key
    /\ \A k \in DOMAIN pending : k \in Key /\ pending[k] \in PendingDebounce
    /\ DOMAIN born \subseteq InvId

(* The types of the rest.                                                  *)
PlainTypes ==
    /\ reg \in 0..MaxReg /\ policy \in Policies \cup {"none"} /\ now \in Time
    /\ asked \in [Call -> 0..MaxAsk] /\ told \in [Call -> 0..MaxAsk]

(* TypeOK, part by part.                                                   *)
LEMMA TypeParts == TypeOK <=> StoreTypeOK /\ MapTypes /\ PlainTypes
<1>1. DOMAIN leases \subseteq Key /\ Range(leases) \subseteq Lease
      <=> \A k \in DOMAIN leases : k \in Key /\ leases[k] \in Lease
  BY DEF Range
<1>2. DOMAIN keyOf \subseteq InvId /\ Range(keyOf) \subseteq Key
      <=> \A i \in DOMAIN keyOf : i \in InvId /\ keyOf[i] \in Key
  BY DEF Range
<1>3. DOMAIN pending \subseteq Key /\ Range(pending) \subseteq PendingDebounce
      <=> \A k \in DOMAIN pending : k \in Key /\ pending[k] \in PendingDebounce
  BY DEF Range
<1> HIDE InvocationsAssumption
<1> QED BY <1>1, <1>2, <1>3, Zenon DEF TypeOK, MapTypes, PlainTypes

(* The key of a deduplicated call is one of the registration there is.     *)
LEMMA KeyIs ==
  ASSUME PlainTypes, Registered, NEW c \in Call, Deduplicated(c)
  PROVE  KeyFor(c) \in Key /\ KeyFor(c)[1] = reg
  BY DedupAssumption DEF PlainTypes, Registered, Deduplicated, KeyFor, Key

(* What a step does to the two lease maps: some leases go, with their      *)
(* reverse entries, because their invocation ended, they expired, or the   *)
(* last callee went;                                                       *)
Drops(K, I) ==
    /\ DOMAIN leases' = DOMAIN leases \ K
    /\ \A k \in DOMAIN leases' : leases'[k] = leases[k] /\ leases[k].inv \in live'
    /\ DOMAIN keyOf' = DOMAIN keyOf \ I
    /\ \A i \in DOMAIN keyOf' : keyOf'[i] = keyOf[i]
    /\ \A k \in DOMAIN leases : k \in K <=> leases[k].inv \in I
    /\ \A k \in DOMAIN leases \cap K :
         leases[k].inv \notin live' \/ leases[k].expiresAt <= now \/ callees' = {}
    /\ born' = born

(* or expired leases go and the fresh invocation takes one.                *)
Takes(k) ==
    /\ k \in Key /\ k[1] = reg /\ k \notin DOMAIN ReapedLeases /\ ~Full(ReapedLeases)
    /\ leases' = With(ReapedLeases, k, [inv |-> nextInv, expiresAt |-> now + Expiry])
    /\ keyOf' = With(ReapedKeys, nextInv, k)
    /\ born' = With(born, nextInv, [key |-> k, at |-> now])
    /\ nextInv \in InvId /\ live' = live \cup {nextInv} /\ nextInv' = nextInv + 1
    /\ UNCHANGED <<pending, now, reg, callees>> /\ callees # {}

LeaseStep == (\E K, I : Drops(K, I)) \/ (\E k : Takes(k))

(* What it does to the waiting calls: nothing;                             *)
Stay ==
    \A k \in DOMAIN pending' :
        k \in DOMAIN pending => /\ CallerOf[pending[k].call] \in open'
                                /\ callees' # {} /\ reg' = reg
Quiet == UNCHANGED <<pending, asked, told>>

(* a call is answered at once; a call waits, in the place of another;      *)
Answered(c) ==
    /\ asked[c] < MaxAsk /\ told[c] = asked[c] /\ UNCHANGED pending
    /\ asked' = [asked EXCEPT ![c] = @ + 1] /\ Tell({c})
Enters(c, k, v) ==
    /\ asked[c] < MaxAsk /\ told[c] = asked[c] /\ CallerOf[c] \in open
    /\ asked' = [asked EXCEPT ![c] = @ + 1]
    /\ Tell(IF k \in DOMAIN pending THEN {pending[k].call} ELSE {})
    /\ pending' = With(pending, k, v)
    /\ k \in Key /\ k[1] = reg /\ v \in PendingDebounce /\ v.call = c
    /\ v.fireAt <= v.expiresAt
    /\ k \in DOMAIN pending \/ ~Full(leases')
    /\ k \in DOMAIN pending => v.expiresAt = pending[k].expiresAt
    /\ DOMAIN leases' \subseteq DOMAIN leases
    /\ UNCHANGED <<open, reg, callees>> /\ callees # {}

(* or waiting calls are answered.                                          *)
Leaves(S) ==
    /\ DOMAIN pending' = DOMAIN pending \ S
    /\ \A k \in DOMAIN pending' : pending'[k] = pending[k]
    /\ Tell({pending[k].call : k \in S \cap DOMAIN pending}) /\ UNCHANGED asked

WaitStep ==
    /\ Stay
    /\ \/ Quiet \/ (\E c \in Call : Answered(c)) \/ (\E S : Leaves(S))
       \/ \E c \in Call : \E k, v : Enters(c, k, v)

(* The registration and the clock.                                         *)
OtherStep ==
    /\ reg' \in 0..MaxReg /\ policy' \in Policies \cup {"none"}
    /\ now' \in Time /\ now <= now'
    /\ (reg' = reg /\ (callees = {} => callees' = {})) \/ (callees = {} /\ reg' = reg + 1)

(* The id was taken and the dispatch failed.                               *)
Bumped ==
    /\ nextInv \in InvId /\ nextInv' = nextInv + 1
    /\ UNCHANGED <<open, callees, live, inv, timers>>
StoreStep == [StoreNext]_storeVars \/ Bumped

(* _dispatchInvocation, when it answers a record and when it throws, is a  *)
(* step of the store.                                                      *)
LEMMA DispatchSteps ==
  ASSUME StoreTypeOK, NEW c \in Call, NEW more \in BOOLEAN
  PROVE  /\ Dispatched(c, more) =>
              /\ StoreStep /\ nextInv \in InvId /\ live' = live \cup {nextInv}
              /\ nextInv' = nextInv + 1 /\ UNCHANGED <<open, callees>>
         /\ DispatchFails(c) => StoreStep /\ UNCHANGED <<open, callees, live>>
<1>1. ASSUME Dispatched(c, more)
      PROVE  /\ StoreStep /\ nextInv \in InvId /\ live' = live \cup {nextInv}
             /\ nextInv' = nextInv + 1 /\ UNCHANGED <<open, callees>>
  <2>1. PICK callee \in callees : DispatchNew(c, callee, FALSE, TRUE, more)
    BY <1>1 DEF Dispatched
  <2>2. callee \in Session
    BY DEF StoreTypeOK
  <2>3. StoreNext
    BY <2>1, <2>2 DEF StoreNext
  <2> QED BY <2>1, <2>3 DEF StoreStep, DispatchNew
<1>2. ASSUME DispatchFails(c) PROVE StoreStep /\ UNCHANGED <<open, callees, live>>
  BY <1>2 DEF DispatchFails, StoreStep, Bumped, storeVars
<1> QED BY <1>1, <1>2

(* _reapExpiredRetryThrottleLeases drops expired leases only, each with    *)
(* its reverse entry.                                                      *)
LEMMA ReapDrops ==
  ASSUME MapTypes, LeasesAgree, leases' = ReapedLeases, keyOf' = ReapedKeys,
         live \subseteq live', born' = born
  PROVE  \E K, I : Drops(K, I)
<1> DEFINE K == Expired
           I == {leases[k].inv : k \in Expired}
<1>0. \A k \in Expired : k \in DOMAIN leases /\ leases[k].expiresAt <= now
  BY DEF Expired
<1>1. /\ DOMAIN leases' = DOMAIN leases \ K
      /\ \A k \in DOMAIN leases' : leases'[k] = leases[k]
      /\ DOMAIN keyOf' = DOMAIN keyOf \ I
      /\ \A i \in DOMAIN keyOf' : keyOf'[i] = keyOf[i]
  <2>1. leases' = Without(leases, K) /\ keyOf' = Without(keyOf, I)
    BY DEF ReapedLeases, ReapedKeys
  <2> HIDE DEF K, I
  <2>2. /\ DOMAIN Without(leases, K) = DOMAIN leases \ K
        /\ \A k \in DOMAIN leases \ K : Without(leases, K)[k] = leases[k]
    BY WithoutIs
  <2>3. /\ DOMAIN Without(keyOf, I) = DOMAIN keyOf \ I
        /\ \A i \in DOMAIN keyOf \ I : Without(keyOf, I)[i] = keyOf[i]
    BY WithoutIs
  <2> QED BY <2>1, <2>2, <2>3
<1>2. \A k \in DOMAIN leases : k \in K <=> leases[k].inv \in I
  <2>1. \A k, l \in DOMAIN leases : leases[k].inv = leases[l].inv => k = l
    BY DEF LeasesAgree
  <2> QED BY <1>0, <2>1
<1>3. \A k \in DOMAIN leases : leases[k].inv \in live'
  BY DEF LeasesAgree
<1> HIDE DEF K, I
<1>4. Drops(K, I)
  BY <1>0, <1>1, <1>2, <1>3 DEF Drops, K
<1> QED BY <1>4

(* A step that leaves the maps alone drops nothing.                        *)
LEMMA NoDrops ==
  ASSUME LeasesAgree, UNCHANGED <<leases, keyOf, born>>,
         \A i \in live : i \in DOMAIN keyOf => i \in live'
  PROVE  \E K, I : Drops(K, I)
<1>1. Drops({}, {})
  BY DEF Drops, LeasesAgree
<1> QED BY <1>1

(* _releaseRetryThrottleLease drops the leases of the invocations that     *)
(* end, and no other's.                                                    *)
LEMMA ReleaseDrops ==
  ASSUME LeasesAgree, NEW J,
         DOMAIN leases' = DOMAIN leases \ {keyOf[i] : i \in J \cap DOMAIN keyOf},
         \A k \in DOMAIN leases' : leases'[k] = leases[k],
         DOMAIN keyOf' = DOMAIN keyOf \ J,
         \A i \in DOMAIN keyOf' : keyOf'[i] = keyOf[i],
         live' = live \ J, born' = born
  PROVE  \E K, I : Drops(K, I)
<1> DEFINE K == {keyOf[i] : i \in J \cap DOMAIN keyOf}
<1>1. \A k \in DOMAIN leases : k \in K <=> leases[k].inv \in J
  <2> TAKE k \in DOMAIN leases
  <2>1. leases[k].inv \in DOMAIN keyOf /\ keyOf[leases[k].inv] = k
    BY DEF LeasesAgree
  <2>2. ASSUME k \in K PROVE leases[k].inv \in J
    <3>1. PICK i \in J \cap DOMAIN keyOf : keyOf[i] = k
      BY <2>2
    <3>2. leases[k].inv = i
      BY <3>1 DEF LeasesAgree
    <3> QED BY <3>1, <3>2
  <2> QED BY <2>1, <2>2
<1>2. \A k \in DOMAIN leases : leases[k].inv \in live
  BY DEF LeasesAgree
<1> HIDE DEF K
<1>3. Drops(K, J)
  BY <1>1, <1>2 DEF Drops, K
<1> QED BY <1>3

(* A step of the store, from the four sides.                               *)
Good == StoreStep /\ LeaseStep /\ WaitStep /\ OtherStep

(* What the classification of the steps rests on.                          *)
Sound == TypeOK /\ LeasesAgree /\ Registered /\ WaitingSound

(* The calls that wait stay valid while the sessions and the registration  *)
(* stay.                                                                   *)
LEMMA StayOpen ==
  ASSUME Sound, open' = open, callees # {} => callees' # {} /\ reg' = reg
  PROVE  Stay
  BY DEF Sound, WaitingSound, Stay

(* Most steps leave the registration and the clock alone.                  *)
LEMMA SameOther ==
  ASSUME Sound, UNCHANGED <<reg, policy, now>>, callees = {} => callees' = {}
  PROVE  OtherStep
<1>1. now \in Nat /\ reg \in 0..MaxReg /\ policy \in Policies \cup {"none"} /\ now \in Time
  BY TypeParts, Bounds DEF Sound, PlainTypes, Time
<1> QED BY <1>1 DEF OtherStep

(* A CALL dispatched at once is answered at once, and no lease goes.       *)
LEMMA AskDirectStep ==
  ASSUME Sound, NEW c \in Call, NEW more \in BOOLEAN, AskDirect(c, more)
  PROVE  Good
<1>1. /\ asked[c] < MaxAsk /\ told[c] = asked[c] /\ asked' = [asked EXCEPT ![c] = @ + 1]
      /\ Tell({c}) /\ UNCHANGED <<reg, policy, leases, keyOf, pending, now, born>>
  BY DEF AskDirect, Asks
<1>2. StoreStep /\ UNCHANGED <<open, callees>> /\ live \subseteq live'
  <2>0. StoreTypeOK
    BY TypeParts DEF Sound
  <2>1. CASE Dispatched(c, more) \/ DispatchFails(c)
    BY <2>0, <2>1, DispatchSteps
  <2>2. ASSUME NEW i \in FindInvocationByCaller(c), DispatchChunk(c, i, more)
        PROVE  StoreStep /\ UNCHANGED <<open, callees>> /\ live \subseteq live'
    <3>1. i \in InvId
      BY <2>0 DEF FindInvocationByCaller, StoreTypeOK
    <3>2. StoreNext
      BY <2>2, <3>1 DEF StoreNext
    <3> QED BY <2>2, <3>2 DEF StoreStep, DispatchChunk
  <2>3. CASE UNCHANGED storeVars
    BY <2>3 DEF StoreStep, storeVars
  <2> QED BY <2>1, <2>2, <2>3 DEF AskDirect
<1>3. LeaseStep
  BY <1>1, <1>2, NoDrops DEF LeaseStep, Sound
<1>4. WaitStep
  BY <1>1, <1>2, StayOpen DEF WaitStep, Answered
<1>5. OtherStep
  BY <1>1, <1>2, SameOther
<1> QED BY <1>2, <1>3, <1>4, <1>5 DEF Good

(* A CALL refused is answered at once; expired leases go.                  *)
LEMMA AskRefusedStep ==
  ASSUME Sound, NEW c \in Call, AskRefused(c)
  PROVE  Good
<1>1. /\ asked[c] < MaxAsk /\ told[c] = asked[c] /\ asked' = [asked EXCEPT ![c] = @ + 1]
      /\ Tell({c}) /\ leases' = ReapedLeases /\ keyOf' = ReapedKeys
      /\ UNCHANGED <<reg, policy, pending, now, born>>
      /\ UNCHANGED <<open, callees, live, inv, timers, nextInv>>
  BY DEF AskRefused, Asks, storeVars
<1>2. StoreStep
  BY <1>1 DEF StoreStep, storeVars
<1>3. LeaseStep
  BY <1>1, ReapDrops, TypeParts DEF LeaseStep, Sound
<1>4. WaitStep
  BY <1>1, StayOpen DEF WaitStep, Answered
<1>5. OtherStep
  BY <1>1, SameOther
<1> QED BY <1>2, <1>3, <1>4, <1>5 DEF Good

(* A throttled CALL takes a lease for its invocation, or only expired ones *)
(* go.                                                                     *)
LEMMA AskThrottledStep ==
  ASSUME Sound, NEW c \in Call, NEW more \in BOOLEAN, AskThrottled(c, more)
  PROVE  Good
<1> DEFINE k == KeyFor(c)
<1>0. StoreTypeOK /\ PlainTypes
  BY TypeParts DEF Sound
<1>1. /\ asked[c] < MaxAsk /\ told[c] = asked[c] /\ asked' = [asked EXCEPT ![c] = @ + 1]
      /\ Tell({c}) /\ UNCHANGED <<reg, policy, pending, now>> /\ Deduplicated(c)
      /\ k \notin DOMAIN ReapedLeases /\ ~Full(ReapedLeases)
  BY DEF AskThrottled, Asks
<1>2. k \in Key /\ k[1] = reg
  BY <1>0, <1>1, KeyIs DEF Sound
<1> HIDE DEF k
<1>3. CASE /\ Dispatched(c, more)
           /\ leases' = With(ReapedLeases, k, [inv |-> nextInv, expiresAt |-> now + Expiry])
           /\ keyOf' = With(ReapedKeys, nextInv, k)
           /\ born' = With(born, nextInv, [key |-> k, at |-> now])
  <2>1. /\ StoreStep /\ nextInv \in InvId /\ live' = live \cup {nextInv}
        /\ nextInv' = nextInv + 1 /\ UNCHANGED <<open, callees>>
    BY <1>0, <1>3, DispatchSteps
  <2>2. Takes(k)
    BY <1>1, <1>2, <1>3, <2>1 DEF Takes, Deduplicated
  <2>3. WaitStep
    BY <1>1, <2>1, StayOpen DEF WaitStep, Answered
  <2>4. OtherStep
    BY <1>1, <2>1, SameOther
  <2> QED BY <2>1, <2>2, <2>3, <2>4 DEF Good, LeaseStep
<1>4. CASE /\ DispatchFails(c) /\ leases' = ReapedLeases /\ keyOf' = ReapedKeys
           /\ UNCHANGED born
  <2>1. StoreStep /\ UNCHANGED <<open, callees, live>>
    BY <1>0, <1>4, DispatchSteps
  <2>2. LeaseStep
    BY <1>4, <2>1, ReapDrops, TypeParts DEF LeaseStep, Sound
  <2>3. WaitStep
    BY <1>1, <2>1, StayOpen DEF WaitStep, Answered
  <2>4. OtherStep
    BY <1>1, <2>1, SameOther
  <2> QED BY <2>1, <2>2, <2>3, <2>4 DEF Good
<1> QED BY <1>3, <1>4 DEF AskThrottled, k

(* A debounced CALL waits, or takes the place of the one that waited.      *)
LEMMA AskDebouncedStep ==
  ASSUME Sound, NEW c \in Call, NEW more \in BOOLEAN, AskDebounced(c, more)
  PROVE  Good
<1> DEFINE k == KeyFor(c)
           until == DebounceUntil(k)
           fire == IF now + Debounce < until THEN now + Debounce ELSE until
           v == [call |-> c, more |-> more, expiresAt |-> until, fireAt |-> fire]
<1>0. StoreTypeOK /\ PlainTypes /\ MapTypes
  BY TypeParts DEF Sound
<1>1. /\ asked[c] < MaxAsk /\ told[c] = asked[c] /\ asked' = [asked EXCEPT ![c] = @ + 1]
      /\ Tell(IF k \in DOMAIN pending THEN {pending[k].call} ELSE {})
      /\ UNCHANGED <<reg, policy, now, born>> /\ Deduplicated(c)
      /\ UNCHANGED <<open, callees, live, inv, timers, nextInv>>
      /\ leases' = ReapedLeases /\ keyOf' = ReapedKeys
      /\ k \in DOMAIN pending \/ ~Full(ReapedLeases)
      /\ pending' = With(pending, k, v) /\ CallerOf[c] \in open
  BY DEF AskDebounced, Asks, storeVars
<1>2. k \in Key /\ k[1] = reg
  BY <1>0, <1>1, KeyIs DEF Sound
<1>3. until \in Nat /\ (k \in DOMAIN pending => until = pending[k].expiresAt)
  <2>1. now + Expiry \in Nat
    BY <1>0, Bounds DEF PlainTypes, Time
  <2>2. k \in DOMAIN pending => pending[k].expiresAt \in Nat
    BY <1>0 DEF MapTypes, PendingDebounce
  <2> QED BY <2>1, <2>2 DEF DebounceUntil
<1>4. fire \in Nat /\ fire <= until
  <2>1. now \in Nat
    BY <1>0, Bounds DEF PlainTypes, Time
  <2> HIDE DEF until
  <2> QED BY <1>3, <2>1, Bounds
<1>5. v \in PendingDebounce /\ v.call = c /\ v.fireAt <= v.expiresAt /\ v.expiresAt = until
  <2> HIDE DEF fire, until
  <2> QED BY <1>3, <1>4 DEF PendingDebounce
<1> HIDE DEF k, v, fire, until
<1>6. DOMAIN leases' \subseteq DOMAIN leases
  BY <1>1, WithoutIs DEF ReapedLeases
<1>7. callees # {}
  BY <1>1 DEF Deduplicated
<1>8. StoreStep
  BY <1>1 DEF StoreStep, storeVars
<1>9. LeaseStep
  BY <1>0, <1>1, ReapDrops DEF LeaseStep, Sound
<1>10. Enters(c, k, v)
  BY <1>1, <1>2, <1>3, <1>5, <1>6, <1>7 DEF Enters
<1>11. WaitStep
  BY <1>1, <1>10, StayOpen DEF WaitStep
<1>12. OtherStep
  BY <1>1, SameOther
<1> QED BY <1>8, <1>9, <1>11, <1>12 DEF Good

(* The timer answers the one call that waited for it, dispatched or not.   *)
LEMMA FireStep ==
  ASSUME Sound, NEW k \in Key, FireDebounce(k)
  PROVE  Good
<1> DEFINE c == pending[k].call
<1>0. StoreTypeOK /\ MapTypes
  BY TypeParts DEF Sound
<1>1. /\ k \in DOMAIN pending /\ pending' = Without(pending, {k}) /\ Tell({c})
      /\ UNCHANGED <<reg, policy, leases, keyOf, now, asked, born>>
      /\ Dispatched(c, pending[k].more) \/ DispatchFails(c)
  BY DEF FireDebounce
<1>2. c \in Call /\ pending[k].more \in BOOLEAN
  BY <1>0, <1>1 DEF MapTypes, PendingDebounce
<1>3. StoreStep /\ UNCHANGED <<open, callees>> /\ live \subseteq live'
  BY <1>0, <1>1, <1>2, DispatchSteps
<1>4. LeaseStep
  BY <1>1, <1>3, NoDrops DEF LeaseStep, Sound
<1>5. Leaves({k})
  <2>1. {pending[l].call : l \in {k} \cap DOMAIN pending} = {c}
    BY <1>1
  <2>2. /\ DOMAIN pending' = DOMAIN pending \ {k}
        /\ \A l \in DOMAIN pending \ {k} : pending'[l] = pending[l]
    BY <1>1, WithoutIs
  <2> QED BY <1>1, <2>1, <2>2 DEF Leaves
<1>6. WaitStep
  BY <1>1, <1>3, <1>5, StayOpen DEF WaitStep
<1>7. OtherStep
  BY <1>1, <1>3, SameOther
<1> QED BY <1>3, <1>4, <1>6, <1>7 DEF Good

(* An invocation that ends drops its own lease.                            *)
LEMMA ReleasedStep ==
  ASSUME Sound, NEW i \in InvId, Release({i}), live' = live \ {i}, born' = born
  PROVE  LeaseStep
<1> DEFINE K == {keyOf[j] : j \in {i} \cap DOMAIN keyOf}
<1>1. leases' = Without(leases, K) /\ keyOf' = Without(keyOf, {i})
  BY DEF Release
<1>2. /\ DOMAIN leases' = DOMAIN leases \ K
      /\ \A k \in DOMAIN leases \ K : leases'[k] = leases[k]
  <2> HIDE DEF K
  <2> QED BY <1>1, WithoutIs
<1>3. /\ DOMAIN keyOf' = DOMAIN keyOf \ {i}
      /\ \A j \in DOMAIN keyOf \ {i} : keyOf'[j] = keyOf[j]
  BY <1>1, WithoutIs
<1> QED BY <1>2, <1>3, ReleaseDrops DEF LeaseStep, Sound

(* YIELD, ERROR, CANCEL and the timeout: the lease goes with the           *)
(* invocation, and stays while a killed one is waited for.                 *)
LEMMA EndStep ==
  ASSUME Sound, NEW i \in InvId, Complete(i) \/ Cancel(i, TRUE) \/ Cancel(i, FALSE) \/ Expire(i)
  PROVE  Good
<1>1. /\ UNCHANGED <<reg, policy, pending, now, asked, told, born>>
      /\ UNCHANGED <<open, callees>>
  BY DEF Complete, Cancel, Expire, CompleteInvocation, CancelInvocation, ExpireInvocation
<1>2. StoreStep
  <2>1. StoreNext
    BY DEF Complete, Cancel, Expire, StoreNext
  <2> QED BY <2>1 DEF StoreStep
<1>3. LeaseStep
  <2>1. CASE Complete(i) \/ Cancel(i, FALSE) \/ Expire(i)
    <3>1. Release({i}) /\ live' = live \ {i}
      BY <2>1 DEF Complete, Cancel, Expire, CompleteInvocation, CancelInvocation,
        ExpireInvocation
    <3> QED BY <1>1, <3>1, ReleasedStep
  <2>2. CASE Cancel(i, TRUE)
    <3>1. UNCHANGED <<leases, keyOf>> /\ live' = live
      BY <2>2 DEF Cancel, CancelInvocation
    <3> QED BY <1>1, <3>1, NoDrops DEF LeaseStep, Sound
  <2> QED BY <2>1, <2>2
<1>4. WaitStep
  BY <1>1, StayOpen DEF WaitStep, Quiet
<1>5. OtherStep
  BY <1>1, SameOther
<1> QED BY <1>2, <1>3, <1>4, <1>5 DEF Good

(* A registration changes no lease and no waiting call; the first callee's *)
(* has a fresh id.                                                         *)
LEMMA RegisterStep ==
  ASSUME Sound, NEW s \in Session, NEW p \in Policies, Register(s, p)
  PROVE  Good
<1>0. PlainTypes
  BY TypeParts DEF Sound
<1>1. /\ UNCHANGED <<leases, keyOf, pending, now, asked, told, born>>
      /\ callees' = callees \cup {s} /\ UNCHANGED <<open, live>>
      /\ \/ callees = {} /\ reg < MaxReg /\ reg' = reg + 1 /\ policy' = p
         \/ callees # {} /\ UNCHANGED <<reg, policy>>
  BY DEF Register, RegisterProcedure
<1>2. StoreStep
  <2>1. StoreNext
    BY DEF Register, StoreNext
  <2> QED BY <2>1 DEF StoreStep
<1>3. LeaseStep
  BY <1>1, NoDrops DEF LeaseStep, Sound
<1>4. WaitStep
  BY <1>1, StayOpen DEF WaitStep, Quiet
<1>5. OtherStep
  <2>1. now \in Nat /\ reg \in 0..MaxReg
    BY <1>0, Bounds DEF PlainTypes, Time
  <2> QED BY <1>0, <1>1, <2>1, Bounds DEF OtherStep, PlainTypes
<1> QED BY <1>2, <1>3, <1>4, <1>5 DEF Good

(* Time goes on.                                                           *)
LEMMA TickStep ==
  ASSUME Sound, Tick
  PROVE  Good
<1>0. PlainTypes
  BY TypeParts DEF Sound
<1>1. /\ UNCHANGED <<reg, policy, leases, keyOf, pending, asked, told, born>>
      /\ UNCHANGED <<open, callees, live, inv, timers, nextInv>>
      /\ now' = now + 1 /\ now' \in Time
  BY DEF Tick, storeVars
<1>2. StoreStep
  BY <1>1 DEF StoreStep, storeVars
<1>3. LeaseStep
  BY <1>1, NoDrops DEF LeaseStep, Sound
<1>4. WaitStep
  BY <1>1, StayOpen DEF WaitStep, Quiet
<1>5. OtherStep
  <2>1. now \in Nat /\ reg \in 0..MaxReg
    BY <1>0, Bounds DEF PlainTypes, Time
  <2> QED BY <1>0, <1>1, <2>1 DEF OtherStep, PlainTypes
<1> QED BY <1>2, <1>3, <1>4, <1>5 DEF Good

(* The last callee takes the leases and the waiting calls of its           *)
(* registration along.                                                     *)
LEMMA UnregisterStep ==
  ASSUME Sound, NEW s \in Session, Unregister(s)
  PROVE  Good
<1>0. MapTypes /\ PlainTypes
  BY TypeParts DEF Sound
<1>1. /\ UNCHANGED <<reg, policy, now, asked, born>> /\ s \in callees
      /\ callees' = callees \ {s} /\ UNCHANGED <<open, live>>
  BY DEF Unregister, UnregisterProcedure
<1>2. StoreStep
  <2>1. StoreNext
    BY DEF Unregister, StoreNext
  <2> QED BY <2>1 DEF StoreStep
<1>3. OtherStep
  BY <1>1, SameOther
<1>4. CASE callees # {s}
  <2>1. UNCHANGED <<leases, keyOf, pending, told>>
    BY <1>4 DEF Unregister
  <2>2. LeaseStep
    BY <1>1, <2>1, NoDrops DEF LeaseStep, Sound
  <2>3. callees' # {}
    BY <1>1, <1>4
  <2>4. WaitStep
    BY <1>1, <2>1, <2>3, StayOpen DEF WaitStep, Quiet
  <2> QED BY <1>2, <1>3, <2>2, <2>4 DEF Good
<1>5. CASE callees = {s}
  <2> DEFINE old == {k \in Key : k[1] = reg}
             ids == {leases[k].inv : k \in old \cap DOMAIN leases}
             calls == {pending[k].call : k \in old \cap DOMAIN pending}
  <2>1. /\ DOMAIN leases' = DOMAIN leases \ old
        /\ \A k \in DOMAIN leases \ old : leases'[k] = leases[k]
        /\ DOMAIN keyOf' = DOMAIN keyOf \ ids
        /\ \A i \in DOMAIN keyOf \ ids : keyOf'[i] = keyOf[i]
        /\ DOMAIN pending' = DOMAIN pending \ old
        /\ \A k \in DOMAIN pending \ old : pending'[k] = pending[k]
        /\ Tell({} \cup calls)
    <3>1. ClearRegistration(leases, keyOf, pending, {})
      BY <1>5 DEF Unregister
    <3>2. /\ leases' = Without(leases, old) /\ keyOf' = Without(keyOf, ids)
          /\ pending' = Without(pending, old) /\ Tell({} \cup calls)
      BY <3>1 DEF ClearRegistration
    <3> HIDE DEF old, ids, calls
    <3>3. /\ DOMAIN leases' = DOMAIN leases \ old
          /\ \A k \in DOMAIN leases \ old : leases'[k] = leases[k]
      BY <3>2, WithoutIs
    <3>4. /\ DOMAIN keyOf' = DOMAIN keyOf \ ids
          /\ \A i \in DOMAIN keyOf \ ids : keyOf'[i] = keyOf[i]
      BY <3>2, WithoutIs
    <3>5. /\ DOMAIN pending' = DOMAIN pending \ old
          /\ \A k \in DOMAIN pending \ old : pending'[k] = pending[k]
      BY <3>2, WithoutIs
    <3> QED BY <3>2, <3>3, <3>4, <3>5
  <2>2. \A k \in DOMAIN pending : k \in old
    BY <1>0 DEF Sound, WaitingSound, MapTypes
  <2>3. \A k \in DOMAIN leases : k \in old <=> leases[k].inv \in ids
    BY DEF Sound, LeasesAgree
  <2> HIDE DEF old, ids, calls
  <2>4. callees' = {}
    BY <1>1, <1>5
  <2>5. Drops(old, ids)
    <3>1. \A k \in DOMAIN leases : leases[k].inv \in live'
      BY <1>1 DEF Sound, LeasesAgree
    <3> QED BY <1>1, <2>1, <2>3, <2>4, <3>1 DEF Drops
  <2>6. Leaves(old)
    <3>1. {} \cup calls = calls
      OBVIOUS
    <3>2. Tell(calls)
      BY <2>1, <3>1
    <3> QED BY <1>1, <2>1, <3>2 DEF Leaves, calls
  <2>7. WaitStep
    BY <2>1, <2>2, <2>6 DEF WaitStep, Stay
  <2> QED BY <1>2, <1>3, <2>5, <2>7 DEF Good, LeaseStep
<1> QED BY <1>4, <1>5

(* A session that closes takes along its waiting calls, the leases of its  *)
(* invocations and, as the last callee, those of the registration, each    *)
(* once.                                                                   *)
LEMMA CloseStep ==
  ASSUME Sound, NEW s \in Session, CloseSession(s)
  PROVE  Good
<1> DEFINE own == OwnDebounces(s)
           gone == {pending[k].call : k \in own}
           ended == InvocationsOf(s)
           K == {keyOf[i] : i \in ended \cap DOMAIN keyOf}
           held == Without(leases, K)
           keys == Without(keyOf, ended)
           waiting == Without(pending, own)
<1>0. MapTypes /\ PlainTypes
  BY TypeParts DEF Sound
<1>1. /\ UNCHANGED <<reg, policy, now, asked, born>>
      /\ callees' = callees \ {s} /\ open' = open \ {s} /\ live' = live \ ended
  BY DEF CloseSession, CloseStoreSession
<1>2. StoreStep
  <2>1. StoreNext
    BY DEF CloseSession, StoreNext
  <2> QED BY <2>1 DEF StoreStep
<1>3. OtherStep
  BY <1>1, SameOther
<1>4. /\ own \subseteq DOMAIN pending
      /\ \A k \in DOMAIN pending \ own : CallerOf[pending[k].call] # s
  BY DEF OwnDebounces
<1>5. DOMAIN held = DOMAIN leases \ K /\ \A k \in DOMAIN leases \ K : held[k] = leases[k]
  <2> HIDE DEF K
  <2> QED BY WithoutIs
<1>6. DOMAIN keys = DOMAIN keyOf \ ended /\ \A i \in DOMAIN keyOf \ ended : keys[i] = keyOf[i]
  <2> HIDE DEF ended
  <2> QED BY WithoutIs
<1>7. /\ DOMAIN waiting = DOMAIN pending \ own
      /\ \A k \in DOMAIN pending \ own : waiting[k] = pending[k]
  <2> HIDE DEF own
  <2> QED BY WithoutIs
<1>8. CASE callees # {s}
  <2>1. leases' = held /\ keyOf' = keys /\ pending' = waiting /\ Tell(gone)
    BY <1>8 DEF CloseSession
  <2>2. LeaseStep
    <3> HIDE DEF held, keys, ended
    <3> QED BY <1>1, <1>5, <1>6, <2>1, ReleaseDrops DEF LeaseStep, Sound
  <2> HIDE DEF own, ended, held, keys, waiting
  <2>3. Leaves(own)
    <3>1. own \cap DOMAIN pending = own
      BY <1>4
    <3>2. Tell({pending[k].call : k \in own \cap DOMAIN pending})
      BY <2>1, <3>1
    <3> QED BY <1>1, <1>7, <2>1, <3>2 DEF Leaves
  <2>4. Stay
    <3>1. callees # {} => callees' # {}
      BY <1>1, <1>8
    <3>2. \A k \in DOMAIN pending' : k \in DOMAIN pending \ own
      BY <1>7, <2>1
    <3> QED BY <1>1, <1>4, <3>1, <3>2 DEF Stay, Sound, WaitingSound
  <2> QED BY <1>2, <1>3, <2>2, <2>3, <2>4 DEF Good, WaitStep
<1>9. CASE callees = {s}
  <2> DEFINE old == {k \in Key : k[1] = reg}
             ids == {held[k].inv : k \in old \cap DOMAIN held}
             calls == {waiting[k].call : k \in old \cap DOMAIN waiting}
  <2>1. /\ leases' = Without(held, old) /\ keyOf' = Without(keys, ids)
        /\ pending' = Without(waiting, old) /\ Tell(gone \cup calls)
    <3>1. ClearRegistration(held, keys, waiting, gone)
      BY <1>9 DEF CloseSession
    <3> HIDE DEF held, keys, waiting, gone
    <3> QED BY <3>1 DEF ClearRegistration
  <2>2. \A k \in DOMAIN leases : k \in K <=> leases[k].inv \in ended
    <3> HIDE DEF ended
    <3> TAKE k \in DOMAIN leases
    <3>1. leases[k].inv \in DOMAIN keyOf /\ keyOf[leases[k].inv] = k
      BY DEF Sound, LeasesAgree
    <3>2. ASSUME k \in K PROVE leases[k].inv \in ended
      <4>1. PICK i \in ended \cap DOMAIN keyOf : keyOf[i] = k
        BY <3>2
      <4> QED BY <4>1 DEF Sound, LeasesAgree
    <3> QED BY <3>1, <3>2
  <2>3. callees' = {} /\ \A k \in DOMAIN pending : k \in old
    BY <1>0, <1>1, <1>9 DEF Sound, WaitingSound, MapTypes
  <2> HIDE DEF K, held, keys, waiting, own, ended
  <2>4. \A k \in DOMAIN held : k \in old <=> held[k].inv \in ids
    <3>1. \A k, l \in DOMAIN held : held[k].inv = held[l].inv => k = l
      BY <1>5 DEF Sound, LeasesAgree
    <3> QED BY <3>1
  <2>5. \A i \in ids : \E k \in old \cap DOMAIN held : leases[k].inv = i
    BY <1>5
  <2>6. {pending[k].call : k \in DOMAIN pending \cap DOMAIN pending} = gone \cup calls
    <3>1. ASSUME NEW k \in DOMAIN pending PROVE pending[k].call \in gone \cup calls
      <4>1. CASE k \in own
        BY <4>1
      <4>2. CASE k \notin own
        BY <1>7, <2>3, <4>2
      <4> QED BY <4>1, <4>2
    <3>2. ASSUME NEW c \in gone \cup calls
          PROVE  \E k \in DOMAIN pending : pending[k].call = c
      BY <1>4, <1>7
    <3> QED BY <3>1, <3>2
  <2> HIDE DEF old, ids, calls, gone
  <2>7. /\ DOMAIN leases' = DOMAIN held \ old
        /\ \A k \in DOMAIN held \ old : leases'[k] = held[k]
    BY <2>1, WithoutIs
  <2>8. /\ DOMAIN keyOf' = DOMAIN keys \ ids
        /\ \A i \in DOMAIN keys \ ids : keyOf'[i] = keys[i]
    BY <2>1, WithoutIs
  <2>9. DOMAIN pending' = {}
    <3>1. DOMAIN pending' = DOMAIN waiting \ old
      BY <2>1, WithoutIs
    <3> QED BY <1>7, <2>3, <3>1
  <2>10. Drops(K \cup old, ended \cup ids)
    <3>1. DOMAIN leases' = DOMAIN leases \ (K \cup old)
      BY <1>5, <2>7
    <3>2. \A k \in DOMAIN leases' : leases'[k] = leases[k] /\ leases[k].inv \in live'
      BY <1>1, <1>5, <2>2, <2>7 DEF Sound, LeasesAgree
    <3>3. DOMAIN keyOf' = DOMAIN keyOf \ (ended \cup ids)
      BY <1>6, <2>8
    <3>4. \A i \in DOMAIN keyOf' : keyOf'[i] = keyOf[i]
      BY <1>6, <2>8
    <3>5. \A k \in DOMAIN leases : k \in K \cup old <=> leases[k].inv \in ended \cup ids
      <4> TAKE k \in DOMAIN leases
      <4>1. CASE k \in K
        BY <2>2, <4>1
      <4>2. CASE k \notin K
        BY <1>5, <2>2, <2>4, <4>2
      <4> QED BY <4>1, <4>2
    <3> QED BY <1>1, <2>3, <3>1, <3>2, <3>3, <3>4, <3>5 DEF Drops
  <2>11. Leaves(DOMAIN pending)
    BY <1>1, <2>1, <2>6, <2>9 DEF Leaves
  <2>12. WaitStep
    BY <2>9, <2>11 DEF WaitStep, Stay
  <2> QED BY <1>2, <1>3, <2>10, <2>12 DEF Good, LeaseStep
<1> QED BY <1>8, <1>9

(* Every command and timer callback of the store is such a step.           *)
LEMMA Steps ==
  ASSUME Sound, Next
  PROVE  Good
  BY AskDirectStep, AskThrottledStep, AskDebouncedStep, AskRefusedStep, FireStep, EndStep,
     UnregisterStep, CloseStep, RegisterStep, TickStep
     DEF Next

(* The store's own invariant is preserved, by a dispatch that throws after *)
(* taking an id as well.                                                   *)
LEMMA StoreKept ==
  ASSUME StoreInv, StoreStep
  PROVE  StoreInv'
<1>1. CASE [StoreNext]_storeVars
  BY <1>1, StoreInvStep
<1>2. CASE Bumped
  <2>1. UNCHANGED <<open, callees, live, inv, timers>> /\ nextInv \in 1..MaxInv
        /\ nextInv' = nextInv + 1
    BY <1>2 DEF Bumped, InvId
  <2>2. nextInv' \in 1..(MaxInv + 1) /\ 1..(nextInv - 1) \subseteq 1..(nextInv' - 1)
    <3>1. MaxInv \in Nat
      BY InvocationsAssumption
    <3> QED BY <2>1, <3>1
  <2>3. StoreTypeOK'
    BY <2>1, <2>2 DEF StoreInv, StoreTypeOK
  <2>4. Issued'
    BY <2>1, <2>2 DEF StoreInv, Issued
  <2> QED BY <2>1, <2>3, <2>4 DEF StoreInv, NoOrphans, OnePending
<1> QED BY <1>1, <1>2 DEF StoreStep

(* Invocations are made under the next id only.                            *)
LEMMA StoreMoves ==
  ASSUME StoreInv, StoreStep
  PROVE  /\ nextInv \in Nat /\ nextInv' \in Nat /\ nextInv <= nextInv'
         /\ live' \subseteq live \cup {nextInv}
         /\ \A i \in live : i \in Nat /\ i < nextInv
<1>1. nextInv \in Nat /\ \A i \in live : i \in Nat /\ i < nextInv
  BY DEF StoreInv, StoreTypeOK, Issued, InvId
<1>2. nextInv' \in {nextInv, nextInv + 1} /\ live' \subseteq live \cup {nextInv}
  BY DEF StoreStep, Bumped, StoreNext, storeVars, DispatchNew, DispatchChunk,
     CompleteInvocation, TouchInvocation, CancelInvocation, ExpireInvocation, CloseStoreSession,
     RegisterProcedure, UnregisterProcedure
<1> QED BY <1>1, <1>2

(* The procedure has callees only under a registration.                    *)
LEMMA RegisteredStep ==
  ASSUME Registered, OtherStep, reg \in Nat
  PROVE  Registered'
  BY DEF Registered, OtherStep

(* Dropping leases preserves what relates leases, invocations and the      *)
(* history: an invocation that loses its lease has ended, or the lease had *)
(* expired, or nothing can be throttled by it any more.                    *)
LEMMA DropsKeep ==
  ASSUME MapTypes, LeasesAgree, BornEarlier, LeaseKept, ThrottleHolds, StoreInv, StoreStep,
         OtherStep, now \in Nat, reg \in Nat, NEW K, NEW I, Drops(K, I)
  PROVE  LeasesAgree' /\ BornEarlier' /\ LeaseKept' /\ ThrottleHolds'
<1> USE Bounds
<1>0. /\ nextInv \in Nat /\ nextInv' \in Nat /\ nextInv <= nextInv'
      /\ live' \subseteq live \cup {nextInv}
      /\ \A i \in live : i \in Nat /\ i < nextInv
  BY StoreMoves
<1>1. LeasesAgree'
  <2>1. \A k \in DOMAIN leases' : /\ leases'[k].inv \in live' \cap DOMAIN keyOf'
                                  /\ keyOf'[leases'[k].inv] = k
    BY DEF Drops, LeasesAgree
  <2>2. \A i \in DOMAIN keyOf' : /\ keyOf'[i] \in DOMAIN leases'
                                 /\ leases'[keyOf'[i]].inv = i
    BY DEF Drops, LeasesAgree
  <2> QED BY <2>1, <2>2 DEF LeasesAgree
<1>2. now' \in Nat /\ now <= now' /\ reg' \in Nat /\ reg <= reg'
  BY DEF OtherStep, Time
<1>3. BornEarlier'
  <2>1. \A i \in DOMAIN born : i \in Nat /\ born[i].key[1] \in Nat
    BY DEF MapTypes, InvId, BornEarlier, Key
  <2> QED BY <1>0, <1>2, <2>1 DEF BornEarlier, Drops
<1>4. \A i \in live' \cap DOMAIN born' : i \in live \cap DOMAIN born /\ born' = born
  BY <1>0 DEF BornEarlier, Drops
<1>5. LeaseKept'
  <2> SUFFICES ASSUME NEW i \in live' \cap DOMAIN born'
               PROVE  (Holds(i) \/ born[i].at + Expiry <= now \/ Cleared(i))'
    BY DEF LeaseKept
  <2>0. i \in live \cap DOMAIN born /\ born' = born /\ i \in live'
    BY <1>4
  <2>1. born[i].at \in Nat /\ born[i].key \in Key /\ born[i].key[1] \in Nat
        /\ born[i].key[1] <= reg
    BY <2>0 DEF BornEarlier, Key
  <2>2. CASE born[i].at + Expiry <= now
    BY <1>2, <2>0, <2>1, <2>2
  <2>3. CASE Cleared(i)
    BY <1>2, <2>0, <2>1, <2>3 DEF Cleared, OtherStep
  <2>4. CASE Holds(i)
    <3> DEFINE k == born[i].key
    <3>1. /\ i \in DOMAIN keyOf /\ keyOf[i] = k /\ k \in DOMAIN leases /\ leases[k].inv = i
          /\ leases[k].expiresAt = born[i].at + Expiry
      BY <2>4 DEF Holds, LeasesAgree
    <3>2. CASE k \in K
      <4>1. leases[k].expiresAt <= now \/ callees' = {}
        BY <2>0, <3>1, <3>2 DEF Drops
      <4>2. CASE callees' = {}
        BY <4>2 DEF Cleared
      <4>3. CASE leases[k].expiresAt <= now
        BY <1>2, <2>0, <2>1, <3>1, <4>3
      <4> QED BY <4>1, <4>2, <4>3
    <3>3. CASE k \notin K
      <4>1. i \in DOMAIN keyOf' /\ keyOf'[i] = k /\ leases'[k] = leases[k]
        BY <3>1, <3>3 DEF Drops
      <4> QED BY <2>0, <3>1, <4>1 DEF Holds
    <3> QED BY <3>2, <3>3
  <2> QED BY <2>0, <2>2, <2>3, <2>4 DEF LeaseKept
<1>6. ThrottleHolds'
  BY <1>4 DEF ThrottleHolds
<1> QED BY <1>1, <1>3, <1>5, <1>6

(* So does taking one: an older invocation of the same hash that is still  *)
(* pending had its lease for the whole expiry.                             *)
LEMMA TakesKeep ==
  ASSUME MapTypes, LeasesAgree, BornEarlier, LeaseKept, ThrottleHolds, StoreInv, StoreStep,
         now \in Nat, reg \in Nat, NEW k, Takes(k)
  PROVE  LeasesAgree' /\ BornEarlier' /\ LeaseKept' /\ ThrottleHolds'
<1> USE Bounds
<1> DEFINE new == [inv |-> nextInv, expiresAt |-> now + Expiry]
           made == [key |-> k, at |-> now]
           ids == {leases[l].inv : l \in Expired}
<1>0. /\ nextInv \in Nat /\ nextInv' = nextInv + 1 /\ live' = live \cup {nextInv}
      /\ UNCHANGED <<now, reg, callees>> /\ callees # {} /\ k \in Key /\ k[1] = reg
      /\ \A i \in live : i \in Nat /\ i < nextInv
  BY StoreMoves DEF Takes
<1>1. new.inv = nextInv /\ new.expiresAt = now + Expiry /\ made.key = k /\ made.at = now
  OBVIOUS
<1>2. \A l \in DOMAIN leases : l \in Expired <=> leases[l].expiresAt <= now
  BY DEF Expired
<1>3. \A l \in DOMAIN leases : l \in Expired <=> leases[l].inv \in ids
  <2>1. \A l, m \in DOMAIN leases : leases[l].inv = leases[m].inv => l = m
    BY DEF LeasesAgree
  <2> QED BY <2>1 DEF Expired
<1>4. /\ leases' = With(ReapedLeases, k, new) /\ keyOf' = With(ReapedKeys, nextInv, k)
      /\ born' = With(born, nextInv, made)
      /\ ReapedLeases = Without(leases, Expired) /\ ReapedKeys = Without(keyOf, ids)
      /\ k \notin DOMAIN ReapedLeases
  BY DEF Takes, ReapedLeases, ReapedKeys
<1> HIDE DEF new, made, ids
<1>5. /\ DOMAIN leases' = (DOMAIN leases \ Expired) \cup {k} /\ leases'[k] = new
      /\ \A l \in DOMAIN leases \ Expired : leases'[l] = leases[l] /\ l # k
  <2>1. /\ DOMAIN ReapedLeases = DOMAIN leases \ Expired
        /\ \A l \in DOMAIN leases \ Expired : ReapedLeases[l] = leases[l]
    BY <1>4, WithoutIs
  <2>2. /\ DOMAIN leases' = DOMAIN ReapedLeases \cup {k} /\ leases'[k] = new
        /\ \A l \in DOMAIN ReapedLeases : l # k => leases'[l] = ReapedLeases[l]
    BY <1>4 DEF With
  <2> QED BY <1>4, <2>1, <2>2
<1>6. /\ DOMAIN keyOf' = (DOMAIN keyOf \ ids) \cup {nextInv} /\ keyOf'[nextInv] = k
      /\ \A i \in DOMAIN keyOf \ ids : keyOf'[i] = keyOf[i] /\ i # nextInv
  <2>1. /\ DOMAIN ReapedKeys = DOMAIN keyOf \ ids
        /\ \A i \in DOMAIN keyOf \ ids : ReapedKeys[i] = keyOf[i]
    BY <1>4, WithoutIs
  <2>2. /\ DOMAIN keyOf' = DOMAIN ReapedKeys \cup {nextInv} /\ keyOf'[nextInv] = k
        /\ \A i \in DOMAIN ReapedKeys : i # nextInv => keyOf'[i] = ReapedKeys[i]
    BY <1>4 DEF With
  <2>3. \A i \in DOMAIN keyOf : i # nextInv
    BY <1>0 DEF LeasesAgree
  <2> QED BY <2>1, <2>2, <2>3
<1>7. /\ DOMAIN born' = DOMAIN born \cup {nextInv} /\ born'[nextInv] = made
      /\ \A i \in DOMAIN born : born'[i] = born[i] /\ i < nextInv /\ i \in Nat /\ i # nextInv
  <2>1. \A i \in DOMAIN born : i < nextInv /\ i \in Nat
    BY DEF BornEarlier, MapTypes, InvId
  <2>2. \A i \in DOMAIN born : i # nextInv
    BY <1>0, <2>1
  <2>3. /\ DOMAIN born' = DOMAIN born \cup {nextInv} /\ born'[nextInv] = made
        /\ \A i \in DOMAIN born : i # nextInv => born'[i] = born[i]
    BY <1>4 DEF With
  <2> QED BY <2>1, <2>2, <2>3
<1>8. LeasesAgree'
  <2>1. \A l \in DOMAIN leases' : /\ leases'[l].inv \in live' \cap DOMAIN keyOf'
                                  /\ keyOf'[leases'[l].inv] = l
    BY <1>0, <1>1, <1>3, <1>5, <1>6 DEF LeasesAgree
  <2>2. \A i \in DOMAIN keyOf' : /\ keyOf'[i] \in DOMAIN leases'
                                 /\ leases'[keyOf'[i]].inv = i
    BY <1>1, <1>3, <1>5, <1>6 DEF LeasesAgree
  <2> QED BY <2>1, <2>2 DEF LeasesAgree
<1>9. BornEarlier'
  BY <1>0, <1>1, <1>7 DEF BornEarlier
<1>10. \A i \in live \cap DOMAIN born : born[i].key = k => born[i].at + Expiry <= now
  <2> TAKE i \in live \cap DOMAIN born
  <2> HAVE born[i].key = k
  <2>1. ~Cleared(i)
    BY <1>0 DEF Cleared, Key
  <2>2. CASE Holds(i)
    <3>1. k \in DOMAIN leases /\ leases[k].expiresAt = born[i].at + Expiry
      BY <2>2 DEF Holds, LeasesAgree
    <3>2. k \in Expired
      BY <1>5, <3>1
    <3> QED BY <1>2, <3>1, <3>2
  <2> QED BY <2>1, <2>2 DEF LeaseKept
<1>11. LeaseKept'
  <2> SUFFICES ASSUME NEW i \in live' \cap DOMAIN born'
               PROVE  (Holds(i) \/ born[i].at + Expiry <= now \/ Cleared(i))'
    BY DEF LeaseKept
  <2>1. CASE i = nextInv
    BY <1>1, <1>5, <1>6, <1>7, <2>1 DEF Holds
  <2>2. CASE i # nextInv
    <3>1. i \in live \cap DOMAIN born /\ born'[i] = born[i]
      BY <1>0, <1>7, <2>2
    <3>2. CASE born[i].at + Expiry <= now \/ Cleared(i)
      BY <1>0, <3>1, <3>2 DEF Cleared
    <3>3. CASE Holds(i)
      <4>1. /\ i \in DOMAIN keyOf /\ keyOf[i] = born[i].key
            /\ born[i].key \in DOMAIN leases /\ leases[born[i].key].inv = i
            /\ leases[born[i].key].expiresAt = born[i].at + Expiry
        BY <3>3 DEF Holds, LeasesAgree
      <4>2. CASE born[i].key \in Expired
        BY <1>0, <1>2, <3>1, <4>1, <4>2
      <4>3. CASE born[i].key \notin Expired
        BY <1>3, <1>5, <1>6, <3>1, <4>1, <4>3 DEF Holds
      <4> QED BY <4>2, <4>3
    <3> QED BY <3>1, <3>2, <3>3 DEF LeaseKept
  <2> QED BY <2>1, <2>2
<1>12. ThrottleHolds'
  <2> SUFFICES ASSUME NEW i \in live' \cap DOMAIN born', NEW j \in live' \cap DOMAIN born',
                      i < j, born'[i].key = born'[j].key
               PROVE  born'[j].at >= born'[i].at + Expiry
    BY DEF ThrottleHolds
  <2>1. \A m \in live' \cap DOMAIN born' : m = nextInv \/ m \in live \cap DOMAIN born
    BY <1>0, <1>7
  <2>2. i # nextInv
    BY <1>0, <1>7, <2>1
  <2>3. i \in live \cap DOMAIN born /\ born'[i] = born[i] /\ born[i].at \in Nat
    BY <1>7, <2>1, <2>2 DEF BornEarlier
  <2>4. CASE j = nextInv
    BY <1>1, <1>7, <1>10, <2>3, <2>4
  <2>5. CASE j # nextInv
    BY <1>7, <2>1, <2>3, <2>5 DEF ThrottleHolds
  <2> QED BY <2>4, <2>5
<1> QED BY <1>8, <1>9, <1>11, <1>12

(* Every step answers exactly the calls it takes off the waiting ones: the *)
(* reply port of a CALL is used once.                                      *)
LEMMA WaitKeeps ==
  ASSUME MapTypes, PlainTypes, WaitingSound, WaitStep
  PROVE  /\ WaitingSound'
         /\ \A k \in DOMAIN pending' : k \in Key /\ pending'[k] \in PendingDebounce
         /\ asked' \in [Call -> 0..MaxAsk] /\ told' \in [Call -> 0..MaxAsk]
<1> DEFINE Kept == /\ WaitingSound'
                   /\ \A k \in DOMAIN pending' : k \in Key /\ pending'[k] \in PendingDebounce
                   /\ asked' \in [Call -> 0..MaxAsk] /\ told' \in [Call -> 0..MaxAsk]
<1> USE Bounds
<1>0. /\ asked \in [Call -> 0..MaxAsk] /\ told \in [Call -> 0..MaxAsk]
      /\ \A c \in Call : asked[c] = told[c] + (IF Waits(c) THEN 1 ELSE 0)
  BY DEF PlainTypes, WaitingSound
<1>t. ASSUME NEW C, Tell(C)
      PROVE  told' \in [Call -> Nat]
             /\ \A c \in Call : told'[c] = IF c \in C THEN told[c] + 1 ELSE told[c]
  BY <1>0, <1>t DEF Tell
<1>1. ASSUME Quiet PROVE Kept
  <2>1. UNCHANGED <<pending, asked, told>>
    BY <1>1 DEF Quiet
  <2>2. WaitingSound'
    BY <2>1 DEF WaitStep, Stay, WaitingSound, Waits
  <2> QED BY <1>0, <2>1, <2>2 DEF MapTypes
<1>2. ASSUME NEW c \in Call, Answered(c) PROVE Kept
  <2>1. /\ pending' = pending /\ asked' = [asked EXCEPT ![c] = @ + 1] /\ asked[c] < MaxAsk
        /\ told[c] = asked[c] /\ Tell({c})
    BY <1>2 DEF Answered
  <2>2. \A d \in Call : /\ told'[d] = IF d = c THEN told[d] + 1 ELSE told[d]
                        /\ asked'[d] = IF d = c THEN asked[d] + 1 ELSE asked[d]
    BY <1>0, <1>t, <2>1
  <2>3. \A d \in Call : asked'[d] = told'[d] + (IF Waits(d) THEN 1 ELSE 0)
    BY <1>0, <2>2
  <2>4. WaitingSound'
    BY <2>1, <2>3 DEF WaitStep, Stay, WaitingSound, Waits
  <2>5. asked' \in [Call -> 0..MaxAsk]
    BY <1>0, <2>1
  <2>6. told' \in [Call -> 0..MaxAsk]
    <3>1. \A d \in Call : told'[d] \in 0..MaxAsk
      BY <1>0, <2>1, <2>2
    <3> QED BY <1>t, <2>1, <3>1
  <2> QED BY <2>1, <2>4, <2>5, <2>6 DEF MapTypes
<1>3. ASSUME NEW S, Leaves(S) PROVE Kept
  <2> DEFINE C == {pending[k].call : k \in S \cap DOMAIN pending}
  <2>1. /\ DOMAIN pending' = DOMAIN pending \ S
        /\ \A k \in DOMAIN pending' : pending'[k] = pending[k]
        /\ Tell(C) /\ asked' = asked
    BY <1>3 DEF Leaves
  <2>2. \A c \in Call : told'[c] = IF c \in C THEN told[c] + 1 ELSE told[c]
    <3> HIDE DEF C
    <3> QED BY <1>t, <2>1
  <2>3. ASSUME NEW c \in Call
        PROVE  /\ asked'[c] = told'[c] + (IF Waits(c)' THEN 1 ELSE 0)
               /\ told'[c] \in 0..MaxAsk
    <3>1. CASE c \in C
      <4>1. Waits(c) /\ ~Waits(c)'
        BY <2>1, <3>1 DEF Waits, WaitingSound
      <4> QED BY <1>0, <2>1, <2>2, <3>1, <4>1
    <3>2. CASE c \notin C
      <4>1. Waits(c)' <=> Waits(c)
        BY <2>1, <3>2 DEF Waits
      <4>2. (IF Waits(c)' THEN 1 ELSE 0) = (IF Waits(c) THEN 1 ELSE 0)
        BY <4>1
      <4> QED BY <1>0, <2>1, <2>2, <3>2, <4>2
    <3> QED BY <3>1, <3>2
  <2>4. told' \in [Call -> 0..MaxAsk]
    <3> HIDE DEF C
    <3> QED BY <1>t, <2>1, <2>3
  <2>5. WaitingSound'
    <3>1. \A k \in DOMAIN pending' : k \in DOMAIN pending
      BY <2>1
    <3> HIDE DEF C
    <3>2. \A k \in DOMAIN pending' : /\ k[1] = reg' /\ callees' # {}
                                     /\ CallerOf[pending'[k].call] \in open'
                                     /\ pending'[k].fireAt <= pending'[k].expiresAt
      BY <2>1, <3>1 DEF WaitStep, Stay, WaitingSound
    <3>3. \A k, l \in DOMAIN pending' : pending'[k].call = pending'[l].call => k = l
      BY <2>1, <3>1 DEF WaitingSound
    <3> QED BY <2>3, <3>2, <3>3 DEF WaitingSound
  <2> QED BY <1>0, <2>1, <2>4, <2>5 DEF MapTypes
<1>4. ASSUME NEW c \in Call, NEW k, NEW v, Enters(c, k, v) PROVE Kept
  <2> DEFINE C == IF k \in DOMAIN pending THEN {pending[k].call} ELSE {}
  <2>1. /\ asked' = [asked EXCEPT ![c] = @ + 1] /\ asked[c] < MaxAsk /\ told[c] = asked[c]
        /\ Tell(C) /\ pending' = With(pending, k, v) /\ k \in Key /\ k[1] = reg
        /\ v \in PendingDebounce /\ v.call = c /\ v.fireAt <= v.expiresAt
        /\ CallerOf[c] \in open /\ UNCHANGED <<open, reg, callees>> /\ callees # {}
    BY <1>4 DEF Enters
  <2>2. /\ DOMAIN pending' = DOMAIN pending \cup {k} /\ pending'[k] = v
        /\ \A l \in DOMAIN pending : l # k => pending'[l] = pending[l]
    BY <2>1 DEF With
  <2>3. ~Waits(c)
    BY <1>0, <2>1
  <2>4. \A d \in Call : /\ told'[d] = IF d \in C THEN told[d] + 1 ELSE told[d]
                        /\ asked'[d] = IF d = c THEN asked[d] + 1 ELSE asked[d]
    <3> HIDE DEF C
    <3> QED BY <1>0, <1>t, <2>1
  <2>5. ASSUME NEW d \in Call
        PROVE  /\ asked'[d] = told'[d] + (IF Waits(d)' THEN 1 ELSE 0)
               /\ told'[d] \in 0..MaxAsk
    <3>1. CASE d = c
      <4>1. d \notin C
        BY <2>3, <3>1 DEF Waits
      <4>2. Waits(d)'
        BY <2>1, <2>2, <3>1 DEF Waits
      <4> QED BY <1>0, <2>1, <2>4, <3>1, <4>1, <4>2
    <3>2. CASE d # c /\ d \in C
      <4>1. Waits(d)
        BY <3>2 DEF Waits
      <4>2. ~Waits(d)'
        <5>1. \A l \in DOMAIN pending : pending[l].call = d => l = k
          BY <3>2 DEF WaitingSound
        <5> QED BY <2>1, <2>2, <3>2, <5>1 DEF Waits
      <4> QED BY <1>0, <2>4, <3>2, <4>1, <4>2
    <3>3. CASE d # c /\ d \notin C
      <4>1. Waits(d)' <=> Waits(d)
        <5>1. ASSUME NEW l \in DOMAIN pending, pending[l].call = d PROVE Waits(d)'
          <6>1. l # k
            BY <3>3, <5>1
          <6> QED BY <2>2, <5>1, <6>1 DEF Waits
        <5>2. ASSUME NEW l \in DOMAIN pending', pending'[l].call = d PROVE Waits(d)
          BY <2>1, <2>2, <3>3, <5>2 DEF Waits
        <5> QED BY <5>1, <5>2 DEF Waits
      <4>2. (IF Waits(d)' THEN 1 ELSE 0) = (IF Waits(d) THEN 1 ELSE 0)
        BY <4>1
      <4> QED BY <1>0, <2>4, <3>3, <4>2
    <3> QED BY <3>1, <3>2, <3>3
  <2> HIDE DEF C
  <2>6. told' \in [Call -> 0..MaxAsk]
    BY <1>t, <2>1, <2>5
  <2>7. asked' \in [Call -> 0..MaxAsk]
    BY <1>0, <2>1
  <2>8. WaitingSound'
    <3>1. \A l \in DOMAIN pending' : /\ l[1] = reg' /\ callees' # {}
                                     /\ CallerOf[pending'[l].call] \in open'
                                     /\ pending'[l].fireAt <= pending'[l].expiresAt
      BY <2>1, <2>2 DEF WaitingSound
    <3>2. \A l, m \in DOMAIN pending' : pending'[l].call = pending'[m].call => l = m
      BY <2>1, <2>2, <2>3 DEF WaitingSound, Waits
    <3> QED BY <2>5, <3>1, <3>2 DEF WaitingSound
  <2>9. \A l \in DOMAIN pending' : l \in Key /\ pending'[l] \in PendingDebounce
    BY <2>1, <2>2 DEF MapTypes
  <2> QED BY <2>6, <2>7, <2>8, <2>9
<1> QED BY <1>1, <1>2, <1>3, <1>4 DEF WaitStep

(* The entries of registration r among some keys; sets of keys that fit    *)
(* the capacities, and leave room for one more of registration r.          *)
CountOf(S, r) == Cardinality({k \in S : k[1] = r})
Fits(L, P) ==
    /\ IsFiniteSet(L) /\ IsFiniteSet(P) /\ Cardinality(L) + Cardinality(P) <= Global
    /\ \A r \in 1..MaxReg : CountOf(L, r) + CountOf(P, r) <= Capacity
Room(L, P, r) ==
    /\ ~(CountOf(L, r) + CountOf(P, r) >= Capacity)
    /\ ~(Cardinality(L) + Cardinality(P) >= Global)

(* The capacities, in terms of the keys of the two maps.                   *)
LEMMA FitsIs == Countable /\ WithinCapacity <=> Fits(DOMAIN leases, DOMAIN pending)
  BY DEF Countable, WithinCapacity, Entries, EntriesOf, Fits, CountOf

(* _ensureRetryDeduplicationCapacity, likewise.                            *)
LEMMA RoomIs == ASSUME NEW held PROVE ~Full(held) <=> Room(DOMAIN held, DOMAIN pending, reg)
  BY DEF Full, Entries, EntriesOf, Room, CountOf

(* Fewer keys, fewer entries, of every registration.                       *)
LEMMA FewerEntries ==
  ASSUME NEW D, IsFiniteSet(D), NEW E, E \subseteq D, NEW r
  PROVE  /\ IsFiniteSet(E) /\ Cardinality(E) \in Nat /\ Cardinality(D) \in Nat
         /\ Cardinality(E) <= Cardinality(D)
         /\ CountOf(E, r) \in Nat /\ CountOf(D, r) \in Nat /\ CountOf(E, r) <= CountOf(D, r)
<1> DEFINE Of(S) == {k \in S : k[1] = r}
<1>1. /\ IsFiniteSet(E) /\ Cardinality(E) <= Cardinality(D)
      /\ Cardinality(E) \in Nat /\ Cardinality(D) \in Nat
  BY FS_Subset, FS_CardinalityType
<1>2. Of(E) \subseteq Of(D) /\ Of(D) \subseteq D
  OBVIOUS
<1>c. CountOf(E, r) = Cardinality(Of(E)) /\ CountOf(D, r) = Cardinality(Of(D))
  BY DEF CountOf
<1> HIDE DEF Of
<1>3. IsFiniteSet(Of(D)) /\ Cardinality(Of(D)) \in Nat
  BY <1>2, FS_Subset, FS_CardinalityType
<1>4. IsFiniteSet(Of(E)) /\ Cardinality(Of(E)) \in Nat /\ Cardinality(Of(E)) <= Cardinality(Of(D))
  BY <1>2, <1>3, FS_Subset, FS_CardinalityType
<1> QED BY <1>1, <1>3, <1>4, <1>c

(* One key more is at most one entry more, and one of its own              *)
(* registration.                                                           *)
LEMMA OneMoreEntry ==
  ASSUME NEW D, IsFiniteSet(D), NEW x, NEW r
  PROVE  /\ IsFiniteSet(D \cup {x}) /\ Cardinality(D \cup {x}) <= Cardinality(D) + 1
         /\ Cardinality(D \cup {x}) \in Nat /\ Cardinality(D) \in Nat
         /\ CountOf(D \cup {x}, r) \in Nat /\ CountOf(D, r) \in Nat
         /\ CountOf(D \cup {x}, r) <= CountOf(D, r) + 1
         /\ x[1] # r => CountOf(D \cup {x}, r) = CountOf(D, r)
<1> DEFINE Of(S) == {k \in S : k[1] = r}
<1>1. /\ IsFiniteSet(D \cup {x}) /\ Cardinality(D \cup {x}) <= Cardinality(D) + 1
      /\ Cardinality(D \cup {x}) \in Nat /\ Cardinality(D) \in Nat
  BY FS_AddElement, FS_CardinalityType
<1>2. Of(D) \subseteq D
  OBVIOUS
<1>3. x[1] # r => Of(D \cup {x}) = Of(D)
  OBVIOUS
<1>4. x[1] = r => Of(D \cup {x}) = Of(D) \cup {x}
  OBVIOUS
<1>c. CountOf(D, r) = Cardinality(Of(D)) /\ CountOf(D \cup {x}, r) = Cardinality(Of(D \cup {x}))
  BY DEF CountOf
<1> HIDE DEF Of
<1>5. IsFiniteSet(Of(D)) /\ Cardinality(Of(D)) \in Nat
  BY <1>2, FS_Subset, FS_CardinalityType
<1>6. /\ Cardinality(Of(D) \cup {x}) <= Cardinality(Of(D)) + 1
      /\ Cardinality(Of(D) \cup {x}) \in Nat
  <2> DEFINE D1 == Of(D)
  <2>1. IsFiniteSet(D1) /\ Cardinality(D1) \in Nat
    BY <1>5
  <2> HIDE DEF D1
  <2>2. IsFiniteSet(D1 \cup {x})
        /\ Cardinality(D1 \cup {x}) = IF x \in D1 THEN Cardinality(D1) ELSE Cardinality(D1) + 1
    BY <2>1, FS_AddElement
  <2> QED BY <2>1, <2>2 DEF D1
<1>7. /\ Cardinality(Of(D \cup {x})) \in Nat
      /\ Cardinality(Of(D \cup {x})) <= Cardinality(Of(D)) + 1
      /\ x[1] # r => Cardinality(Of(D \cup {x})) = Cardinality(Of(D))
  BY <1>3, <1>4, <1>5, <1>6
<1> QED BY <1>1, <1>5, <1>7, <1>c

(* What fits still fits with fewer keys.                                   *)
LEMMA FitsFewer ==
  ASSUME NEW L, NEW P, Fits(L, P), NEW M, M \subseteq L, NEW Q, Q \subseteq P
  PROVE  Fits(M, Q)
<1> USE Bounds
<1>1. \A r : /\ IsFiniteSet(M) /\ Cardinality(M) \in Nat /\ Cardinality(L) \in Nat
             /\ Cardinality(M) <= Cardinality(L)
             /\ CountOf(M, r) \in Nat /\ CountOf(L, r) \in Nat /\ CountOf(M, r) <= CountOf(L, r)
  BY FewerEntries DEF Fits
<1>2. \A r : /\ IsFiniteSet(Q) /\ Cardinality(Q) \in Nat /\ Cardinality(P) \in Nat
             /\ Cardinality(Q) <= Cardinality(P)
             /\ CountOf(Q, r) \in Nat /\ CountOf(P, r) \in Nat /\ CountOf(Q, r) <= CountOf(P, r)
  BY FewerEntries DEF Fits
<1> QED BY <1>1, <1>2 DEF Fits

(* With room, one key more fits, on either side.                           *)
LEMMA FitsMore ==
  ASSUME NEW L, NEW P, Fits(L, P), NEW x, Room(L, P, x[1])
  PROVE  Fits(L \cup {x}, P) /\ Fits(L, P \cup {x})
<1> USE Bounds
<1>1. \A r : /\ IsFiniteSet(L \cup {x}) /\ Cardinality(L \cup {x}) <= Cardinality(L) + 1
             /\ Cardinality(L \cup {x}) \in Nat /\ Cardinality(L) \in Nat
             /\ CountOf(L \cup {x}, r) \in Nat /\ CountOf(L, r) \in Nat
             /\ CountOf(L \cup {x}, r) <= CountOf(L, r) + 1
             /\ x[1] # r => CountOf(L \cup {x}, r) = CountOf(L, r)
  BY OneMoreEntry DEF Fits
<1>2. \A r : /\ IsFiniteSet(P \cup {x}) /\ Cardinality(P \cup {x}) <= Cardinality(P) + 1
             /\ Cardinality(P \cup {x}) \in Nat /\ Cardinality(P) \in Nat
             /\ CountOf(P \cup {x}, r) \in Nat /\ CountOf(P, r) \in Nat
             /\ CountOf(P \cup {x}, r) <= CountOf(P, r) + 1
             /\ x[1] # r => CountOf(P \cup {x}, r) = CountOf(P, r)
  BY OneMoreEntry DEF Fits
<1>3. Fits(L \cup {x}, P)
  BY <1>1, <1>2 DEF Fits, Room
<1>4. Fits(L, P \cup {x})
  BY <1>1, <1>2 DEF Fits, Room
<1> QED BY <1>3, <1>4

(* Every step keeps leases and waiting calls within the capacities.        *)
LEMMA CountsKeep ==
  ASSUME Countable, WithinCapacity, LeaseStep, WaitStep
  PROVE  Countable' /\ WithinCapacity'
<1>0. Fits(DOMAIN leases, DOMAIN pending)
  BY FitsIs
<1> SUFFICES Fits(DOMAIN leases', DOMAIN pending')
  BY DEF Countable, WithinCapacity, Entries, EntriesOf, Fits, CountOf
<1>1. CASE DOMAIN leases' \subseteq DOMAIN leases /\ DOMAIN pending' \subseteq DOMAIN pending
  BY <1>0, <1>1, FitsFewer
<1>2. ASSUME NEW k, Takes(k) PROVE Fits(DOMAIN leases', DOMAIN pending')
  <2>1. /\ leases' = With(ReapedLeases, k, [inv |-> nextInv, expiresAt |-> now + Expiry])
        /\ k[1] = reg /\ ~Full(ReapedLeases) /\ pending' = pending
    BY <1>2 DEF Takes
  <2>2. DOMAIN leases' = DOMAIN ReapedLeases \cup {k}
    BY <2>1 DEF With
  <2>3. DOMAIN ReapedLeases \subseteq DOMAIN leases
    BY WithoutIs DEF ReapedLeases
  <2>4. Fits(DOMAIN ReapedLeases, DOMAIN pending)
    BY <1>0, <2>3, FitsFewer
  <2>5. Room(DOMAIN ReapedLeases, DOMAIN pending, k[1])
    BY <2>1, RoomIs
  <2>6. Fits(DOMAIN ReapedLeases \cup {k}, DOMAIN pending)
    BY <2>4, <2>5, FitsMore
  <2> QED BY <2>1, <2>2, <2>6
<1>3. ASSUME NEW c, NEW k, NEW v, Enters(c, k, v) PROVE Fits(DOMAIN leases', DOMAIN pending')
  <2>1. /\ pending' = With(pending, k, v) /\ DOMAIN leases' \subseteq DOMAIN leases
        /\ k[1] = reg /\ (k \in DOMAIN pending \/ ~Full(leases'))
    BY <1>3 DEF Enters
  <2>2. DOMAIN pending' = DOMAIN pending \cup {k}
    BY <2>1 DEF With
  <2>3. CASE k \in DOMAIN pending
    BY <1>1, <2>1, <2>2, <2>3
  <2>4. CASE ~Full(leases')
    <3>1. Fits(DOMAIN leases', DOMAIN pending)
      BY <1>0, <2>1, FitsFewer
    <3>2. Room(DOMAIN leases', DOMAIN pending, k[1])
      BY <2>1, <2>4 DEF Full, Entries, EntriesOf, Room, CountOf
    <3>3. Fits(DOMAIN leases', DOMAIN pending \cup {k})
      BY <3>1, <3>2, FitsMore
    <3> QED BY <2>2, <3>3
  <2> QED BY <2>1, <2>3, <2>4
<1>4. CASE \E K, I : Drops(K, I)
  <2>1. DOMAIN leases' \subseteq DOMAIN leases
    BY <1>4 DEF Drops
  <2>2. CASE Quiet \/ (\E c \in Call : Answered(c)) \/ (\E S : Leaves(S))
    <3>1. DOMAIN pending' \subseteq DOMAIN pending
      BY <2>2 DEF Quiet, Answered, Leaves
    <3> QED BY <1>1, <2>1, <3>1
  <2> QED BY <1>3, <2>2 DEF WaitStep
<1> QED BY <1>2, <1>4 DEF LeaseStep

(* Every step keeps the types of the lease maps.                           *)
LEMMA MapsKeep ==
  ASSUME MapTypes, StoreInv, now \in Nat, LeaseStep
  PROVE  /\ \A k \in DOMAIN leases' : k \in Key /\ leases'[k] \in Lease
         /\ \A i \in DOMAIN keyOf' : i \in InvId /\ keyOf'[i] \in Key
         /\ DOMAIN born' \subseteq InvId
<1>1. ASSUME NEW K, NEW I, Drops(K, I)
      PROVE  /\ \A k \in DOMAIN leases' : k \in Key /\ leases'[k] \in Lease
             /\ \A i \in DOMAIN keyOf' : i \in InvId /\ keyOf'[i] \in Key
             /\ DOMAIN born' \subseteq InvId
  BY <1>1 DEF Drops, MapTypes
<1>2. ASSUME NEW k, Takes(k)
      PROVE  /\ \A l \in DOMAIN leases' : l \in Key /\ leases'[l] \in Lease
             /\ \A i \in DOMAIN keyOf' : i \in InvId /\ keyOf'[i] \in Key
             /\ DOMAIN born' \subseteq InvId
  <2> DEFINE new == [inv |-> nextInv, expiresAt |-> now + Expiry]
             made == [key |-> k, at |-> now]
             ids == {leases[l].inv : l \in Expired}
  <2>1. new \in Lease /\ nextInv \in InvId /\ k \in Key
    <3>1. now + Expiry \in Nat
      BY Bounds
    <3> QED BY <1>2, <3>1 DEF Takes, Lease
  <2>2. /\ leases' = With(ReapedLeases, k, new) /\ keyOf' = With(ReapedKeys, nextInv, k)
        /\ born' = With(born, nextInv, made)
        /\ ReapedLeases = Without(leases, Expired) /\ ReapedKeys = Without(keyOf, ids)
    BY <1>2 DEF Takes, ReapedLeases, ReapedKeys
  <2> HIDE DEF new, made, ids
  <2>3. \A l \in DOMAIN leases' : \/ l = k /\ leases'[l] = new
                                  \/ l \in DOMAIN leases /\ leases'[l] = leases[l]
    <3>1. /\ DOMAIN ReapedLeases = DOMAIN leases \ Expired
          /\ \A l \in DOMAIN leases \ Expired : ReapedLeases[l] = leases[l]
      BY <2>2, WithoutIs
    <3>2. /\ DOMAIN leases' = DOMAIN ReapedLeases \cup {k} /\ leases'[k] = new
          /\ \A l \in DOMAIN ReapedLeases : l # k => leases'[l] = ReapedLeases[l]
      BY <2>2 DEF With
    <3> QED BY <3>1, <3>2
  <2>4. \A i \in DOMAIN keyOf' : \/ i = nextInv /\ keyOf'[i] = k
                                 \/ i \in DOMAIN keyOf /\ keyOf'[i] = keyOf[i]
    <3>1. /\ DOMAIN ReapedKeys = DOMAIN keyOf \ ids
          /\ \A i \in DOMAIN keyOf \ ids : ReapedKeys[i] = keyOf[i]
      BY <2>2, WithoutIs
    <3>2. /\ DOMAIN keyOf' = DOMAIN ReapedKeys \cup {nextInv} /\ keyOf'[nextInv] = k
          /\ \A i \in DOMAIN ReapedKeys : i # nextInv => keyOf'[i] = ReapedKeys[i]
      BY <2>2 DEF With
    <3> QED BY <3>1, <3>2
  <2>5. DOMAIN born' = DOMAIN born \cup {nextInv}
    BY <2>2 DEF With
  <2> QED BY <2>1, <2>3, <2>4, <2>5 DEF MapTypes
<1> QED BY <1>1, <1>2 DEF LeaseStep

(* The invariant holds of a new store.                                     *)
LEMMA DedupInit == Init => DedupInv
<1> SUFFICES ASSUME Init PROVE DedupInv
  OBVIOUS
<1> USE Bounds DEF Init
<1>1. StoreInv /\ StoreTypeOK
  BY StoreInvInit DEF StoreInv
<1>2. DOMAIN leases = {} /\ DOMAIN keyOf = {} /\ DOMAIN pending = {} /\ DOMAIN born = {}
  OBVIOUS
<1>3. MapTypes /\ PlainTypes
  BY <1>2 DEF MapTypes, PlainTypes, Time
<1>4. Registered /\ LeasesAgree /\ BornEarlier /\ LeaseKept /\ ThrottleHolds
  BY <1>2 DEF Registered, StoreInit, LeasesAgree, BornEarlier, LeaseKept, ThrottleHolds
<1>5. WaitingSound
  <2>1. \A c \in Call : ~Waits(c)
    BY <1>2 DEF Waits
  <2>2. \A c \in Call : asked[c] = 0 /\ told[c] = 0
    OBVIOUS
  <2> QED BY <1>2, <2>1, <2>2 DEF WaitingSound
<1>6. Countable /\ WithinCapacity
  <2>1. Fits({}, {})
    <3>1. \A r : {k \in {} : k[1] = r} = {}
      OBVIOUS
    <3> QED BY <3>1, FS_EmptySet DEF Fits, CountOf
  <2> QED BY <1>2, <2>1, FitsIs
<1> QED BY <1>1, <1>3, <1>4, <1>5, <1>6, TypeParts DEF DedupInv

(* Every step of the store preserves it.                                   *)
LEMMA DedupStep == DedupInv /\ [Next]_vars => DedupInv'
<1> SUFFICES ASSUME DedupInv, [Next]_vars PROVE DedupInv'
  OBVIOUS
<1>0. /\ TypeOK /\ StoreTypeOK /\ MapTypes /\ PlainTypes /\ StoreInv /\ Registered /\ Countable
      /\ LeasesAgree /\ WithinCapacity /\ WaitingSound
      /\ BornEarlier /\ LeaseKept /\ ThrottleHolds
  BY TypeParts DEF DedupInv
<1>1. CASE UNCHANGED vars
  <2>1. /\ UNCHANGED <<open, callees, live, inv, timers, nextInv>>
        /\ UNCHANGED <<reg, policy, leases, keyOf, pending, now, asked, told, born>>
    BY <1>1 DEF vars, storeVars, dedupVars
  <2>2. TypeOK' /\ StoreInv'
    <3>1. StoreInv'
      BY <1>0, <2>1, StoreInvStep DEF storeVars
    <3>2. StoreTypeOK' 
      BY <3>1 DEF StoreInv
    <3> QED BY <1>0, <2>1, <3>1, <3>2 DEF TypeOK
  <2>3. Registered' /\ Countable' /\ LeasesAgree' /\ WithinCapacity'
    BY <1>0, <2>1 DEF Registered, Countable, LeasesAgree, WithinCapacity, Entries, EntriesOf
  <2>4. WaitingSound' /\ BornEarlier'
    BY <1>0, <2>1 DEF WaitingSound, Waits, BornEarlier
  <2>5. LeaseKept' /\ ThrottleHolds'
    BY <1>0, <2>1 DEF LeaseKept, Holds, Cleared, ThrottleHolds
  <2> QED BY <2>2, <2>3, <2>4, <2>5 DEF DedupInv
<1>2. CASE Next
  <2>1. StoreStep /\ LeaseStep /\ WaitStep /\ OtherStep
    BY <1>0, <1>2, Steps DEF Sound, Good
  <2>2. now \in Nat /\ reg \in Nat
    BY <1>0, Bounds DEF PlainTypes, Time
  <2>3. StoreInv' /\ StoreTypeOK'
    BY <1>0, <2>1, StoreKept DEF StoreInv
  <2>4. Registered'
    BY <1>0, <2>1, <2>2, RegisteredStep
  <2>5. Countable' /\ WithinCapacity'
    BY <1>0, <2>1, CountsKeep
  <2>6. /\ WaitingSound'
        /\ \A k \in DOMAIN pending' : k \in Key /\ pending'[k] \in PendingDebounce
        /\ asked' \in [Call -> 0..MaxAsk] /\ told' \in [Call -> 0..MaxAsk]
    BY <1>0, <2>1, WaitKeeps
  <2>7. MapTypes'
    BY <1>0, <2>1, <2>2, <2>6, MapsKeep DEF MapTypes
  <2>8. PlainTypes'
    BY <2>1, <2>6 DEF PlainTypes, OtherStep
  <2>9. LeasesAgree' /\ BornEarlier' /\ LeaseKept' /\ ThrottleHolds'
    <3>1. CASE \E K, I : Drops(K, I)
      BY <1>0, <2>1, <2>2, <3>1, DropsKeep
    <3>2. CASE \E k : Takes(k)
      BY <1>0, <2>1, <2>2, <3>2, TakesKeep DEF Takes
    <3> QED BY <2>1, <3>1, <3>2 DEF LeaseStep
  <2>10. TypeOK'
    BY <2>3, <2>7, <2>8, TypeParts DEF TypeOK, MapTypes, PlainTypes, Range
  <2> QED BY <2>3, <2>4, <2>5, <2>6, <2>9, <2>10 DEF DedupInv
<1> QED BY <1>1, <1>2

(* It holds in every reachable state.                                      *)
LEMMA DedupHolds == Spec => []DedupInv
  BY DedupInit, DedupStep, PTL DEF Spec

(* The store's books about repeated calls are right, whatever callers,     *)
(* callees and timers do and for any capacities: the two lease maps agree  *)
(* with each other and with the pending invocations, leases and debounced  *)
(* calls fit the capacities, and every CALL has been answered once or      *)
(* waits in one place (_handleInvocationDispatch).                         *)
THEOREM RepeatedCallsAccounted == Spec => []DedupConsistent
<1>1. ASSUME DedupInv PROVE DedupConsistent
  <2>1. TypeOK /\ LeasesAgree /\ WithinCapacity /\ WaitingSound /\ PlainTypes
    BY <1>1, TypeParts DEF DedupInv
  <2>2. AnsweredOnce
    <3> SUFFICES ASSUME NEW c \in Call
                 PROVE  LET keys == {k \in DOMAIN pending : pending[k].call = c} IN
                        /\ asked[c] = told[c] + Cardinality(keys)
                        /\ \A k \in keys : CallerOf[c] \in open /\ callees # {} /\ k[1] = reg
      BY DEF AnsweredOnce
    <3> DEFINE keys == {k \in DOMAIN pending : pending[k].call = c}
    <3>1. Cardinality(keys) = IF Waits(c) THEN 1 ELSE 0
      <4>1. CASE Waits(c)
        <5>1. PICK k \in DOMAIN pending : pending[k].call = c
          BY <4>1 DEF Waits
        <5>2. keys = {k}
          BY <2>1, <5>1 DEF WaitingSound
        <5>3. Cardinality({k}) = 1
          BY FS_Singleton
        <5> QED BY <4>1, <5>2, <5>3
      <4>2. CASE ~Waits(c)
        <5>1. keys = {}
          BY <4>2 DEF Waits
        <5> QED BY <4>2, <5>1, FS_EmptySet
      <4> QED BY <4>1, <4>2
    <3>2. asked[c] = told[c] + Cardinality(keys)
      <4> HIDE DEF keys
      <4> QED BY <2>1, <3>1 DEF WaitingSound
    <3>3. \A k \in keys : CallerOf[c] \in open /\ callees # {} /\ k[1] = reg
      BY <2>1 DEF WaitingSound
    <3> QED BY <3>2, <3>3
  <2> QED BY <2>1, <2>2 DEF DedupConsistent
<1> QED BY <1>1, DedupHolds, PTL

(* A throttled hash has two pending invocations only when the first had    *)
(* been pending for the policy's whole expiry, through every order of      *)
(* completion, kill, timeout, unregistration and close                     *)
(* (_RetryThrottleLease).                                                  *)
THEOREM ThrottleAlwaysHolds == Spec => []ThrottleHolds
<1>1. DedupInv => ThrottleHolds
  BY DEF DedupInv
<1> QED BY <1>1, DedupHolds, PTL

(* No retry postpones a debounced call beyond the deadline its first CALL  *)
(* set (_handleInvocationDispatch).                                        *)
THEOREM DeadlineAlwaysKept == Spec => DeadlineKept
<1> DEFINE Kept == \A k \in DOMAIN pending \cap DOMAIN pending' :
                     pending'[k].fireAt <= pending[k].expiresAt
<1>1. ASSUME DedupInv, [Next]_vars PROVE [Kept]_vars
  <2>1. WaitingSound /\ MapTypes
    BY <1>1, TypeParts DEF DedupInv
  <2>2. CASE UNCHANGED vars
    BY <2>2
  <2>3. CASE Next
    <3>1. WaitStep
      BY <1>1, <2>3, Steps DEF Sound, Good, DedupInv
    <3>2. CASE Quiet \/ (\E c \in Call : Answered(c)) \/ (\E S : Leaves(S))
      <4>1. \A k \in DOMAIN pending \cap DOMAIN pending' : pending'[k] = pending[k]
        BY <3>2 DEF Quiet, Answered, Leaves
      <4> QED BY <2>1, <4>1 DEF WaitingSound
    <3>3. ASSUME NEW c \in Call, NEW l, NEW v, Enters(c, l, v) PROVE Kept
      <4>1. /\ \A k \in DOMAIN pending : k # l => pending'[k] = pending[k]
            /\ pending'[l] = v /\ v.fireAt <= v.expiresAt
            /\ l \in DOMAIN pending => v.expiresAt = pending[l].expiresAt
        BY <3>3 DEF Enters, With
      <4> QED BY <2>1, <4>1 DEF WaitingSound
    <3> QED BY <3>1, <3>2, <3>3 DEF WaitStep
  <2> QED BY <1>1, <2>2, <2>3
<1>2. DedupInv /\ [Next]_vars => [Kept]_vars
  BY <1>1
<1> QED BY <1>2, DedupHolds, PTL DEF Spec, DeadlineKept

=============================================================================
