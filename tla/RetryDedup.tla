----------------------------- MODULE RetryDedup -----------------------------
(***************************************************************************)
(* Retry deduplication (store.dart, _handleInvocationDispatch): what the   *)
(* store does with a CALL that carries a transaction hash before it is     *)
(* dispatched.  A registration throttles (a hash whose invocation is still *)
(* pending is refused, by a lease that ends with the invocation or         *)
(* expires) or debounces (a call waits until no other call with its hash   *)
(* came for a while, or until the first one's expiry; a newer call         *)
(* replaces it).                                                           *)
(*                                                                         *)
(* Every action is one store command or timer callback.  The procedure of  *)
(* Invocations gets its registration id and policy back here, and time: a  *)
(* timer fires at some moment after it is due.                             *)
(***************************************************************************)
EXTENDS Invocations, FiniteSets, Functions

CONSTANTS Hash,      (* transaction hashes                                   *)
          NoHash,    (* a CALL without one                                   *)
          HashOf,    (* the transaction_hash option of each call             *)
          Policies,  (* auto_deduplication settings the callees ask for      *)
          Capacity,  (* policy.capacity                                      *)
          Global,    (* _maxGlobalRetryDeduplicationEntries                  *)
          Expiry,    (* policy.expiry                                        *)
          Debounce,  (* policy.debounce                                      *)
          MaxReg,    (* bound: registration ids                              *)
          MaxAsk,    (* bound: CALLs (chunks) per call                       *)
          LastAsk    (* bound: the time of the last CALL                     *)

ASSUME DedupAssumption ==
    /\ NoHash \notin Hash
    /\ HashOf \in [Call -> Hash \cup {NoHash}]
    /\ Policies \subseteq {"none", "throttle", "debounce"}
    /\ Capacity \in Nat \ {0} /\ Global \in Nat \ {0}
    /\ Expiry \in Nat \ {0} /\ Debounce \in Nat
    /\ MaxReg \in Nat /\ MaxAsk \in Nat /\ LastAsk \in Nat

VARIABLES reg,      (* entry.registrationId, of the last entry made          *)
          policy,   (* its retry deduplication                               *)
          leases,   (* _retryThrottleLeases                                  *)
          keyOf,    (* _retryThrottleKeysByInvocation                        *)
          pending,  (* _pendingRetryDebounces                                *)
          now,      (* the clock                                             *)
          asked,    (* dispatch commands sent for a call                     *)
          told,     (* how often the reply port of a call was answered       *)
          born      (* history: key and time of throttled invocations        *)

dedupVars == <<reg, policy, leases, keyOf, pending, now, asked, told, born>>
vars == <<storeVars, dedupVars>>

Key == (1..MaxReg) \X Hash
Time == 0..(LastAsk + Expiry)

Lease == [inv : InvId, expiresAt : Nat]
PendingDebounce == [call : Call, more : BOOLEAN, expiresAt : Nat, fireAt : Nat]

TypeOK ==
    /\ StoreTypeOK
    /\ reg \in 0..MaxReg
    /\ policy \in Policies \cup {"none"}
    /\ DOMAIN leases \subseteq Key /\ Range(leases) \subseteq Lease
    /\ DOMAIN keyOf \subseteq InvId /\ Range(keyOf) \subseteq Key
    /\ DOMAIN pending \subseteq Key /\ Range(pending) \subseteq PendingDebounce
    /\ now \in Time
    /\ asked \in [Call -> 0..MaxAsk]
    /\ told \in [Call -> 0..MaxAsk]
    /\ DOMAIN born \subseteq InvId

Init ==
    /\ StoreInit
    /\ reg = 0 /\ policy = "none"
    /\ leases = <<>> /\ keyOf = <<>> /\ pending = <<>>
    /\ now = 0
    /\ asked = [c \in Call |-> 0]
    /\ told = [c \in Call |-> 0]
    /\ born = <<>>

Without(f, S) == Restrict(f, DOMAIN f \ S)
With(f, x, v) == [y \in DOMAIN f \cup {x} |-> IF y = x THEN v ELSE f[y]]

Tell(C) == told' = [c \in Call |-> IF c \in C THEN told[c] + 1 ELSE told[c]]
-----------------------------------------------------------------------------
(* Mutant of Expired: a tick too early. *)
ExpiredEarly == {k \in DOMAIN leases : leases[k].expiresAt <= now + 1}

(* _reapExpiredRetryThrottleLeases: what is left of the two maps. *)
Expired == {k \in DOMAIN leases : leases[k].expiresAt <= now}
ReapedLeases == Without(leases, Expired)
ReapedKeys == Without(keyOf, {leases[k].inv : k \in Expired})

EntriesOf(f, r) == Cardinality({k \in DOMAIN f : k[1] = r})
Entries(f) == Cardinality(DOMAIN f)

(* _ensureRetryDeduplicationCapacity *)
Full(held) ==
    \/ EntriesOf(held, reg) + EntriesOf(pending, reg) >= Capacity
    \/ Entries(held) + Entries(pending) >= Global

(* _releaseRetryThrottleLease of the invocations that end. *)
Release(I) ==
    /\ leases' = Without(leases, {keyOf[i] : i \in I \cap DOMAIN keyOf})
    /\ keyOf' = Without(keyOf, I)

(* _dispatchInvocation of a new call: a record, or an exception; when the  *)
(* timeout option is not valid, after the id was taken.                    *)
Dispatched(c, more) ==
    \E callee \in callees : DispatchNew(c, callee, FALSE, TRUE, more)

DispatchFails(c) ==
    \/ /\ CallerOf[c] \notin open \/ callees = {}
       /\ UNCHANGED storeVars
    \/ /\ CallerOf[c] \in open /\ callees # {}
       /\ nextInv \in InvId /\ nextInv' = nextInv + 1
       /\ UNCHANGED <<open, callees, live, inv, timers>>
-----------------------------------------------------------------------------
(* InvocationDispatchCommand *)
Asks(c) ==
    /\ CallerOf[c] \in open
    /\ asked[c] < MaxAsk /\ told[c] = asked[c]
    /\ now <= LastAsk
    /\ asked' = [asked EXCEPT ![c] = @ + 1]

KeyFor(c) == <<reg, HashOf[c]>>

Deduplicated(c) ==
    /\ FindInvocationByCaller(c) = {}
    /\ HashOf[c] # NoHash /\ callees # {} /\ policy # "none"

(* A further chunk, no hash, no callee or no policy: dispatched at once. *)
AskDirect(c, more) ==
    /\ Asks(c)
    /\ ~Deduplicated(c)
    /\ Tell({c})
    /\ \/ \E i \in FindInvocationByCaller(c) :
             \/ DispatchChunk(c, i, more)
             \/ ~inv[i].chunks /\ UNCHANGED storeVars
       \/ FindInvocationByCaller(c) = {} /\ (Dispatched(c, more) \/ DispatchFails(c))
    /\ UNCHANGED <<reg, policy, leases, keyOf, pending, now, born>>

(* The hash has a lease, or there is no room for one. *)
AskRefused(c) ==
    /\ Asks(c)
    /\ Deduplicated(c)
    /\ leases' = ReapedLeases /\ keyOf' = ReapedKeys
    /\ \/ policy = "throttle" /\ KeyFor(c) \in DOMAIN leases'
       \/ KeyFor(c) \notin DOMAIN pending /\ Full(leases')
    /\ Tell({c})
    /\ UNCHANGED <<storeVars, reg, policy, pending, now, born>>

(* Mutant of AskThrottled: the expired leases leave their reverse entries. *)
AskThrottledStaleKeys(c, more) ==
    LET k == KeyFor(c) IN
    /\ Asks(c)
    /\ Deduplicated(c) /\ policy = "throttle"
    /\ k \notin DOMAIN ReapedLeases /\ ~Full(ReapedLeases)
    /\ Tell({c})
    /\ Dispatched(c, more)
    /\ leases' = With(ReapedLeases, k, [inv |-> nextInv, expiresAt |-> now + Expiry])
    /\ keyOf' = With(keyOf, nextInv, k)
    /\ born' = With(born, nextInv, [key |-> k, at |-> now])
    /\ UNCHANGED <<reg, policy, pending, now>>

(* The first active invocation of its hash takes a lease. *)
AskThrottled(c, more) ==
    LET k == KeyFor(c) IN
    /\ Asks(c)
    /\ Deduplicated(c) /\ policy = "throttle"
    /\ k \notin DOMAIN ReapedLeases /\ ~Full(ReapedLeases)
    /\ Tell({c})
    /\ \/ /\ Dispatched(c, more)
          /\ leases' = With(ReapedLeases, k, [inv |-> nextInv, expiresAt |-> now + Expiry])
          /\ keyOf' = With(ReapedKeys, nextInv, k)
          /\ born' = With(born, nextInv, [key |-> k, at |-> now])
       \/ /\ DispatchFails(c)
          /\ leases' = ReapedLeases /\ keyOf' = ReapedKeys
          /\ UNCHANGED born
    /\ UNCHANGED <<reg, policy, pending, now>>

(* Mutant of DebounceUntil: every retry gets a new expiry. *)
DebounceUntilNew(k) == now + Expiry

(* A replaced call hands its expiry on. *)
DebounceUntil(k) ==
    IF k \in DOMAIN pending THEN pending[k].expiresAt ELSE now + Expiry

(* The call waits; the one it replaces is refused. *)
AskDebounced(c, more) ==
    LET k == KeyFor(c)
        until == DebounceUntil(k)
        quiet == now + Debounce IN
    /\ Asks(c)
    /\ Deduplicated(c) /\ policy = "debounce"
    /\ k \in DOMAIN pending \/ ~Full(ReapedLeases)
    /\ leases' = ReapedLeases /\ keyOf' = ReapedKeys
    /\ pending' = With(pending, k,
                       [call |-> c, more |-> more, expiresAt |-> until,
                        fireAt |-> IF quiet < until THEN quiet ELSE until])
    /\ Tell(IF k \in DOMAIN pending THEN {pending[k].call} ELSE {})
    /\ UNCHANGED <<storeVars, reg, policy, now, born>>

(* Mutant of FireDebounce: a dispatch that throws is not reported. *)
FireDebounceSilent(k) ==
    /\ k \in DOMAIN pending
    /\ pending[k].fireAt <= now
    /\ pending' = Without(pending, {k})
    /\ LET c == pending[k].call IN
       \/ Tell({c}) /\ Dispatched(c, pending[k].more)
       \/ Tell({}) /\ DispatchFails(c)
    /\ UNCHANGED <<reg, policy, leases, keyOf, now, asked, born>>

(* _dispatchPendingRetryDebounce *)
FireDebounce(k) ==
    /\ k \in DOMAIN pending
    /\ pending[k].fireAt <= now
    /\ pending' = Without(pending, {k})
    /\ LET c == pending[k].call IN
       /\ Tell({c})
       /\ Dispatched(c, pending[k].more) \/ DispatchFails(c)
    /\ UNCHANGED <<reg, policy, leases, keyOf, now, asked, born>>
-----------------------------------------------------------------------------
(* The ways an invocation ends, with its lease. *)
Complete(i) ==
    /\ i \in live
    /\ CompleteInvocation(i)
    /\ Release({i})
    /\ UNCHANGED <<reg, policy, pending, now, asked, told, born>>

Cancel(i, waitForAck) ==
    /\ CancelInvocation(i, waitForAck)
    /\ IF waitForAck THEN UNCHANGED <<leases, keyOf>> ELSE Release({i})
    /\ UNCHANGED <<reg, policy, pending, now, asked, told, born>>

Expire(i) ==
    /\ ExpireInvocation(i)
    /\ Release({i})
    /\ UNCHANGED <<reg, policy, pending, now, asked, told, born>>

(* The first callee makes the entry and settles the policy. *)
Register(s, p) ==
    /\ RegisterProcedure(s)
    /\ \/ /\ callees = {} /\ reg < MaxReg
          /\ reg' = reg + 1
          /\ policy' = p
       \/ /\ callees # {} /\ p = policy
          /\ UNCHANGED <<reg, policy>>
    /\ UNCHANGED <<leases, keyOf, pending, now, asked, told, born>>

(* _clearRetryDeduplicationForRegistration, when the last callee goes; the *)
(* calls in Gone are refused as well.                                      *)
ClearRegistration(held, keys, waiting, Gone) ==
    LET old == {k \in Key : k[1] = reg}
        dropped == {waiting[k].call : k \in old \cap DOMAIN waiting} IN
    /\ leases' = Without(held, old)
    /\ keyOf' = Without(keys, {held[k].inv : k \in old \cap DOMAIN held})
    /\ pending' = Without(waiting, old)
    /\ Tell(Gone \cup dropped)

Unregister(s) ==
    /\ s \in callees
    /\ UnregisterProcedure(s)
    /\ IF callees = {s} THEN ClearRegistration(leases, keyOf, pending, {})
                        ELSE UNCHANGED <<leases, keyOf, pending, told>>
    /\ UNCHANGED <<reg, policy, now, asked, born>>

(* _cancelPendingRetryDebouncesForCaller *)
OwnDebounces(s) == {k \in DOMAIN pending : CallerOf[pending[k].call] = s}

(* _closeSession: its pending calls, its invocations, its registrations. *)
CloseSession(s) ==
    LET own == OwnDebounces(s)
        gone == {pending[k].call : k \in own}
        ended == InvocationsOf(s)
        held == Without(leases, {keyOf[i] : i \in ended \cap DOMAIN keyOf})
        keys == Without(keyOf, ended) IN
    /\ CloseStoreSession(s)
    /\ IF callees = {s}
       THEN ClearRegistration(held, keys, Without(pending, own), gone)
       ELSE /\ leases' = held /\ keyOf' = keys
            /\ pending' = Without(pending, own)
            /\ Tell(gone)
    /\ UNCHANGED <<reg, policy, now, asked, born>>

Tick ==
    /\ now + 1 \in Time
    /\ now' = now + 1
    /\ UNCHANGED <<storeVars, reg, policy, leases, keyOf, pending, asked, told,
                   born>>

Next ==
    \/ \E c \in Call, more \in BOOLEAN :
          AskDirect(c, more) \/ AskThrottled(c, more) \/ AskDebounced(c, more)
    \/ \E c \in Call : AskRefused(c)
    \/ \E k \in Key : FireDebounce(k)
    \/ \E i \in InvId : \/ Complete(i) \/ Cancel(i, TRUE) \/ Cancel(i, FALSE)
                        \/ Expire(i)
    \/ \E s \in Session : \/ Unregister(s) \/ CloseSession(s)
                          \/ \E p \in Policies : Register(s, p)
    \/ Tick

Spec == Init /\ [][Next]_vars

(* Timers fire and time goes on. *)
FairSpec ==
    Spec /\ WF_vars(Tick) /\ \A k \in Key : WF_vars(FireDebounce(k))
-----------------------------------------------------------------------------
(* The two lease maps agree, and a lease does not outlive its invocation,  *)
(* whichever of completion, cancellation, timeout and close ends it: a     *)
(* hash is never refused for good, nor is its lease freed by another's end.*)
LeasesAgree ==
    /\ \A k \in DOMAIN leases : /\ leases[k].inv \in live \cap DOMAIN keyOf
                                /\ keyOf[leases[k].inv] = k
    /\ \A i \in DOMAIN keyOf : /\ keyOf[i] \in DOMAIN leases
                               /\ leases[keyOf[i]].inv = i

(* A throttled hash has two pending invocations only when the first had    *)
(* been pending for the policy's expiry.                                   *)
ThrottleHolds ==
    \A i, j \in live \cap DOMAIN born :
        i < j /\ born[i].key = born[j].key => born[j].at >= born[i].at + Expiry

(* Leases and waiting calls never exceed the registration's capacity, nor  *)
(* the router's.                                                           *)
WithinCapacity ==
    /\ Entries(leases) + Entries(pending) <= Global
    /\ \A r \in 1..MaxReg :
          EntriesOf(leases, r) + EntriesOf(pending, r) <= Capacity

(* A worker waits for the store's answer to a CALL exactly while the call  *)
(* is the pending one of a hash: replaced, closed, unregistered or fired,  *)
(* its reply port is used once.                                            *)
AnsweredOnce ==
    \A c \in Call :
        LET keys == {k \in DOMAIN pending : pending[k].call = c} IN
        /\ asked[c] = told[c] + Cardinality(keys)
        /\ \A k \in keys : CallerOf[c] \in open /\ callees # {} /\ k[1] = reg

(* Retries do not postpone a debounced hash beyond the deadline its first  *)
(* call set.                                                               *)
DeadlineKept ==
    [][\A k \in DOMAIN pending \cap DOMAIN pending' :
          pending'[k].fireAt <= pending[k].expiresAt]_vars

(* Every CALL gets the store's answer in the end. *)
EveryAskTold ==
    \A c \in Call : asked[c] # told[c] ~> asked[c] = told[c]

(* The books of the store about repeated calls: the two lease maps agree,  *)
(* leases and debounced calls fit the capacities, and every CALL was       *)
(* answered once or waits in one place (_handleInvocationDispatch and every *)
(* command that ends an invocation, a registration or a session).          *)
DedupConsistent == TypeOK /\ LeasesAgree /\ WithinCapacity /\ AnsweredOnce
=============================================================================
