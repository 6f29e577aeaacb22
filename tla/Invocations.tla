----------------------------- MODULE Invocations -----------------------------
(***************************************************************************)
(* The part of the router's state store (RouterStateStore) that calls pass *)
(* through: the open sessions of one realm, the sessions registered for a  *)
(* procedure, the table of pending invocations and their inactivity        *)
(* timers.  The store runs in the boss isolate and executes one command at *)
(* a time, so every command is one atomic step.  The commands are written  *)
(* as operators over the store's variables; Dealer turns them into the     *)
(* steps of the workers' message handlers.                                 *)
(*                                                                         *)
(* One procedure is enough: calls to different procedures share no store   *)
(* state except the id counter.  Which of the registered callees is picked *)
(* is the invocation policy's choice (ProcedureEntry.nextCallee); here it  *)
(* is any of them.                                                         *)
(***************************************************************************)
EXTENDS Naturals

CONSTANTS Session,   (* session ids, never reused                           *)
          Call,      (* calls: a caller session with one of its request ids *)
          CallerOf,  (* the caller's session of each call                   *)
          MaxInv     (* bound: invocation ids the store hands out           *)

ASSUME InvocationsAssumption ==
    /\ Call # {}
    /\ CallerOf \in [Call -> Session]
    /\ MaxInv \in Nat

VARIABLES open,     (* realm.sessions                                       *)
          callees,  (* sessions with a registration of the procedure        *)
          live,     (* keys of realm.invocations                            *)
          inv,      (* the PendingInvocation of every id handed out         *)
          timers,   (* keys of _invocationTimeouts                          *)
          nextInv   (* ids.invocation                                       *)

storeVars == <<open, callees, live, inv, timers, nextInv>>

InvId == 1..MaxInv

(* PendingInvocation.  timed: a timeout > 0 that the dealer owns (timeout   *)
(* not null and not timeoutForwarded); chunks: progressiveInvocationOpen.  *)
PendingInvocation == [call : Call, callee : Session, allowProgress : BOOLEAN,
                      timed : BOOLEAN, chunks : BOOLEAN,
                      cancelRequested : BOOLEAN]

(* The value of inv at an id that has not been handed out. *)
Unused == [call |-> CHOOSE c \in Call : TRUE,
           callee |-> CallerOf[CHOOSE c \in Call : TRUE],
           allowProgress |-> FALSE, timed |-> FALSE, chunks |-> FALSE,
           cancelRequested |-> FALSE]

StoreInit ==
    /\ open = Session
    /\ callees = {}
    /\ live = {}
    /\ inv = [i \in InvId |-> Unused]
    /\ timers = {}
    /\ nextInv = 1

StoreTypeOK ==
    /\ open \subseteq Session
    /\ callees \subseteq Session
    /\ live \subseteq InvId
    /\ inv \in [InvId -> PendingInvocation]
    /\ timers \subseteq InvId
    /\ nextInv \in 1..(MaxInv + 1)
-----------------------------------------------------------------------------
(* _findInvocationByCaller: the pending invocations of a call. *)
FindInvocationByCaller(c) == {i \in live : inv[i].call = c}

(* The ways _dispatchInvocation throws: the caller is gone, a chunk for an *)
(* invocation that takes none, or nobody to invoke.                        *)
DispatchThrows(c) ==
    \/ CallerOf[c] \notin open
    \/ \E i \in FindInvocationByCaller(c) : ~inv[i].chunks
    \/ FindInvocationByCaller(c) = {} /\ callees = {}

(* Mutant of DispatchNew: the timer is not scheduled. *)
DispatchNewUntimed(c, callee, allowProgress, timed, more) ==
    /\ CallerOf[c] \in open
    /\ FindInvocationByCaller(c) = {}
    /\ callee \in callees
    /\ nextInv \in InvId
    /\ live' = live \cup {nextInv}
    /\ inv' = [inv EXCEPT ![nextInv] =
                  [call |-> c, callee |-> callee,
                   allowProgress |-> allowProgress, timed |-> timed,
                   chunks |-> more, cancelRequested |-> FALSE]]
    /\ nextInv' = nextInv + 1
    /\ UNCHANGED <<open, callees, timers>>

(* Mutant of DispatchNew: no look for a pending invocation of the call. *)
DispatchNewAlways(c, callee, allowProgress, timed, more) ==
    /\ CallerOf[c] \in open
    /\ callee \in callees
    /\ nextInv \in InvId
    /\ live' = live \cup {nextInv}
    /\ inv' = [inv EXCEPT ![nextInv] =
                  [call |-> c, callee |-> callee,
                   allowProgress |-> allowProgress, timed |-> timed,
                   chunks |-> more, cancelRequested |-> FALSE]]
    /\ timers' = IF timed THEN timers \cup {nextInv} ELSE timers
    /\ nextInv' = nextInv + 1
    /\ UNCHANGED <<open, callees>>

(* _dispatchInvocation for a call with no pending invocation. *)
DispatchNew(c, callee, allowProgress, timed, more) ==
    /\ CallerOf[c] \in open
    /\ FindInvocationByCaller(c) = {}
    /\ callee \in callees
    /\ nextInv \in InvId
    /\ live' = live \cup {nextInv}
    /\ inv' = [inv EXCEPT ![nextInv] =
                  [call |-> c, callee |-> callee,
                   allowProgress |-> allowProgress, timed |-> timed,
                   chunks |-> more, cancelRequested |-> FALSE]]
    /\ timers' = IF timed THEN timers \cup {nextInv} ELSE timers
    /\ nextInv' = nextInv + 1
    /\ UNCHANGED <<open, callees>>

(* _dispatchInvocation for a further chunk of a progressive invocation. *)
DispatchChunk(c, i, more) ==
    /\ CallerOf[c] \in open
    /\ i \in FindInvocationByCaller(c)
    /\ inv[i].chunks
    /\ inv' = [inv EXCEPT ![i].chunks = more]
    /\ UNCHANGED <<open, callees, live, timers, nextInv>>

(* _completeInvocation; it answers the record, or null when i is not live. *)
CompleteInvocation(i) ==
    /\ live' = live \ {i}
    /\ timers' = timers \ {i}
    /\ UNCHANGED <<open, callees, inv, nextInv>>

(* _touchInvocation: re-arm the inactivity timer of a live invocation. *)
TouchInvocation(i) ==
    /\ timers' = IF i \in live /\ inv[i].timed THEN timers \cup {i} ELSE timers
    /\ UNCHANGED <<open, callees, live, inv, nextInv>>

(* _cancelInvocation of a live invocation; a kill keeps it until the       *)
(* callee acknowledges.                                                    *)
CancelInvocation(i, waitForAck) ==
    /\ i \in live
    /\ inv' = [inv EXCEPT ![i].cancelRequested = TRUE]
    /\ timers' = timers \ {i}
    /\ live' = IF waitForAck THEN live ELSE live \ {i}
    /\ UNCHANGED <<open, callees, nextInv>>

(* _expireInvocation: the timer of i fires. *)
ExpireInvocation(i) ==
    /\ i \in timers
    /\ timers' = timers \ {i}
    /\ live' = live \ {i}
    /\ UNCHANGED <<open, callees, inv, nextInv>>

(* Mutant of InvocationsOf: only the caller's end counts. *)
InvocationsOfCaller(s) == {i \in live : CallerOf[inv[i].call] = s}

(* _removeInvocationsForSession: both ends of an invocation count. *)
InvocationsOf(s) ==
    {i \in live : inv[i].callee = s \/ CallerOf[inv[i].call] = s}

(* _closeSession *)
CloseStoreSession(s) ==
    /\ s \in open
    /\ live' = live \ InvocationsOf(s)
    /\ timers' = timers \ InvocationsOf(s)
    /\ open' = open \ {s}
    /\ callees' = callees \ {s}
    /\ UNCHANGED <<inv, nextInv>>

(* _registerProcedure and _unregisterProcedure, as far as dispatch sees. *)
RegisterProcedure(s) ==
    /\ s \in open
    /\ callees' = callees \cup {s}
    /\ UNCHANGED <<open, live, inv, timers, nextInv>>

UnregisterProcedure(s) ==
    /\ callees' = callees \ {s}
    /\ UNCHANGED <<open, live, inv, timers, nextInv>>
-----------------------------------------------------------------------------
StoreNext ==
    \/ \E c \in Call, callee \in Session, allowProgress, timed, more \in BOOLEAN :
          DispatchNew(c, callee, allowProgress, timed, more)
    \/ \E c \in Call, i \in InvId, more \in BOOLEAN : DispatchChunk(c, i, more)
    \/ \E i \in InvId : \/ CompleteInvocation(i) \/ TouchInvocation(i)
                        \/ CancelInvocation(i, TRUE) \/ CancelInvocation(i, FALSE)
                        \/ ExpireInvocation(i)
    \/ \E s \in Session : \/ CloseStoreSession(s) \/ RegisterProcedure(s)
                          \/ UnregisterProcedure(s)

(* The store on its own, whatever commands the workers send it in whatever *)
(* order: what the properties below need from the workers is nothing.      *)
StoreSpec == StoreInit /\ [][StoreNext]_storeVars

(* The store never keeps an invocation of a closed session, nor one that   *)
(* nobody can end: both ends are open, and unless it is being cancelled an *)
(* invocation with a dealer-owned timeout has its timer armed.  Timers     *)
(* belong to pending invocations.                                          *)
NoOrphans ==
    /\ timers \subseteq live
    /\ \A i \in live :
          /\ inv[i].callee \in open
          /\ CallerOf[inv[i].call] \in open
          /\ inv[i].timed /\ ~inv[i].cancelRequested => i \in timers

(* A call has at most one pending invocation, so the first match that      *)
(* _findInvocationByCaller returns to a CANCEL or to the next chunk is the *)
(* only one.                                                               *)
OnePending ==
    \A i, j \in live : inv[i].call = inv[j].call => i = j
=============================================================================
