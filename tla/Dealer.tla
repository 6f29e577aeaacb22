------------------------------- MODULE Dealer -------------------------------
(***************************************************************************)
(* How the router's workers route calls (router_worker_session.dart).      *)
(*                                                                         *)
(* A worker handles one message of a connection at a time: the boss hands  *)
(* it the next one only after the handler of the previous one reported     *)
(* ready.  A handler is a chain of store commands with an await after each *)
(* one, so handlers of different sessions interleave between any two       *)
(* commands and use what they read before.  h[s] is the handler that runs  *)
(* for session s: pc names the command it issues next, the other fields    *)
(* are its locals.  A step is one store command together with the code up  *)
(* to the next await, or one message posted to the boss port.              *)
(*                                                                         *)
(* Callers and callees are WAMP sessions over a connection; sessions       *)
(* inside the router process are not modelled here.                        *)
(***************************************************************************)
EXTENDS Invocations, Sequences

CONSTANTS Modes,     (* cancel modes the callers use                         *)
          Progress,  (* the values of receive_progress the callers use       *)
          Timed,     (* whether calls carry a dealer-owned timeout           *)
          Chunked,   (* calls the caller sends in several chunks             *)
          Stray,     (* sessions that answer invocations which are not, or   *)
                     (* no longer, theirs                                    *)
          MaxProgress (* bound: progressive YIELDs per invocation            *)

ASSUME DealerAssumption ==
    /\ Modes \subseteq {"skip", "kill", "killnowait"}
    /\ Progress \subseteq BOOLEAN
    /\ Timed \subseteq BOOLEAN
    /\ Chunked \subseteq Call
    /\ Stray \subseteq Session
    /\ MaxProgress \in Nat

VARIABLES connected,   (* sessions whose connection the boss still has       *)
          h,           (* the handler running for each session               *)
          sent,        (* client: the last CALL message of a call            *)
          yields,      (* client: progressive YIELDs sent per invocation     *)
          finals,      (* client: final answers, session and invocation      *)
          invoked,     (* invocations whose INVOCATION reached the boss      *)
          interrupted, (* invocations for which CANCEL sent an INTERRUPT     *)
          replies      (* what each caller received for a call, in order     *)

clientVars == <<sent, yields, finals>>
wireVars == <<invoked, interrupted, replies>>
dealerVars == <<connected, h, clientVars, wireVars>>
vars == <<storeVars, dealerVars>>

Terminal == {"result", "error", "cancelled", "timeout", "refused"}
Reply == Terminal \cup {"progress"}

Pc == {"idle", "call", "refuse", "forward", "cancel", "cancelAct", "ack",
       "interrupt", "yield", "yieldAct", "error", "errorAct", "lookup", "reply"}

(* kind: more/last for a CALL, the mode of a CANCEL, the reply an answer   *)
(* becomes; cancelled: cancelRequested of the record the handler read.     *)
Handler == [pc : Pc, call : Call, id : 0..MaxInv,
            kind : {"none", "more", "last", "skip", "kill", "killnowait",
                    "progress", "result", "error"},
            cancelled : BOOLEAN]

Idle == [pc |-> "idle", call |-> Unused.call, id |-> 0, kind |-> "none",
         cancelled |-> FALSE]

Init ==
    /\ StoreInit
    /\ connected = Session
    /\ h = [s \in Session |-> Idle]
    /\ sent = [c \in Call |-> "no"]
    /\ yields = [i \in InvId |-> 0]
    /\ finals = {}
    /\ invoked = {}
    /\ interrupted = {}
    /\ replies = [c \in Call |-> <<>>]

TypeOK ==
    /\ StoreTypeOK
    /\ connected \subseteq open
    /\ h \in [Session -> Handler]
    /\ sent \in [Call -> {"no", "more", "last"}]
    /\ yields \in [InvId -> 0..MaxProgress]
    /\ finals \subseteq Session \X InvId
    /\ invoked \subseteq InvId
    /\ interrupted \subseteq InvId
    /\ replies \in [Call -> Seq(Reply)]

At(s, pc) == h[s].pc = pc
Goto(s, pc) == h' = [h EXCEPT ![s].pc = pc]
Done(s) == h' = [h EXCEPT ![s] = Idle]

(* The boss writes a message to the caller's connection, or drops it when  *)
(* that connection is gone.                                                *)
SendToCaller(c, reply) ==
    replies' = IF CallerOf[c] \in connected
               THEN [replies EXCEPT ![c] = Append(@, reply)] ELSE replies

Answered(c) == \E n \in 1..Len(replies[c]) : replies[c][n] \in Terminal
-----------------------------------------------------------------------------
(* What clients send: the boss hands the message to the worker of an idle  *)
(* connection.                                                             *)

(* CALL: once, or once more for the next chunk of a progressive call.      *)
ReceiveCall(c, kind) ==
    LET s == CallerOf[c] IN
    /\ s \in connected
    /\ h[s] = Idle
    /\ \/ sent[c] = "no"
       \/ sent[c] = "more" /\ ~Answered(c)
    /\ kind = "last" \/ c \in Chunked
    /\ sent' = [sent EXCEPT ![c] = kind]
    /\ h' = [h EXCEPT ![s] = [Idle EXCEPT !.pc = "call", !.call = c,
                                          !.kind = kind]]
    /\ UNCHANGED <<storeVars, connected, yields, finals, wireVars>>

(* Mutant of ReceiveCancel: the handler of the CALL is still running. *)
ReceiveCancelAnytime(c, mode) ==
    /\ CallerOf[c] \in connected
    /\ sent[c] # "no"
    /\ h' = [h EXCEPT ![CallerOf[c]] = [Idle EXCEPT !.pc = "cancel", !.call = c,
                                                    !.kind = mode]]
    /\ UNCHANGED <<storeVars, connected, clientVars, wireVars>>

ReceiveCancel(c, mode) ==
    LET s == CallerOf[c] IN
    /\ s \in connected
    /\ h[s] = Idle
    /\ sent[c] # "no"
    /\ h' = [h EXCEPT ![s] = [Idle EXCEPT !.pc = "cancel", !.call = c,
                                          !.kind = mode]]
    /\ UNCHANGED <<storeVars, connected, clientVars, wireVars>>

(* YIELD or ERROR of an invocation that was sent out.  A callee is done    *)
(* with an invocation after its final answer, a stray one is not.          *)
ReceiveAnswer(s, i, kind) ==
    /\ s \in connected
    /\ h[s] = Idle
    /\ i \in invoked
    /\ s \in Stray \/ (s = inv[i].callee /\ <<s, i>> \notin finals)
    /\ \/ /\ kind = "progress" /\ yields[i] < MaxProgress
          /\ yields' = [yields EXCEPT ![i] = @ + 1]
          /\ UNCHANGED finals
       \/ /\ kind # "progress"
          /\ finals' = finals \cup {<<s, i>>}
          /\ UNCHANGED yields
    /\ h' = [h EXCEPT ![s] = [Idle EXCEPT
                  !.pc = IF kind = "error" THEN "error" ELSE "yield",
                  !.call = inv[i].call, !.id = i, !.kind = kind]]
    /\ UNCHANGED <<storeVars, connected, sent, wireVars>>

(* A callee registers or unregisters the procedure. *)
Register(s) ==
    /\ s \in connected
    /\ RegisterProcedure(s)
    /\ UNCHANGED dealerVars

Unregister(s) ==
    /\ s \in connected /\ s \in callees
    /\ UnregisterProcedure(s)
    /\ UNCHANGED dealerVars

(* A connection goes away, handler running or not; the worker clears its   *)
(* session and posts SessionCloseCommand, which the store runs later.      *)
Disconnect(s) ==
    /\ s \in connected
    /\ connected' = connected \ {s}
    /\ UNCHANGED <<storeVars, h, clientVars, wireVars>>

CloseSession(s) ==
    /\ s \notin connected
    /\ CloseStoreSession(s)
    /\ UNCHANGED dealerVars
-----------------------------------------------------------------------------
(* _handleCall *)

(* dispatchInvocation succeeds with a new invocation. *)
CallDispatchNew(s) ==
    /\ At(s, "call") /\ s \in connected
    /\ \E callee \in callees, allowProgress \in Progress, timed \in Timed :
          DispatchNew(h[s].call, callee, allowProgress, timed,
                      h[s].kind = "more")
    /\ h' = [h EXCEPT ![s].pc = "forward", ![s].id = nextInv]
    /\ UNCHANGED <<connected, clientVars, wireVars>>

(* dispatchInvocation continues the call's progressive invocation. *)
CallDispatchChunk(s) ==
    /\ At(s, "call") /\ s \in connected
    /\ \E i \in FindInvocationByCaller(h[s].call) :
          /\ DispatchChunk(h[s].call, i, h[s].kind = "more")
          /\ h' = [h EXCEPT ![s].pc = "forward", ![s].id = i]
    /\ UNCHANGED <<connected, clientVars, wireVars>>

(* The authorizer denies the call. *)
CallDenied(s) ==
    /\ At(s, "call")
    /\ Goto(s, "refuse")
    /\ UNCHANGED <<storeVars, connected, clientVars, wireVars>>

(* dispatchInvocation throws, or the connection was closed under the       *)
(* handler and sessionId is null.                                          *)
CallThrows(s) ==
    /\ At(s, "call")
    /\ s \notin connected \/ DispatchThrows(h[s].call)
    /\ Goto(s, "refuse")
    /\ UNCHANGED <<storeVars, connected, clientVars, wireVars>>

(* _sendSessionError *)
CallRefuse(s) ==
    /\ At(s, "refuse")
    /\ SendToCaller(h[s].call, "refused")
    /\ Done(s)
    /\ UNCHANGED <<storeVars, connected, clientVars, invoked, interrupted>>

(* The INVOCATION goes to the callee's connection. *)
CallForward(s) ==
    /\ At(s, "forward")
    /\ invoked' = invoked \cup {h[s].id}
    /\ Done(s)
    /\ UNCHANGED <<storeVars, connected, clientVars, interrupted, replies>>
-----------------------------------------------------------------------------
(* _handleCancel *)

(* findInvocationByCaller; no invocation (or no session) answers the       *)
(* CANCEL itself with an ERROR, which says nothing about the call.         *)
CancelFind(s) ==
    /\ At(s, "cancel")
    /\ \/ /\ s \in connected
          /\ \E i \in FindInvocationByCaller(h[s].call) :
                h' = [h EXCEPT ![s].pc = "cancelAct", ![s].id = i]
       \/ /\ s \notin connected \/ FindInvocationByCaller(h[s].call) = {}
          /\ Done(s)
    /\ UNCHANGED <<storeVars, connected, clientVars, wireVars>>

(* Authorization denies the CANCEL. *)
CancelDenied(s) ==
    /\ At(s, "cancelAct")
    /\ Done(s)
    /\ UNCHANGED <<storeVars, connected, clientVars, wireVars>>

(* skip: completeInvocation, whatever it answers. *)
CancelSkip(s) ==
    /\ At(s, "cancelAct") /\ h[s].kind = "skip"
    /\ CompleteInvocation(h[s].id)
    /\ Goto(s, "ack")
    /\ UNCHANGED <<connected, clientVars, wireVars>>

(* kill, killnowait: cancelInvocation; false ends the handler. *)
CancelKill(s) ==
    /\ At(s, "cancelAct") /\ h[s].kind # "skip"
    /\ \/ /\ CancelInvocation(h[s].id, h[s].kind = "kill")
          /\ Goto(s, "interrupt")
       \/ /\ h[s].id \notin live
          /\ Done(s)
          /\ UNCHANGED storeVars
    /\ UNCHANGED <<connected, clientVars, wireVars>>

(* INTERRUPT to the callee; killnowait tells the caller at once. *)
CancelInterrupt(s) ==
    /\ At(s, "interrupt")
    /\ interrupted' = interrupted \cup {h[s].id}
    /\ \/ h[s].kind = "killnowait" /\ SendToCaller(h[s].call, "cancelled")
       \/ h[s].kind = "kill" /\ UNCHANGED replies
    /\ Done(s)
    /\ UNCHANGED <<storeVars, connected, clientVars, invoked>>

(* _sendCancelAck *)
CancelAck(s) ==
    /\ At(s, "ack")
    /\ SendToCaller(h[s].call, "cancelled")
    /\ Done(s)
    /\ UNCHANGED <<storeVars, connected, clientVars, invoked, interrupted>>
-----------------------------------------------------------------------------
(* _handleYield and _handleInvocationError *)

(* getInvocation: nothing pending is an ERROR to the callee, else the      *)
(* handler goes on with the record it read.                                *)
AnswerGet(s, pc, next) ==
    /\ At(s, pc)
    /\ \/ /\ h[s].id \in live
          /\ h' = [h EXCEPT ![s].pc = next,
                            ![s].cancelled = inv[h[s].id].cancelRequested]
       \/ h[s].id \notin live /\ Done(s)
    /\ UNCHANGED <<storeVars, connected, clientVars, wireVars>>

YieldGet(s) == AnswerGet(s, "yield", "yieldAct")
ErrorGet(s) == AnswerGet(s, "error", "errorAct")

(* The invocation is not this session's (its id is null once closed). *)
NotCallee(s) == s \notin connected \/ inv[h[s].id].callee # s

(* A YIELD that gets an ERROR back: the invocation is another session's,   *)
(* or progress was not asked for, and the invocation is given up; or the   *)
(* invocation was cancelled, and stays.                                    *)
YieldRejected(s) ==
    /\ At(s, "yieldAct")
    /\ \/ /\ \/ NotCallee(s)
             \/ /\ ~h[s].cancelled
                /\ h[s].kind = "progress" /\ ~inv[h[s].id].allowProgress
          /\ CompleteInvocation(h[s].id)
       \/ /\ ~NotCallee(s) /\ h[s].cancelled
          /\ UNCHANGED storeVars
    /\ Done(s)
    /\ UNCHANGED <<connected, clientVars, wireVars>>

(* Mutant of YieldAct: the answer of the store command is ignored. *)
YieldActUnchecked(s) ==
    /\ At(s, "yieldAct") /\ ~NotCallee(s) /\ ~h[s].cancelled
    /\ \/ /\ h[s].kind = "progress" /\ inv[h[s].id].allowProgress
          /\ TouchInvocation(h[s].id)
       \/ /\ h[s].kind = "result"
          /\ CompleteInvocation(h[s].id)
    /\ Goto(s, "lookup")
    /\ UNCHANGED <<connected, clientVars, wireVars>>

(* touchInvocation or completeInvocation; when the invocation is gone by   *)
(* now the callee gets an ERROR and the caller nothing.                    *)
YieldAct(s) ==
    /\ At(s, "yieldAct") /\ ~NotCallee(s) /\ ~h[s].cancelled
    /\ \/ /\ h[s].kind = "progress" /\ inv[h[s].id].allowProgress
          /\ TouchInvocation(h[s].id)
       \/ /\ h[s].kind = "result"
          /\ CompleteInvocation(h[s].id)
    /\ IF h[s].id \in live THEN Goto(s, "lookup") ELSE Done(s)
    /\ UNCHANGED <<connected, clientVars, wireVars>>

ErrorAct(s) ==
    /\ At(s, "errorAct")
    /\ CompleteInvocation(h[s].id)
    /\ IF ~NotCallee(s) /\ h[s].id \in live THEN Goto(s, "lookup") ELSE Done(s)
    /\ UNCHANGED <<connected, clientVars, wireVars>>

(* _findConnectionIdForSession with a fresh snapshot; a YIELD gives the    *)
(* invocation up when the caller's session is gone.                        *)
AnswerLookup(s) ==
    /\ At(s, "lookup")
    /\ \/ /\ CallerOf[h[s].call] \in open
          /\ Goto(s, "reply")
          /\ UNCHANGED storeVars
       \/ /\ CallerOf[h[s].call] \notin open
          /\ Done(s)
          /\ IF h[s].kind = "error" THEN UNCHANGED storeVars
                                    ELSE CompleteInvocation(h[s].id)
    /\ UNCHANGED <<connected, clientVars, wireVars>>

(* RESULT or ERROR to the caller's connection. *)
AnswerReply(s) ==
    /\ At(s, "reply")
    /\ SendToCaller(h[s].call, h[s].kind)
    /\ Done(s)
    /\ UNCHANGED <<storeVars, connected, clientVars, invoked, interrupted>>
-----------------------------------------------------------------------------
(* _expireInvocation and the boss's _handleInvocationTimeoutEvent, which   *)
(* runs in the same isolate before the next command.                       *)
Expire(i) ==
    /\ ExpireInvocation(i)
    /\ IF CallerOf[inv[i].call] \in open
       THEN SendToCaller(inv[i].call, "timeout") ELSE UNCHANGED replies
    /\ UNCHANGED <<connected, h, clientVars, invoked, interrupted>>

HandlerStep(s) ==
    \/ CallDispatchNew(s) \/ CallDispatchChunk(s)
    \/ CallDenied(s) \/ CallThrows(s)
    \/ CallRefuse(s) \/ CallForward(s)
    \/ CancelFind(s) \/ CancelDenied(s) \/ CancelSkip(s) \/ CancelKill(s)
    \/ CancelInterrupt(s) \/ CancelAck(s)
    \/ YieldGet(s) \/ ErrorGet(s) \/ YieldRejected(s) \/ YieldAct(s)
    \/ ErrorAct(s) \/ AnswerLookup(s) \/ AnswerReply(s)

Next ==
    \/ \E c \in Call, kind \in {"more", "last"} : ReceiveCall(c, kind)
    \/ \E c \in Call, mode \in Modes : ReceiveCancel(c, mode)
    \/ \E s \in Session, i \in InvId, kind \in {"progress", "result", "error"} :
          ReceiveAnswer(s, i, kind)
    \/ \E s \in Session :
          \/ Register(s) \/ Unregister(s) \/ Disconnect(s) \/ CloseSession(s)
          \/ HandlerStep(s)
    \/ \E i \in InvId : Expire(i)

Spec == Init /\ [][Next]_vars

Fairness ==
    /\ \A s \in Session : WF_vars(HandlerStep(s)) /\ WF_vars(CloseSession(s))
    /\ \A i \in InvId : WF_vars(Expire(i))

FairSpec == Spec /\ Fairness

(* As FairSpec, with callees that finally answer every INVOCATION. *)
AnsweringSpec ==
    /\ FairSpec
    /\ \A i \in InvId : WF_vars(\E s \in Session, kind \in {"result", "error"} :
                                  ReceiveAnswer(s, i, kind))
-----------------------------------------------------------------------------
(* A caller gets at most one terminal reply to a CALL that it does not     *)
(* send in chunks: of a YIELD, an ERROR, a CANCEL and a timeout that race, *)
(* the one whose store command takes the invocation out of the table       *)
(* answers and the others do not.  Only a skip-mode CANCEL does not look   *)
(* at whether the invocation was still there: with it there may be a       *)
(* second terminal reply, and one of the two is its acknowledgement.       *)
OneAnswer ==
    \A c \in Call \ Chunked : \A m, n \in 1..Len(replies[c]) :
        /\ m # n
        /\ replies[c][m] \in Terminal /\ replies[c][n] \in Terminal
        => /\ "skip" \in Modes
           /\ (replies[c][m] = "cancelled") # (replies[c][n] = "cancelled")

(* A callee's progressive RESULT never overtakes or follows the final      *)
(* answer of the same callee, although every RESULT is sent several awaits *)
(* after the message arrived.                                              *)
ProgressBeforeFinal ==
    \A c \in Call : \A m, n \in 1..Len(replies[c]) :
        replies[c][m] \in {"result", "error"} /\ replies[c][n] = "progress"
            => n < m

(* The INTERRUPT of a CANCEL never reaches the callee before the           *)
(* INVOCATION it interrupts.                                               *)
InterruptAfterInvocation == interrupted \subseteq invoked

(* Both orders that the awaits of the YIELD, CALL and CANCEL handlers      *)
(* could turn round: to the caller, progress before the final answer; to   *)
(* the callee, the INVOCATION before its INTERRUPT.                        *)
RepliesInOrder == ProgressBeforeFinal /\ InterruptAfterInvocation

CalleeGone(c) ==
    \E i \in 1..(nextInv - 1) : inv[i].call = c /\ inv[i].callee \notin open

(* Every CALL is answered in the end, unless its caller or its callee goes *)
(* away.                                                                   *)
EveryCallAnswered ==
    \A c \in Call :
        sent[c] # "no" ~> Answered(c) \/ CallerOf[c] \notin connected
                                      \/ CalleeGone(c)
=============================================================================
