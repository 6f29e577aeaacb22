---------------------------- MODULE DealerProofs ----------------------------
(***************************************************************************)
(* Proofs about Dealer, for any sessions, calls, cancel modes and bounds.  *)
(***************************************************************************)
EXTENDS Dealer, InvocationsProofs

(* What the locals of a handler hold at each program counter. *)
Locals(r) ==
    /\ r.pc \in {"yield", "yieldAct"} => r.kind \in {"progress", "result"}
    /\ r.pc \in {"error", "errorAct"} => r.kind = "error"
    /\ r.pc \in {"lookup", "reply"} => r.kind \in {"progress", "result", "error"}
    /\ r.pc \in {"cancelAct", "interrupt", "forward", "yield", "yieldAct",
                 "error", "errorAct", "lookup", "reply"} => r.id \in InvId
    /\ r.pc \in {"call", "forward"} => r.kind \in {"more", "last"}

HandlersOK == \A s \in Session : Locals(h[s])

TypeInv == TypeOK /\ HandlersOK

USE InvocationsAssumption, DealerAssumption

LEMMA IdleType == Idle \in Handler
BY UnusedType DEF Idle, Handler, Pc, PendingInvocation

LEMMA TypeInit == Init => TypeInv
<1> SUFFICES ASSUME Init PROVE TypeInv
  OBVIOUS
<1> USE DEF Init, StoreInit
<1>1. StoreTypeOK
  BY UnusedType DEF StoreTypeOK, InvId
<1>2. h \in [Session -> Handler]
  BY IdleType
<1>3. replies \in [Call -> Seq(Reply)]
  OBVIOUS
<1>4. TypeOK
  BY <1>1, <1>2, <1>3 DEF TypeOK
<1>5. HandlersOK
  BY DEF HandlersOK, Locals, Idle
<1> QED
  BY <1>4, <1>5 DEF TypeInv

(* A handler that takes a new record with the right locals. *)
LEMMA HandlerStepOK ==
    ASSUME h \in [Session -> Handler], HandlersOK, NEW s \in Session,
           NEW r \in Handler, Locals(r), h' = [h EXCEPT ![s] = r]
    PROVE  h' \in [Session -> Handler] /\ HandlersOK'
<1>1. h' \in [Session -> Handler]
  OBVIOUS
<1>2. ASSUME NEW x \in Session PROVE Locals(h'[x])
  <2>1. CASE x = s
    <3>1. h'[x] = r
      BY <2>1
    <3> QED
      BY <3>1 DEF Locals
  <2>2. CASE x # s
    <3>1. h'[x] = h[x]
      BY <2>2
    <3> QED
      BY <3>1 DEF Locals, HandlersOK
  <2> QED
    BY <2>1, <2>2
<1> QED
  BY <1>1, <1>2 DEF HandlersOK, Locals

LEMMA DoneOK ==
    ASSUME h \in [Session -> Handler], HandlersOK, NEW s \in Session, Done(s)
    PROVE  h' \in [Session -> Handler] /\ HandlersOK'
<1>1. Locals(Idle)
  BY DEF Locals, Idle
<1> QED
  BY <1>1, IdleType, HandlerStepOK DEF Done

LEMMA GotoOK ==
    ASSUME h \in [Session -> Handler], HandlersOK, NEW s \in Session,
           NEW pc \in Pc, Goto(s, pc), Locals([h[s] EXCEPT !.pc = pc])
    PROVE  h' \in [Session -> Handler] /\ HandlersOK'
<1>1. [h[s] EXCEPT !.pc = pc] \in Handler
  BY DEF Handler
<1>2. h' = [h EXCEPT ![s] = [h[s] EXCEPT !.pc = pc]]
  BY DEF Goto
<1> QED
  BY <1>1, <1>2, HandlerStepOK

(* Each step of the dealer is one store command or none. *)
LEMMA StoreStep == TypeInv /\ [Next]_vars => [StoreNext]_storeVars
<1> SUFFICES ASSUME TypeOK, HandlersOK, [Next]_vars PROVE [StoreNext]_storeVars
  BY DEF TypeInv
<1>a. \A s \in Session : h[s] \in Handler /\ h[s].call \in Call /\ Locals(h[s])
  BY DEF TypeOK, HandlersOK, Handler
<1>b. callees \subseteq Session /\ live \subseteq InvId
  BY DEF TypeOK, StoreTypeOK
<1>1. ASSUME NEW s \in Session, CallDispatchNew(s) PROVE StoreNext
  <2>1. PICK callee \in callees, p \in Progress, t \in Timed :
            DispatchNew(h[s].call, callee, p, t, h[s].kind = "more")
    BY <1>1 DEF CallDispatchNew
  <2>2. h[s].call \in Call /\ callee \in Session
    BY <1>a, <1>b
  <2>3. PICK m \in BOOLEAN : m = (h[s].kind = "more")
    OBVIOUS
  <2>4. DispatchNew(h[s].call, callee, p, t, m)
    BY <2>1, <2>3
  <2> QED
    BY <2>2, <2>4 DEF StoreNext
<1>2. ASSUME NEW s \in Session, CallDispatchChunk(s) PROVE StoreNext
  <2>1. PICK i \in FindInvocationByCaller(h[s].call) :
            DispatchChunk(h[s].call, i, h[s].kind = "more")
    BY <1>2 DEF CallDispatchChunk
  <2>2. h[s].call \in Call /\ i \in InvId
    BY <1>a, <1>b DEF FindInvocationByCaller
  <2>3. PICK m \in BOOLEAN : m = (h[s].kind = "more")
    OBVIOUS
  <2>4. DispatchChunk(h[s].call, i, m)
    BY <2>1, <2>3
  <2> QED
    BY <2>2, <2>4 DEF StoreNext
<1>3. ASSUME NEW s \in Session,
             CancelSkip(s) \/ YieldRejected(s) \/ YieldAct(s) \/ ErrorAct(s)
               \/ AnswerLookup(s)
      PROVE  StoreNext \/ UNCHANGED storeVars
  <2>1. h[s].id \in InvId
    BY <1>3, <1>a DEF CancelSkip, YieldRejected, YieldAct, ErrorAct,
       AnswerLookup, At, Locals
  <2> QED
    BY <1>3, <2>1 DEF CancelSkip, YieldRejected, YieldAct, ErrorAct,
       AnswerLookup, StoreNext
<1>4. ASSUME NEW s \in Session, CancelKill(s)
      PROVE  StoreNext \/ UNCHANGED storeVars
  <2>1. h[s].id \in InvId
    BY <1>4, <1>a DEF CancelKill, At, Locals
  <2>2. CASE h[s].kind = "kill"
    <3>1. CancelInvocation(h[s].id, TRUE) \/ UNCHANGED storeVars
      BY <1>4, <2>2 DEF CancelKill
    <3> QED
      BY <2>1, <3>1 DEF StoreNext
  <2>3. CASE h[s].kind # "kill"
    <3>1. CancelInvocation(h[s].id, FALSE) \/ UNCHANGED storeVars
      BY <1>4, <2>3 DEF CancelKill
    <3> QED
      BY <2>1, <3>1 DEF StoreNext
  <2> QED
    BY <2>2, <2>3
<1>5. ASSUME NEW s \in Session,
             Register(s) \/ Unregister(s) \/ Disconnect(s) \/ CloseSession(s)
      PROVE  StoreNext \/ UNCHANGED storeVars
  BY <1>5 DEF Register, Unregister, Disconnect, CloseSession, StoreNext
<1>6. ASSUME NEW i \in InvId, Expire(i) PROVE StoreNext
  BY <1>6 DEF Expire, StoreNext
<1>7. ASSUME NEW s \in Session,
             \/ CallDenied(s) \/ CallThrows(s) \/ CallRefuse(s) \/ CallForward(s)
             \/ CancelFind(s) \/ CancelDenied(s) \/ CancelInterrupt(s)
             \/ CancelAck(s) \/ YieldGet(s) \/ ErrorGet(s) \/ AnswerReply(s)
      PROVE  UNCHANGED storeVars
  BY <1>7 DEF CallDenied, CallThrows, CallRefuse, CallForward, CancelFind,
     CancelDenied, CancelInterrupt, CancelAck, YieldGet, ErrorGet, AnswerGet,
     AnswerReply
<1>8. ASSUME NEW s \in Session, HandlerStep(s)
      PROVE  StoreNext \/ UNCHANGED storeVars
  BY <1>1, <1>2, <1>3, <1>4, <1>7, <1>8 DEF HandlerStep
<1>9. ASSUME NEW c \in Call,
             \/ \E kind \in {"more", "last"} : ReceiveCall(c, kind)
             \/ \E mode \in Modes : ReceiveCancel(c, mode)
      PROVE  UNCHANGED storeVars
  BY <1>9 DEF ReceiveCall, ReceiveCancel
<1>10. ASSUME NEW s \in Session, NEW i \in InvId,
              NEW kind \in {"progress", "result", "error"},
              ReceiveAnswer(s, i, kind)
       PROVE  UNCHANGED storeVars
  BY <1>10 DEF ReceiveAnswer
<1>11. ASSUME UNCHANGED vars PROVE UNCHANGED storeVars
  BY <1>11 DEF vars
<1> QED
  BY <1>5, <1>6, <1>8, <1>9, <1>10, <1>11 DEF Next
(* Every step keeps the types: the store's by StoreTypeStep, the handlers' *)
(* because each program counter is reached with the locals it needs.       *)
LEMMA TypeStep == TypeInv /\ [Next]_vars => TypeInv'
<1> SUFFICES ASSUME TypeOK, HandlersOK, [Next]_vars PROVE TypeInv'
  BY DEF TypeInv
<1> DEFINE HandlersNext == h' \in [Session -> Handler] /\ HandlersOK'
           WireNext == replies' \in [Call -> Seq(Reply)]
<1>a. h \in [Session -> Handler] /\ StoreTypeOK
  BY DEF TypeOK
<1>b. \A s \in Session : h[s] \in Handler /\ Locals(h[s])
  BY DEF TypeOK, HandlersOK
<1>c. ASSUME NEW c \in Call, NEW r \in Reply, SendToCaller(c, r)
      PROVE  WireNext
  BY <1>c DEF SendToCaller, TypeOK
<1>d. \A i \in InvId : inv[i] \in PendingInvocation /\ inv[i].call \in Call
  BY DEF TypeOK, StoreTypeOK, PendingInvocation
<1>f. InvId \subseteq 0..MaxInv
  BY DEF InvId
<1>e. StoreTypeOK'
  BY <1>a, StoreStep, StoreTypeStep DEF TypeInv
<1>1. ASSUME NEW c \in Call, NEW kind \in {"more", "last"}, ReceiveCall(c, kind)
      PROVE  TypeInv'
  <2> DEFINE r == [Idle EXCEPT !.pc = "call", !.call = c, !.kind = kind]
  <2>1. r \in Handler /\ Locals(r)
    BY IdleType DEF Handler, Locals, Pc, Idle
  <2>2. HandlersNext
    BY <1>1, <1>a, <2>1, HandlerStepOK DEF ReceiveCall
  <2> QED
    BY <1>1, <1>e, <2>2 DEF ReceiveCall, TypeInv, TypeOK, wireVars, storeVars
<1>2. ASSUME NEW c \in Call, NEW mode \in Modes, ReceiveCancel(c, mode)
      PROVE  TypeInv'
  <2> DEFINE r == [Idle EXCEPT !.pc = "cancel", !.call = c, !.kind = mode]
  <2>1. r \in Handler /\ Locals(r)
    BY IdleType DEF Handler, Locals, Pc, Idle
  <2>2. HandlersNext
    BY <1>2, <1>a, <2>1, HandlerStepOK DEF ReceiveCancel
  <2> QED
    BY <1>2, <1>e, <2>2 DEF ReceiveCancel, TypeInv, TypeOK, clientVars, wireVars, storeVars
<1>3. ASSUME NEW s \in Session, NEW i \in InvId,
             NEW kind \in {"progress", "result", "error"},
             ReceiveAnswer(s, i, kind)
      PROVE  TypeInv'
  <2> DEFINE r == [Idle EXCEPT
                      !.pc = IF kind = "error" THEN "error" ELSE "yield",
                      !.call = inv[i].call, !.id = i, !.kind = kind]
  <2>0. r \in Handler
    BY <1>d, <1>f, IdleType DEF Handler, Pc, Idle
  <2>1. r \in Handler /\ Locals(r)
    BY <2>0 DEF Locals, Idle
  <2>2. HandlersNext
    BY <1>3, <1>a, <2>1, HandlerStepOK DEF ReceiveAnswer
  <2>3. yields' \in [InvId -> 0..MaxProgress] /\ finals' \subseteq Session \X InvId
    BY <1>3 DEF ReceiveAnswer, TypeOK
  <2> QED
    BY <1>3, <1>e, <2>2, <2>3 DEF ReceiveAnswer, TypeInv, TypeOK, wireVars, storeVars
<1>4. ASSUME NEW s \in Session,
             Register(s) \/ Unregister(s) \/ Disconnect(s) \/ CloseSession(s)
      PROVE  TypeInv'
  <2>2. HandlersNext
    BY <1>4, <1>a DEF Register, Unregister, Disconnect, CloseSession, dealerVars,
       HandlersOK, Locals
  <2>3. connected' \subseteq open'
    BY <1>4 DEF Register, Unregister, Disconnect, CloseSession, TypeOK, dealerVars,
       RegisterProcedure, UnregisterProcedure, CloseStoreSession, storeVars
  <2> QED
    BY <1>4, <1>e, <2>2, <2>3 DEF Register, Unregister, Disconnect, CloseSession,
       TypeInv, TypeOK, dealerVars, clientVars, wireVars
<1>5. ASSUME NEW s \in Session, CallDispatchNew(s) PROVE TypeInv'
  <2> DEFINE r == [h[s] EXCEPT !.pc = "forward", !.id = nextInv]
  <2>1. nextInv \in InvId /\ h[s].call \in Call /\ h[s].kind \in {"more", "last"}
    BY <1>5, <1>b DEF CallDispatchNew, DispatchNew, At, Handler, Locals
  <2>a. h[s] \in Handler
    BY <1>b
  <2>b. r \in Handler
    BY <1>f, <2>a, <2>1 DEF Handler, Pc
  <2>4. r \in Handler /\ Locals(r)
    BY <2>a, <2>b, <2>1 DEF Handler, Locals
  <2>5. h' = [h EXCEPT ![s] = r]
    BY <1>5, <1>a DEF CallDispatchNew, Handler
  <2>6. HandlersNext
    BY <1>a, <2>4, <2>5, HandlerStepOK
  <2>7. open' = open
    BY <1>5 DEF CallDispatchNew, DispatchNew
  <2> QED
    BY <1>5, <1>e, <2>6, <2>7 DEF CallDispatchNew, TypeInv, TypeOK, clientVars, wireVars
<1>6. ASSUME NEW s \in Session, CallDispatchChunk(s) PROVE TypeInv'
  <2>1. PICK i \in FindInvocationByCaller(h[s].call) :
            /\ DispatchChunk(h[s].call, i, h[s].kind = "more")
            /\ h' = [h EXCEPT ![s].pc = "forward", ![s].id = i]
    BY <1>6 DEF CallDispatchChunk
  <2> DEFINE r == [h[s] EXCEPT !.pc = "forward", !.id = i]
  <2>2. i \in InvId /\ h[s].call \in Call /\ h[s].kind \in {"more", "last"}
    BY <1>6, <1>a, <1>b DEF CallDispatchChunk, At, Handler, Locals,
       FindInvocationByCaller, StoreTypeOK
  <2>a. h[s] \in Handler
    BY <1>b
  <2>b. r \in Handler
    BY <1>f, <2>a, <2>2 DEF Handler, Pc
  <2>4. r \in Handler /\ Locals(r)
    BY <2>a, <2>b, <2>2 DEF Handler, Locals
  <2>5. h' = [h EXCEPT ![s] = r]
    BY <2>1, <1>a DEF Handler
  <2>6. HandlersNext
    BY <1>a, <2>4, <2>5, HandlerStepOK
  <2>7. open' = open
    BY <2>1 DEF DispatchChunk
  <2> QED
    BY <1>6, <1>e, <2>6, <2>7 DEF CallDispatchChunk, TypeInv, TypeOK, clientVars, wireVars
<1>7. ASSUME NEW s \in Session, CallDenied(s) \/ CallThrows(s)
      PROVE  TypeInv'
  <2>1. Locals([h[s] EXCEPT !.pc = "refuse"])
    BY <1>b DEF Locals, Handler
  <2>2. HandlersNext
    BY <1>7, <1>a, <2>1, GotoOK DEF CallDenied, CallThrows, Pc
  <2> QED
    BY <1>7, <1>e, <2>2 DEF CallDenied, CallThrows, storeVars, TypeInv, TypeOK, clientVars, wireVars
<1>8. ASSUME NEW s \in Session,
             CallRefuse(s) \/ CancelAck(s) \/ AnswerReply(s)
      PROVE  TypeInv'
  <2>1. HandlersNext
    BY <1>8, <1>a, DoneOK DEF CallRefuse, CancelAck, AnswerReply
  <2>2. h[s].call \in Call /\ (At(s, "reply") => h[s].kind \in Reply)
    BY <1>b DEF Handler, Locals, At, Reply, Terminal
  <2>3. WireNext
    BY <1>8, <1>c, <2>2 DEF CallRefuse, CancelAck, AnswerReply, Reply, Terminal
  <2> QED
    BY <1>8, <1>e, <2>1, <2>3 DEF CallRefuse, CancelAck, AnswerReply, storeVars,
       TypeInv, TypeOK, clientVars, wireVars
<1>9. ASSUME NEW s \in Session, CallForward(s) PROVE TypeInv'
  <2>1. HandlersNext
    BY <1>9, <1>a, DoneOK DEF CallForward
  <2>2. invoked' \subseteq InvId
    BY <1>9, <1>b DEF CallForward, At, Locals, TypeOK
  <2> QED
    BY <1>9, <1>e, <2>1, <2>2 DEF CallForward, storeVars, TypeInv, TypeOK, clientVars, wireVars
<1>10. ASSUME NEW s \in Session, CancelFind(s) PROVE TypeInv'
  <2>1. HandlersNext
    <3>1. CASE Done(s)
      BY <3>1, <1>a, DoneOK
    <3>2. ASSUME NEW i \in FindInvocationByCaller(h[s].call),
                 h' = [h EXCEPT ![s].pc = "cancelAct", ![s].id = i]
          PROVE  HandlersNext
      <4> DEFINE r == [h[s] EXCEPT !.pc = "cancelAct", !.id = i]
      <4>1. i \in InvId
        BY <1>a DEF FindInvocationByCaller, StoreTypeOK
      <4>a. h[s] \in Handler
        BY <1>b
      <4>b. r \in Handler
        BY <1>f, <4>a, <4>1 DEF Handler, Pc
      <4>2. r \in Handler /\ Locals(r)
        BY <4>a, <4>b, <4>1 DEF Handler, Locals
      <4>3. h' = [h EXCEPT ![s] = r]
        BY <3>2, <1>a DEF Handler
      <4> QED
        BY <1>a, <4>2, <4>3, HandlerStepOK
    <3> QED
      BY <1>10, <3>1, <3>2 DEF CancelFind
  <2> QED
    BY <1>10, <1>e, <2>1 DEF CancelFind, storeVars, TypeInv, TypeOK, clientVars, wireVars
<1>11. ASSUME NEW s \in Session, CancelDenied(s) PROVE TypeInv'
  <2>1. HandlersNext
    BY <1>11, <1>a, DoneOK DEF CancelDenied
  <2> QED
    BY <1>11, <1>e, <2>1 DEF CancelDenied, storeVars, TypeInv, TypeOK, clientVars, wireVars
<1>12. ASSUME NEW s \in Session, CancelSkip(s) PROVE TypeInv'
  <2>1. h[s].id \in InvId /\ Locals([h[s] EXCEPT !.pc = "ack"])
    BY <1>12, <1>b DEF CancelSkip, At, Locals, Handler
  <2>2. HandlersNext
    BY <1>12, <1>a, <2>1, GotoOK DEF CancelSkip, Pc
  <2> QED
    BY <1>12, <1>e, <2>2 DEF CancelSkip, CompleteInvocation, TypeInv, TypeOK, clientVars, wireVars
<1>13. ASSUME NEW s \in Session, CancelKill(s) PROVE TypeInv'
  <2>1. h[s].id \in InvId /\ Locals([h[s] EXCEPT !.pc = "interrupt"])
    BY <1>13, <1>b DEF CancelKill, At, Locals, Handler
  <2>2. HandlersNext
    BY <1>13, <1>a, <2>1, GotoOK, DoneOK DEF CancelKill, Pc
  <2> QED
    BY <1>13, <1>e, <2>2 DEF CancelKill, CancelInvocation, storeVars, TypeInv, TypeOK, clientVars, wireVars
<1>14. ASSUME NEW s \in Session, CancelInterrupt(s) PROVE TypeInv'
  <2>1. HandlersNext
    BY <1>14, <1>a, DoneOK DEF CancelInterrupt
  <2>2. interrupted' \subseteq InvId
    BY <1>14, <1>b DEF CancelInterrupt, At, Locals, TypeOK
  <2>3. WireNext
    BY <1>14, <1>b, <1>c DEF CancelInterrupt, Handler, Reply, Terminal, TypeOK
  <2> QED
    BY <1>14, <1>e, <2>1, <2>2, <2>3 DEF CancelInterrupt, storeVars, TypeInv, TypeOK, clientVars, wireVars
<1>15. ASSUME NEW s \in Session, YieldGet(s) \/ ErrorGet(s)
      PROVE  TypeInv'
  <2>1. HandlersNext
    <3>1. CASE Done(s)
      BY <3>1, <1>a, DoneOK
    <3>2. ASSUME NEW pc, NEW next \in {"yieldAct", "errorAct"}, At(s, pc),
                 (pc = "yield" /\ next = "yieldAct")
                   \/ (pc = "error" /\ next = "errorAct"),
                 h' = [h EXCEPT ![s].pc = next,
                                ![s].cancelled = inv[h[s].id].cancelRequested]
          PROVE  HandlersNext
      <4> DEFINE r == [h[s] EXCEPT !.pc = next,
                         !.cancelled = inv[h[s].id].cancelRequested]
      <4>1. inv[h[s].id].cancelRequested \in BOOLEAN
        BY <3>2, <1>b, <1>d DEF At, Locals, PendingInvocation
      <4>2. r \in Handler
        BY <1>b, <4>1 DEF Handler, Pc
      <4>3. Locals(r)
        BY <1>b, <3>2 DEF Handler, Locals, At
      <4>4. h' = [h EXCEPT ![s] = r]
        BY <3>2, <1>a DEF Handler
      <4> QED
        BY <1>a, <4>2, <4>3, <4>4, HandlerStepOK
    <3> QED
      BY <1>15, <3>1, <3>2 DEF YieldGet, ErrorGet, AnswerGet
  <2> QED
    BY <1>15, <1>e, <2>1 DEF YieldGet, ErrorGet, AnswerGet, storeVars, TypeInv, TypeOK, clientVars, wireVars
<1>16. ASSUME NEW s \in Session, YieldRejected(s) PROVE TypeInv'
  <2>1. h[s].id \in InvId /\ h[s].call \in Call
    BY <1>16, <1>b DEF YieldRejected, At, Locals, Handler
  <2>2. HandlersNext
    BY <1>16, <1>a, DoneOK DEF YieldRejected
  <2> QED
    BY <1>16, <1>e, <2>2 DEF YieldRejected, CompleteInvocation, storeVars,
       TypeInv, TypeOK, clientVars, wireVars
<1>17. ASSUME NEW s \in Session, YieldAct(s) \/ ErrorAct(s) PROVE TypeInv'
  <2>1. /\ h[s].id \in InvId /\ h[s].call \in Call
        /\ Locals([h[s] EXCEPT !.pc = "lookup"])
    BY <1>17, <1>b DEF YieldAct, ErrorAct, At, Locals, Handler
  <2>2. HandlersNext
    BY <1>17, <1>a, <2>1, GotoOK, DoneOK DEF YieldAct, ErrorAct, Pc
  <2> QED
    BY <1>17, <1>e, <2>2 DEF YieldAct, ErrorAct, CompleteInvocation,
       TouchInvocation, TypeInv, TypeOK, clientVars, wireVars
<1>18. ASSUME NEW s \in Session, AnswerLookup(s) PROVE TypeInv'
  <2>1. /\ h[s].id \in InvId /\ h[s].call \in Call
        /\ Locals([h[s] EXCEPT !.pc = "reply"])
    BY <1>18, <1>b DEF AnswerLookup, At, Locals, Handler
  <2>2. HandlersNext
    BY <1>18, <1>a, <2>1, GotoOK, DoneOK DEF AnswerLookup, Pc
  <2> QED
    BY <1>18, <1>e, <2>2 DEF AnswerLookup, CompleteInvocation, storeVars,
       TypeInv, TypeOK, clientVars, wireVars
<1>19. ASSUME NEW i \in InvId, Expire(i) PROVE TypeInv'
  <2>2. WireNext
    BY <1>19, <1>c, <1>d DEF Expire, Reply, Terminal, TypeOK
  <2>3. HandlersNext
    BY <1>19, <1>a DEF Expire, HandlersOK, Locals
  <2> QED
    BY <1>19, <1>e, <2>2, <2>3 DEF Expire, ExpireInvocation, TypeInv, TypeOK, clientVars, wireVars
<1>20. CASE UNCHANGED vars
  <2>1. HandlersOK'
    BY <1>20, <1>a DEF vars, dealerVars, HandlersOK, Locals
  <2> QED
    BY <1>20, <2>1, <1>e DEF vars, dealerVars, storeVars, TypeInv, TypeOK, clientVars, wireVars
<1> QED
  BY <1>1, <1>2, <1>3, <1>4, <1>5, <1>6, <1>7, <1>8, <1>9, <1>10, <1>11, <1>12, <1>13, <1>14, <1>15, <1>16, <1>17, <1>18, <1>19, <1>20 DEF Next, HandlerStep

(* Every reachable state is well typed, whatever the constants are. *)
THEOREM TypeCorrect == Spec => []TypeOK
<1>1. TypeInv => TypeOK
  BY DEF TypeInv
<1> QED
  BY TypeInit, TypeStep, <1>1, PTL DEF Spec

(* The dealer uses the store as StoreSpec allows: the refinement mapping   *)
(* is the identity on the store's variables.                               *)
THEOREM DealerUsesStore == Spec => StoreSpec
<1>1. Init => StoreInit
  BY DEF Init
<1> QED
  BY TypeInit, TypeStep, StoreStep, <1>1, PTL DEF Spec, StoreSpec

(* No worker handler, whatever it interleaves with, leaves an invocation   *)
(* behind that belongs to a closed session or that nothing can end, nor a  *)
(* second one for a call.                                                  *)
THEOREM NoOrphansHolds == Spec => []NoOrphans
BY DealerUsesStore, StoreKeepsInvocations, PTL

(* See StoreKeepsInvocations. *)
THEOREM OnePendingHolds == Spec => []OnePending
BY DealerUsesStore, StoreKeepsInvocations, PTL
-----------------------------------------------------------------------------
(* A handler that holds a call acts for its caller, and the invocation it  *)
(* holds was handed out for that call.                                     *)
Linked(s, r, n, f) ==
    /\ r.pc \in {"call", "refuse", "forward", "cancel", "cancelAct",
                 "interrupt", "ack"} => CallerOf[r.call] = s
    /\ r.pc \in {"forward", "cancelAct", "interrupt", "yield", "yieldAct",
                 "error", "errorAct", "lookup", "reply"} =>
          r.id \in 1..(n - 1) /\ f[r.id].call = r.call

AllLinked == \A s \in Session : Linked(s, h[s], nextInv, inv)

(* An invocation handed out is on the wire, or its caller's handler is     *)
(* about to put it there.                                                  *)
Forwarded ==
    /\ invoked \subseteq 1..(nextInv - 1)
    /\ \A i \in 1..(nextInv - 1) :
          \/ i \in invoked
          \/ /\ h[CallerOf[inv[i].call]].pc = "forward"
             /\ h[CallerOf[inv[i].call]].id = i

CallInv == /\ TypeInv /\ StoreInv /\ AllLinked /\ Forwarded
           /\ InterruptAfterInvocation

LEMMA LinkUpdate ==
    ASSUME h \in [Session -> Handler], AllLinked, NEW s \in Session, NEW r,
           \A i \in 1..(nextInv - 1) :
               i \in 1..(nextInv' - 1) /\ inv'[i].call = inv[i].call,
           Linked(s, r, nextInv', inv'), h' = [h EXCEPT ![s] = r]
    PROVE  AllLinked'
<1> SUFFICES ASSUME NEW x \in Session PROVE Linked(x, h'[x], nextInv', inv')
  BY DEF AllLinked
<1>1. CASE x = s
  BY <1>1
<1>2. CASE x # s
  <2>1. h'[x] = h[x]
    BY <1>2
  <2> QED
    BY <2>1 DEF AllLinked, Linked
<1> QED
  BY <1>1, <1>2

LEMMA LinkStep == CallInv /\ [Next]_vars => AllLinked'
<1> SUFFICES ASSUME TypeOK, HandlersOK, StoreInv, AllLinked, Forwarded, [Next]_vars
             PROVE  AllLinked'
  BY DEF CallInv, TypeInv
<1>a. h \in [Session -> Handler] /\ StoreTypeOK /\ Issued
  BY DEF TypeOK, StoreInv
<1>b. \A i \in 1..(nextInv - 1) :
          i \in 1..(nextInv' - 1) /\ inv'[i].call = inv[i].call
  BY <1>a, StoreStep, RecordsKept DEF TypeInv
<1>c. \A s \in Session : h[s] \in Handler /\ Linked(s, h[s], nextInv, inv)
  BY <1>a DEF AllLinked
<1>d. ASSUME NEW s \in Session, Done(s) PROVE AllLinked'
  <2>1. Linked(s, Idle, nextInv', inv')
    BY DEF Linked, Idle
  <2> QED
    BY <1>a, <1>b, <1>d, <2>1, LinkUpdate DEF Done
(* Going on with the same call and invocation, or to an answer of the call. *)
<1>e. ASSUME NEW s \in Session, NEW pc \in Pc, Goto(s, pc),
             \/ pc \in {"refuse", "ack"}
                  /\ h[s].pc \in {"call", "cancel", "cancelAct"}
             \/ pc \in {"interrupt"} /\ h[s].pc = "cancelAct"
             \/ pc \in {"lookup", "reply"}
                  /\ h[s].pc \in {"yieldAct", "errorAct", "lookup"}
      PROVE  AllLinked'
  <2> DEFINE r == [h[s] EXCEPT !.pc = pc]
  <2>1. h' = [h EXCEPT ![s] = r]
    BY <1>e DEF Goto
  <2>2. r.pc = pc /\ r.call = h[s].call /\ r.id = h[s].id
    BY <1>c DEF Handler
  <2>3. Linked(s, r, nextInv', inv')
    BY <1>b, <1>c, <1>e, <2>2 DEF Linked
  <2> QED
    BY <1>a, <1>b, <2>1, <2>3, LinkUpdate
<1>1. ASSUME NEW c \in Call, NEW kind, ReceiveCall(c, kind) PROVE AllLinked'
  <2> DEFINE r == [Idle EXCEPT !.pc = "call", !.call = c, !.kind = kind]
  <2>1. Linked(CallerOf[c], r, nextInv', inv')
    BY DEF Linked, Idle
  <2> QED
    BY <1>1, <1>a, <1>b, <2>1, LinkUpdate DEF ReceiveCall
<1>2. ASSUME NEW c \in Call, NEW mode, ReceiveCancel(c, mode) PROVE AllLinked'
  <2> DEFINE r == [Idle EXCEPT !.pc = "cancel", !.call = c, !.kind = mode]
  <2>1. Linked(CallerOf[c], r, nextInv', inv')
    BY DEF Linked, Idle
  <2> QED
    BY <1>2, <1>a, <1>b, <2>1, LinkUpdate DEF ReceiveCancel
<1>3. ASSUME NEW s \in Session, NEW i \in InvId, NEW kind, ReceiveAnswer(s, i, kind)
      PROVE  AllLinked'
  <2> DEFINE r == [Idle EXCEPT
                      !.pc = IF kind = "error" THEN "error" ELSE "yield",
                      !.call = inv[i].call, !.id = i, !.kind = kind]
  <2>1. i \in 1..(nextInv - 1)
    BY <1>3 DEF ReceiveAnswer, Forwarded
  <2>2. r.pc \in {"error", "yield"} /\ r.call = inv[i].call /\ r.id = i
    BY DEF Idle
  <2>3. Linked(s, r, nextInv', inv')
    BY <1>b, <2>1, <2>2 DEF Linked
  <2>4. h' = [h EXCEPT ![s] = r]
    BY <1>3 DEF ReceiveAnswer
  <2> QED
    BY <1>a, <1>b, <2>3, <2>4, LinkUpdate
<1>4. ASSUME NEW s \in Session, CallDispatchNew(s) PROVE AllLinked'
  <2> DEFINE r == [h[s] EXCEPT !.pc = "forward", !.id = nextInv]
  <2>1. /\ nextInv \in InvId /\ nextInv' = nextInv + 1
        /\ inv'[nextInv].call = h[s].call
    BY <1>4, <1>a DEF CallDispatchNew, DispatchNew, StoreTypeOK
  <2>2. r.pc = "forward" /\ r.call = h[s].call /\ r.id = nextInv
    BY <1>c DEF Handler
  <2>3. CallerOf[h[s].call] = s
    BY <1>4, <1>c DEF CallDispatchNew, At, Linked
  <2>4. nextInv \in 1..(nextInv' - 1)
    BY <1>a, <2>1 DEF InvId
  <2>5. Linked(s, r, nextInv', inv')
    BY <2>1, <2>2, <2>3, <2>4 DEF Linked
  <2>6. h' = [h EXCEPT ![s] = r]
    BY <1>4, <1>a DEF CallDispatchNew, Handler
  <2> QED
    BY <1>a, <1>b, <2>5, <2>6, LinkUpdate
<1>5. ASSUME NEW s \in Session, NEW pc \in {"forward", "cancelAct"},
             NEW i \in FindInvocationByCaller(h[s].call),
             h[s].pc \in {"call", "cancel"},
             h' = [h EXCEPT ![s].pc = pc, ![s].id = i]
      PROVE  AllLinked'
  <2> DEFINE r == [h[s] EXCEPT !.pc = pc, !.id = i]
  <2>1. i \in 1..(nextInv - 1) /\ inv[i].call = h[s].call
    BY <1>a DEF Issued, FindInvocationByCaller
  <2>2. r.pc = pc /\ r.call = h[s].call /\ r.id = i
    BY <1>c DEF Handler
  <2>3. CallerOf[h[s].call] = s
    BY <1>5, <1>c DEF Linked
  <2>4. Linked(s, r, nextInv', inv')
    BY <1>b, <2>1, <2>2, <2>3 DEF Linked
  <2>5. h' = [h EXCEPT ![s] = r]
    BY <1>5, <1>a DEF Handler
  <2> QED
    BY <1>a, <1>b, <2>4, <2>5, LinkUpdate
<1>6. ASSUME NEW s \in Session, CallDispatchChunk(s) \/ CancelFind(s)
      PROVE  AllLinked'
  BY <1>d, <1>5, <1>6 DEF CallDispatchChunk, CancelFind, At
<1>7. ASSUME NEW s \in Session,
             \/ CallDenied(s) \/ CallThrows(s) \/ CancelSkip(s) \/ CancelKill(s)
             \/ YieldAct(s) \/ ErrorAct(s) \/ AnswerLookup(s)
      PROVE  AllLinked'
  BY <1>d, <1>e, <1>7 DEF CallDenied, CallThrows, CancelSkip, CancelKill,
     YieldAct, ErrorAct, AnswerLookup, At, Pc
<1>8. ASSUME NEW s \in Session,
             \/ CallRefuse(s) \/ CallForward(s) \/ CancelDenied(s) \/ CancelAck(s)
             \/ CancelInterrupt(s) \/ YieldRejected(s) \/ AnswerReply(s)
      PROVE  AllLinked'
  BY <1>d, <1>8 DEF CallRefuse, CallForward, CancelDenied, CancelAck,
     CancelInterrupt, YieldRejected, AnswerReply
<1>9. ASSUME NEW s \in Session, NEW pc, NEW next,
             \/ pc = "yield" /\ next = "yieldAct"
             \/ pc = "error" /\ next = "errorAct",
             AnswerGet(s, pc, next)
      PROVE  AllLinked'
  <2>1. CASE Done(s)
    BY <1>d, <2>1
  <2>2. CASE h' = [h EXCEPT ![s].pc = next,
                            ![s].cancelled = inv[h[s].id].cancelRequested]
    <3> DEFINE r == [h[s] EXCEPT !.pc = next,
                       !.cancelled = inv[h[s].id].cancelRequested]
    <3>1. r.pc = next /\ r.call = h[s].call /\ r.id = h[s].id
      BY <1>c DEF Handler
    <3>2. Linked(s, r, nextInv', inv')
      BY <1>9, <1>b, <1>c, <3>1 DEF Linked, AnswerGet, At
    <3>3. h' = [h EXCEPT ![s] = r]
      BY <1>a, <2>2 DEF Handler
    <3> QED
      BY <1>a, <1>b, <3>2, <3>3, LinkUpdate
  <2> QED
    BY <1>9, <2>1, <2>2 DEF AnswerGet
<1>10. ASSUME UNCHANGED h PROVE AllLinked'
  BY <1>10, <1>b, <1>c DEF AllLinked, Linked
<1>11. ASSUME NEW s \in Session,
              Register(s) \/ Unregister(s) \/ Disconnect(s) \/ CloseSession(s)
       PROVE  AllLinked'
  BY <1>10, <1>11 DEF Register, Unregister, Disconnect, CloseSession, dealerVars
<1>12. ASSUME NEW i \in InvId, Expire(i) PROVE AllLinked'
  BY <1>10, <1>12 DEF Expire
<1>13. ASSUME UNCHANGED vars PROVE AllLinked'
  BY <1>10, <1>13 DEF vars, dealerVars
<1>14. ASSUME NEW s \in Session, HandlerStep(s) PROVE AllLinked'
  BY <1>4, <1>6, <1>7, <1>8, <1>9, <1>14 DEF HandlerStep, YieldGet, ErrorGet
<1> QED
  BY <1>1, <1>2, <1>3, <1>11, <1>12, <1>13, <1>14 DEF Next

(* Only the handler's own steps change a handler that is running. *)
LEMMA OthersKept ==
    ASSUME TypeOK, NEW s \in Session, NEW x \in Session, x # s,
           HandlerStep(s)
    PROVE  h'[x] = h[x]
<1> USE DEF Goto, Done, TypeOK
<1>1. CASE CallDispatchNew(s) \/ CallDispatchChunk(s) \/ CallDenied(s)
             \/ CallThrows(s) \/ CallRefuse(s) \/ CallForward(s)
  BY <1>1 DEF CallDispatchNew, CallDispatchChunk, CallDenied, CallThrows,
     CallRefuse, CallForward
<1>2. CASE CancelFind(s) \/ CancelDenied(s) \/ CancelSkip(s) \/ CancelKill(s)
             \/ CancelInterrupt(s) \/ CancelAck(s)
  BY <1>2 DEF CancelFind, CancelDenied, CancelSkip, CancelKill,
     CancelInterrupt, CancelAck
<1>3. CASE YieldGet(s) \/ ErrorGet(s) \/ YieldRejected(s) \/ YieldAct(s)
             \/ ErrorAct(s) \/ AnswerLookup(s) \/ AnswerReply(s)
  BY <1>3 DEF YieldGet, ErrorGet, AnswerGet, YieldRejected, YieldAct,
     ErrorAct, AnswerLookup, AnswerReply
<1> QED
  BY <1>1, <1>2, <1>3 DEF HandlerStep

LEMMA RunningKept ==
    ASSUME TypeOK, [Next]_vars, NEW x \in Session, h[x].pc # "idle"
    PROVE  h'[x] = h[x] \/ HandlerStep(x)
<1>0. h[x] # Idle
  BY DEF Idle
<1>1. ASSUME NEW c \in Call, NEW kind, ReceiveCall(c, kind) PROVE h'[x] = h[x]
  BY <1>0, <1>1 DEF ReceiveCall, TypeOK
<1>2. ASSUME NEW c \in Call, NEW mode, ReceiveCancel(c, mode) PROVE h'[x] = h[x]
  BY <1>0, <1>2 DEF ReceiveCancel, TypeOK
<1>3. ASSUME NEW s \in Session, NEW i, NEW kind, ReceiveAnswer(s, i, kind)
      PROVE  h'[x] = h[x]
  BY <1>0, <1>3 DEF ReceiveAnswer, TypeOK
<1>4. ASSUME NEW s \in Session,
             Register(s) \/ Unregister(s) \/ Disconnect(s) \/ CloseSession(s)
      PROVE  h'[x] = h[x]
  BY <1>4 DEF Register, Unregister, Disconnect, CloseSession, dealerVars
<1>5. ASSUME NEW s \in Session, HandlerStep(s) PROVE h'[x] = h[x] \/ HandlerStep(x)
  BY <1>5, OthersKept
<1>6. ASSUME NEW i \in InvId, Expire(i) PROVE h'[x] = h[x]
  BY <1>6 DEF Expire
<1>7. ASSUME UNCHANGED vars PROVE h'[x] = h[x]
  BY <1>7 DEF vars, dealerVars
<1> QED
  BY <1>1, <1>2, <1>3, <1>4, <1>5, <1>6, <1>7 DEF Next

(* What a step puts on the wire, and the ids it hands out. *)
LEMMA WireStep ==
    ASSUME [Next]_vars
    PROVE  /\ \/ invoked' = invoked
              \/ \E s \in Session : At(s, "forward") /\ invoked' = invoked \cup {h[s].id}
           /\ \/ interrupted' = interrupted
              \/ \E s \in Session : /\ At(s, "interrupt")
                                    /\ interrupted' = interrupted \cup {h[s].id}
<1> USE DEF wireVars, dealerVars
<1>1. ASSUME NEW s \in Session, HandlerStep(s), ~CallForward(s), ~CancelInterrupt(s)
      PROVE  invoked' = invoked /\ interrupted' = interrupted
  <2>1. CASE CallDispatchNew(s) \/ CallDispatchChunk(s) \/ CallDenied(s)
               \/ CallThrows(s) \/ CallRefuse(s) \/ CancelFind(s)
               \/ CancelDenied(s) \/ CancelSkip(s) \/ CancelKill(s) \/ CancelAck(s)
    BY <2>1 DEF CallDispatchNew, CallDispatchChunk, CallDenied, CallThrows,
       CallRefuse, CancelFind, CancelDenied, CancelSkip, CancelKill, CancelAck
  <2>2. CASE YieldGet(s) \/ ErrorGet(s) \/ YieldRejected(s) \/ YieldAct(s)
               \/ ErrorAct(s) \/ AnswerLookup(s) \/ AnswerReply(s)
    BY <2>2 DEF YieldGet, ErrorGet, AnswerGet, YieldRejected, YieldAct,
       ErrorAct, AnswerLookup, AnswerReply
  <2> QED
    BY <1>1, <2>1, <2>2 DEF HandlerStep
<1>2. ASSUME NEW s \in Session, CallForward(s) \/ CancelInterrupt(s)
      PROVE  \/ /\ At(s, "forward") /\ invoked' = invoked \cup {h[s].id}
                /\ interrupted' = interrupted
             \/ /\ At(s, "interrupt") /\ interrupted' = interrupted \cup {h[s].id}
                /\ invoked' = invoked
  BY <1>2 DEF CallForward, CancelInterrupt
<1>3. ASSUME NEW c \in Call,
             \/ \E kind \in {"more", "last"} : ReceiveCall(c, kind)
             \/ \E mode \in Modes : ReceiveCancel(c, mode)
      PROVE  invoked' = invoked /\ interrupted' = interrupted
  BY <1>3 DEF ReceiveCall, ReceiveCancel
<1>4. ASSUME NEW s \in Session, NEW i \in InvId,
             NEW kind \in {"progress", "result", "error"}, ReceiveAnswer(s, i, kind)
      PROVE  invoked' = invoked /\ interrupted' = interrupted
  BY <1>4 DEF ReceiveAnswer
<1>5. ASSUME NEW s \in Session,
             Register(s) \/ Unregister(s) \/ Disconnect(s) \/ CloseSession(s)
      PROVE  invoked' = invoked /\ interrupted' = interrupted
  BY <1>5 DEF Register, Unregister, Disconnect, CloseSession
<1>6. ASSUME NEW i \in InvId, Expire(i)
      PROVE  invoked' = invoked /\ interrupted' = interrupted
  BY <1>6 DEF Expire
<1>7. ASSUME UNCHANGED vars PROVE invoked' = invoked /\ interrupted' = interrupted
  BY <1>7 DEF vars
<1> QED
  BY <1>1, <1>2, <1>3, <1>4, <1>5, <1>6, <1>7 DEF Next

(* An id is handed out only by a CALL, which then forwards it. *)
LEMMA FreshStep ==
    ASSUME [Next]_vars, TypeOK, HandlersOK
    PROVE  \/ nextInv' = nextInv
           \/ \E s \in Session : CallDispatchNew(s)
<1>1. ASSUME NEW s \in Session, HandlerStep(s), ~CallDispatchNew(s)
      PROVE  nextInv' = nextInv
  <2>1. CASE CallDispatchChunk(s) \/ CallDenied(s)
               \/ CallThrows(s) \/ CallRefuse(s) \/ CallForward(s) \/ CancelFind(s)
               \/ CancelDenied(s) \/ CancelSkip(s) \/ CancelKill(s)
               \/ CancelInterrupt(s) \/ CancelAck(s)
    BY <2>1 DEF CallDispatchChunk, DispatchChunk, CallDenied, CallThrows,
       CallRefuse, CallForward, CancelFind, CancelDenied, CancelSkip,
       CancelKill, CancelInterrupt, CancelAck, CompleteInvocation,
       CancelInvocation, storeVars
  <2>2. CASE YieldGet(s) \/ ErrorGet(s) \/ YieldRejected(s) \/ YieldAct(s)
               \/ ErrorAct(s) \/ AnswerLookup(s) \/ AnswerReply(s)
    BY <2>2 DEF YieldGet, ErrorGet, AnswerGet, YieldRejected, YieldAct,
       ErrorAct, AnswerLookup, AnswerReply, CompleteInvocation,
       TouchInvocation, storeVars
  <2> QED
    BY <1>1, <2>1, <2>2 DEF HandlerStep
<1>2. ASSUME NEW c \in Call,
             \/ \E kind \in {"more", "last"} : ReceiveCall(c, kind)
             \/ \E mode \in Modes : ReceiveCancel(c, mode)
      PROVE  nextInv' = nextInv
  BY <1>2 DEF ReceiveCall, ReceiveCancel, storeVars
<1>3. ASSUME NEW s \in Session, NEW i \in InvId,
             NEW kind \in {"progress", "result", "error"}, ReceiveAnswer(s, i, kind)
      PROVE  nextInv' = nextInv
  BY <1>3 DEF ReceiveAnswer, storeVars
<1>4. ASSUME NEW s \in Session,
             Register(s) \/ Unregister(s) \/ Disconnect(s) \/ CloseSession(s)
      PROVE  nextInv' = nextInv
  BY <1>4 DEF Register, Unregister, Disconnect, CloseSession,
     RegisterProcedure, UnregisterProcedure, CloseStoreSession, storeVars
<1>5. ASSUME NEW i \in InvId, Expire(i) PROVE nextInv' = nextInv
  BY <1>5 DEF Expire, ExpireInvocation
<1>6. ASSUME UNCHANGED vars PROVE nextInv' = nextInv
  BY <1>6 DEF vars, storeVars
<1> QED
  BY <1>1, <1>2, <1>3, <1>4, <1>5, <1>6 DEF Next

LEMMA ForwardStep == CallInv /\ [Next]_vars => Forwarded' /\ InterruptAfterInvocation'
<1> SUFFICES ASSUME CallInv, [Next]_vars
             PROVE  Forwarded' /\ InterruptAfterInvocation'
  OBVIOUS
<1>a. /\ TypeOK /\ HandlersOK /\ StoreTypeOK /\ Issued /\ AllLinked /\ Forwarded
      /\ InterruptAfterInvocation /\ TypeInv
  BY DEF CallInv, TypeInv, TypeOK, StoreInv
<1>b. \A i \in 1..(nextInv - 1) :
          /\ i \in 1..(nextInv' - 1) /\ i \in InvId /\ inv[i].call \in Call
          /\ inv'[i].call = inv[i].call
  BY <1>a, StoreStep, RecordsKept DEF StoreTypeOK, PendingInvocation
<1>c. invoked \subseteq invoked'
  BY WireStep
<1>d. \A x \in Session :
          At(x, "forward") => h'[x] = h[x] \/ h[x].id \in invoked'
  <2> SUFFICES ASSUME NEW x \in Session, h[x].pc = "forward", HandlerStep(x)
               PROVE  h[x].id \in invoked'
    BY <1>a, RunningKept DEF At
  <2> QED
    BY DEF HandlerStep, At, CallDispatchNew, CallDispatchChunk, CallDenied,
       CallThrows, CallRefuse, CallForward, CancelFind, CancelDenied,
       CancelSkip, CancelKill, CancelInterrupt, CancelAck, YieldGet, ErrorGet,
       AnswerGet, YieldRejected, YieldAct, ErrorAct, AnswerLookup, AnswerReply
<1>e. \A s \in Session : At(s, "forward") \/ At(s, "interrupt") =>
          h[s].id \in 1..(nextInv - 1) /\ inv[h[s].id].call = h[s].call
            /\ CallerOf[h[s].call] = s
  BY <1>a DEF AllLinked, Linked, At
<1>1. invoked' \subseteq 1..(nextInv' - 1)
  <2>1. invoked' \subseteq 1..(nextInv - 1)
    <3>1. invoked \subseteq 1..(nextInv - 1)
      BY <1>a DEF Forwarded
    <3>2. ASSUME NEW s \in Session, At(s, "forward"),
                 invoked' = invoked \cup {h[s].id}
          PROVE  invoked' \subseteq 1..(nextInv - 1)
      BY <1>e, <3>1, <3>2
    <3> QED
      BY <3>1, <3>2, WireStep
  <2> QED
    BY <2>1, <1>b
<1>2. ASSUME NEW i \in 1..(nextInv' - 1), i \notin invoked'
      PROVE  /\ h'[CallerOf[inv'[i].call]].pc = "forward"
             /\ h'[CallerOf[inv'[i].call]].id = i
  <2>1. CASE i \in 1..(nextInv - 1)
    <3> DEFINE x == CallerOf[inv[i].call]
    <3>1. x \in Session /\ inv'[i].call = inv[i].call
      BY <1>b, <2>1
    <3>2. h[x].pc = "forward" /\ h[x].id = i
      BY <1>a, <1>2, <1>c, <2>1 DEF Forwarded
    <3>3. h'[x] = h[x]
      BY <1>d, <1>2, <3>1, <3>2 DEF At
    <3> QED
      BY <3>1, <3>2, <3>3
  <2>2. CASE i \notin 1..(nextInv - 1)
    <3>0. nextInv' # nextInv
      BY <2>2
    <3>1. PICK s \in Session : CallDispatchNew(s)
      BY <1>a, <3>0, FreshStep
    <3>2. /\ nextInv \in InvId /\ nextInv' = nextInv + 1
          /\ inv'[nextInv].call = h[s].call
      BY <1>a, <3>1 DEF CallDispatchNew, DispatchNew, StoreTypeOK
    <3>3. i = nextInv
      BY <1>a, <2>2, <3>2 DEF StoreTypeOK, InvId
    <3>4. CallerOf[h[s].call] = s
      BY <1>a, <3>1 DEF CallDispatchNew, At, AllLinked, Linked
    <3>5. h'[s].pc = "forward" /\ h'[s].id = nextInv
      BY <1>a, <3>1 DEF CallDispatchNew, TypeOK, Handler
    <3> QED
      BY <3>2, <3>3, <3>4, <3>5
  <2> QED
    BY <2>1, <2>2
<1>3. InterruptAfterInvocation'
  <2>1. ASSUME NEW s \in Session, At(s, "interrupt") PROVE h[s].id \in invoked
    BY <1>a, <1>e, <2>1 DEF Forwarded, At
  <2> QED
    BY <1>a, <1>c, <2>1, WireStep DEF InterruptAfterInvocation
<1> QED
  BY <1>1, <1>2, <1>3 DEF Forwarded

LEMMA CallInvInit == Init => CallInv
<1> SUFFICES ASSUME Init PROVE CallInv
  OBVIOUS
<1>1. TypeInv /\ StoreInv
  BY TypeInit, StoreInvInit DEF Init
<1>2. AllLinked
  BY DEF Init, AllLinked, Linked, Idle
<1>3. Forwarded /\ InterruptAfterInvocation
  BY DEF Init, StoreInit, Forwarded, InterruptAfterInvocation
<1> QED
  BY <1>1, <1>2, <1>3 DEF CallInv

LEMMA CallInvStep == CallInv /\ [Next]_vars => CallInv'
<1> SUFFICES ASSUME CallInv, [Next]_vars PROVE CallInv'
  OBVIOUS
<1>1. TypeInv /\ StoreInv
  BY DEF CallInv
<1> QED
  BY <1>1, TypeStep, StoreStep, StoreInvStep, LinkStep, ForwardStep DEF CallInv

(* The INTERRUPT of a CANCEL follows its INVOCATION: the caller's CANCEL   *)
(* is not handled before the handler of its CALL has forwarded.            *)
THEOREM InterruptOrdered == Spec => []InterruptAfterInvocation
<1>1. CallInv => InterruptAfterInvocation
  BY DEF CallInv
<1> QED
  BY CallInvInit, CallInvStep, <1>1, PTL DEF Spec
-----------------------------------------------------------------------------
(* The right to answer a call is a token.  It is with the handler of the   *)
(* CALL until dispatch or refusal, with the pending invocation in the      *)
(* store, with the handler that took the invocation out of the store to    *)
(* answer, or it is spent.                                                 *)
Holds(r, c) ==
    /\ r.call = c
    /\ \/ r.pc \in {"call", "refuse"}
       \/ r.pc = "interrupt" /\ r.kind = "killnowait"
       \/ r.pc \in {"lookup", "reply"} /\ r.kind # "progress"

Pending(c) == \E i \in live : inv[i].call = c

AnswersOnce(c) ==
    \A m, n \in 1..Len(replies[c]) :
        replies[c][m] \in Terminal /\ replies[c][n] \in Terminal => m = n

(* There is one token per call, and no chunk is ever sent. *)
Token(c) ==
    /\ Pending(c) => ~Answered(c) /\ \A s \in Session : ~Holds(h[s], c)
    /\ \A s \in Session : Holds(h[s], c) =>
          ~Answered(c) /\ \A x \in Session : Holds(h[x], c) => x = s
    /\ sent[c] = "no" =>
          /\ ~Pending(c) /\ ~Answered(c)
          /\ \A s \in Session : ~Holds(h[s], c)
    /\ sent[c] # "more"
    /\ AnswersOnce(c)

(* Without skip-mode CANCELs. *)
NoSkip ==
    \A s \in Session :
        /\ h[s].pc # "ack"
        /\ h[s].pc \in {"cancel", "cancelAct", "interrupt"} =>
              h[s].kind \in {"kill", "killnowait"}

TokenInv == CallInv /\ NoSkip /\ \A c \in Call : Token(c)

LEMMA SendStep ==
    ASSUME TypeOK, NEW c \in Call, NEW r \in Reply, SendToCaller(c, r)
    PROVE  /\ \A d \in Call : d # c => replies'[d] = replies[d]
           /\ r \notin Terminal =>
                 /\ Answered(c)' => Answered(c)
                 /\ AnswersOnce(c) => AnswersOnce(c)'
           /\ ~Answered(c) /\ AnswersOnce(c) => AnswersOnce(c)'
<1>1. replies[c] \in Seq(Reply) /\ replies \in [Call -> Seq(Reply)]
  BY DEF TypeOK
<1>2. CASE replies' = replies
  BY <1>2 DEF Answered, AnswersOnce
<1>3. CASE replies' = [replies EXCEPT ![c] = Append(@, r)]
  <2>1. replies'[c] = Append(replies[c], r)
    BY <1>1, <1>3
  <2>2. /\ Len(replies'[c]) = Len(replies[c]) + 1 /\ Len(replies[c]) \in Nat
        /\ replies'[c][Len(replies[c]) + 1] = r
        /\ \A n \in 1..Len(replies[c]) : replies'[c][n] = replies[c][n]
    BY <1>1, <2>1
  <2>3. \A d \in Call : d # c => replies'[d] = replies[d]
    BY <1>1, <1>3
  <2>4. r \notin Terminal /\ Answered(c)' => Answered(c)
    BY <2>2 DEF Answered
  <2>5. r \notin Terminal /\ AnswersOnce(c) => AnswersOnce(c)'
    BY <2>2 DEF AnswersOnce
  <2>6. ~Answered(c) /\ AnswersOnce(c) => AnswersOnce(c)'
    BY <2>2 DEF AnswersOnce, Answered
  <2> QED
    BY <2>3, <2>4, <2>5, <2>6
<1> QED
  BY <1>2, <1>3 DEF SendToCaller

(* A step that creates no token for c. *)
LEMMA TokenKept ==
    ASSUME NEW c \in Call, Token(c), Pending(c)' => Pending(c),
           \A s \in Session : Holds(h'[s], c) => Holds(h[s], c),
           replies'[c] = replies[c], sent'[c] = sent[c]
    PROVE  Token(c)'
<1>1. (Answered(c)' <=> Answered(c)) /\ (AnswersOnce(c)' <=> AnswersOnce(c))
  BY DEF Answered, AnswersOnce
<1> QED
  BY <1>1 DEF Token

(* Except when a CALL is dispatched, no call gets a pending invocation. *)
LEMMA PendingKept ==
    ASSUME CallInv, [Next]_vars, nextInv' = nextInv, NEW c \in Call
    PROVE  Pending(c)' => Pending(c)
<1> SUFFICES ASSUME NEW i \in live', inv'[i].call = c PROVE Pending(c)
  BY DEF Pending
<1>1. StoreTypeOK /\ Issued /\ TypeInv /\ StoreInv
  BY DEF CallInv, TypeInv, TypeOK, StoreInv
<1>2. Issued'
  BY <1>1, StoreStep, StoreInvStep DEF StoreInv
<1>3. i \in 1..(nextInv - 1)
  BY <1>2 DEF Issued
<1>4. i \in live /\ inv[i].call = c
  BY <1>1, <1>3, StoreStep, RecordsKept
<1> QED
  BY <1>4 DEF Pending

(* A handler takes the invocation out of the store: the token moves to it. *)
LEMMA TokenTaken ==
    ASSUME CallInv, NoSkip, \A c \in Call : Token(c), [Next]_vars,
           nextInv' = nextInv, replies' = replies, sent' = sent,
           NEW s \in Session, h[s].id \in live, h[s].id \notin live',
           inv[h[s].id].call = h[s].call, h'[s].call = h[s].call,
           \A x \in Session : x # s => h'[x] = h[x]
    PROVE  \A c \in Call : Token(c)'
<1> TAKE c \in Call
<1>0. Pending(c)' => Pending(c)
  BY PendingKept
<1>1. CASE c # h[s].call
  <2>1. \A x \in Session : Holds(h'[x], c) => Holds(h[x], c)
    BY <1>1 DEF Holds
  <2> QED
    BY <1>0, <2>1, TokenKept
<1>2. CASE c = h[s].call
  <2>1. Pending(c) /\ Token(c)
    BY <1>2 DEF Pending
  <2>2. ~Answered(c) /\ (\A x \in Session : ~Holds(h[x], c)) /\ sent[c] # "no"
    BY <2>1 DEF Token
  <2>3. ~Pending(c)'
    <3> SUFFICES ASSUME NEW i \in live', inv'[i].call = c PROVE FALSE
      BY DEF Pending
    <3>1. StoreTypeOK /\ Issued /\ TypeInv /\ StoreInv /\ OnePending
      BY DEF CallInv, TypeInv, TypeOK, StoreInv
    <3>2. Issued'
      BY <3>1, StoreStep, StoreInvStep DEF StoreInv
    <3>3. i \in 1..(nextInv - 1)
      BY <3>2 DEF Issued
    <3>4. i \in live /\ inv[i].call = c
      BY <3>1, <3>3, StoreStep, RecordsKept
    <3> QED
      BY <1>2, <3>1, <3>4 DEF OnePending
  <2>4. ~Answered(c)' /\ AnswersOnce(c)'
    BY <2>1, <2>2 DEF Answered, AnswersOnce, Token
  <2>5. \A x \in Session : Holds(h'[x], c) => x = s
    BY <2>2
  <2> QED
    BY <2>1, <2>2, <2>3, <2>4, <2>5 DEF Token
<1> QED
  BY <1>1, <1>2

(* A handler answers the caller: the token is spent. *)
LEMMA TokenSpent ==
    ASSUME CallInv, \A c \in Call : Token(c), [Next]_vars,
           nextInv' = nextInv, sent' = sent,
           NEW s \in Session, Done(s), NEW r \in Reply, SendToCaller(h[s].call, r),
           r \in Terminal => Holds(h[s], h[s].call)
    PROVE  \A c \in Call : Token(c)'
<1> TAKE c \in Call
<1>0. Pending(c)' => Pending(c)
  BY PendingKept
<1>1. TypeOK /\ h \in [Session -> Handler] /\ h[s].call \in Call
  BY DEF CallInv, TypeInv, TypeOK, Handler
<1>2. ~Holds(h'[s], c) /\ \A x \in Session : x # s => h'[x] = h[x]
  BY <1>1 DEF Done, Holds, Idle
<1>3. CASE c # h[s].call
  <2>1. replies'[c] = replies[c]
    BY <1>1, <1>3, SendStep
  <2> QED
    BY <1>0, <1>2, <2>1, TokenKept
<1>4. CASE c = h[s].call /\ r \notin Terminal
  <2>1. (Answered(c)' => Answered(c)) /\ (AnswersOnce(c) => AnswersOnce(c)')
    BY <1>1, <1>4, SendStep
  <2> QED
    BY <1>0, <1>2, <2>1 DEF Token
<1>5. CASE c = h[s].call /\ r \in Terminal
  <2>1. Token(c) /\ Holds(h[s], c)
    BY <1>5
  <2>2. ~Answered(c) /\ AnswersOnce(c) /\ ~Pending(c) /\ sent[c] \notin {"no", "more"}
    BY <2>1 DEF Token
  <2>3. \A x \in Session : ~Holds(h'[x], c)
    BY <1>2, <2>1 DEF Token
  <2>4. AnswersOnce(c)'
    BY <1>1, <1>5, <2>2, SendStep
  <2> QED
    BY <1>0, <2>2, <2>3, <2>4 DEF Token
<1> QED
  BY <1>3, <1>4, <1>5

LEMMA NoSkipStep ==
    ASSUME "skip" \notin Modes, CallInv, NoSkip, [Next]_vars
    PROVE  NoSkip'
<1> SUFFICES ASSUME NEW x \in Session
             PROVE  /\ h'[x].pc # "ack"
                    /\ h'[x].pc \in {"cancel", "cancelAct", "interrupt"} =>
                          h'[x].kind \in {"kill", "killnowait"}
  BY DEF NoSkip
<1>a. TypeOK /\ h \in [Session -> Handler] /\ h[x] \in Handler
  BY DEF CallInv, TypeInv, TypeOK
<1>b. /\ h[x].pc # "ack"
      /\ h[x].pc \in {"cancel", "cancelAct", "interrupt"} =>
            h[x].kind \in {"kill", "killnowait"}
  BY DEF NoSkip
<1>1. CASE h'[x] = h[x]
  BY <1>b, <1>1
<1>2. CASE HandlerStep(x)
  <2> USE DEF Goto, Done, At, Handler, Idle
  <2>1. CASE CallDispatchNew(x) \/ CallDispatchChunk(x) \/ CallDenied(x)
               \/ CallThrows(x) \/ CallRefuse(x) \/ CallForward(x)
    BY <1>a, <1>b, <2>1 DEF CallDispatchNew, CallDispatchChunk, CallDenied,
       CallThrows, CallRefuse, CallForward
  <2>2. CASE CancelFind(x) \/ CancelDenied(x) \/ CancelSkip(x) \/ CancelKill(x)
               \/ CancelInterrupt(x) \/ CancelAck(x)
    BY <1>a, <1>b, <2>2 DEF CancelFind, CancelDenied, CancelSkip, CancelKill,
       CancelInterrupt, CancelAck
  <2>3. CASE YieldGet(x) \/ ErrorGet(x) \/ YieldRejected(x) \/ YieldAct(x)
               \/ ErrorAct(x) \/ AnswerLookup(x) \/ AnswerReply(x)
    BY <1>a, <1>b, <2>3 DEF YieldGet, ErrorGet, AnswerGet, YieldRejected,
       YieldAct, ErrorAct, AnswerLookup, AnswerReply
  <2> QED
    BY <1>2, <2>1, <2>2, <2>3 DEF HandlerStep
<1>3. CASE h[x].pc = "idle" /\ h'[x] # h[x] /\ ~HandlerStep(x)
  <2>1. ASSUME NEW c \in Call, NEW kind \in {"more", "last"}, ReceiveCall(c, kind)
        PROVE  h'[x].pc = "call"
    BY <1>a, <1>3, <2>1 DEF ReceiveCall, Idle
  <2>2. ASSUME NEW c \in Call, NEW mode \in Modes, ReceiveCancel(c, mode)
        PROVE  h'[x].pc = "cancel" /\ h'[x].kind \in {"kill", "killnowait"}
    BY <1>a, <1>3, <2>2 DEF ReceiveCancel, Idle
  <2>3. ASSUME NEW s \in Session, NEW i \in InvId,
               NEW kind \in {"progress", "result", "error"},
               ReceiveAnswer(s, i, kind)
        PROVE  h'[x].pc \in {"yield", "error"}
    BY <1>a, <1>3, <2>3 DEF ReceiveAnswer, Idle
  <2>4. ASSUME NEW s \in Session,
               Register(s) \/ Unregister(s) \/ Disconnect(s) \/ CloseSession(s)
        PROVE  h'[x] = h[x]
    BY <2>4 DEF Register, Unregister, Disconnect, CloseSession, dealerVars
  <2>5. ASSUME NEW s \in Session, HandlerStep(s) PROVE h'[x] = h[x]
    BY <1>a, <1>3, <2>5, OthersKept
  <2>6. ASSUME NEW i \in InvId, Expire(i) PROVE h'[x] = h[x]
    BY <2>6 DEF Expire
  <2>7. ASSUME UNCHANGED vars PROVE h'[x] = h[x]
    BY <2>7 DEF vars, dealerVars
  <2> QED
    BY <1>3, <2>1, <2>2, <2>3, <2>4, <2>5, <2>6, <2>7 DEF Next
<1> QED
  BY <1>a, <1>1, <1>2, <1>3, RunningKept

LEMMA TokenStep ==
    ASSUME Chunked = {}, TokenInv, [Next]_vars
    PROVE  \A c \in Call : Token(c)'
<1>a. /\ CallInv /\ NoSkip /\ (\A c \in Call : Token(c)) /\ TypeInv /\ StoreInv
      /\ TypeOK /\ HandlersOK /\ StoreTypeOK /\ AllLinked /\ h \in [Session -> Handler]
      /\ sent \in [Call -> {"no", "more", "last"}]
  BY DEF TokenInv, CallInv, TypeInv, TypeOK
<1>b. \A s \in Session : /\ h[s] \in Handler /\ h[s].call \in Call
                         /\ Locals(h[s]) /\ Linked(s, h[s], nextInv, inv)
  BY <1>a DEF HandlersOK, AllLinked, Handler
(* Steps that move no token. *)
<1>c. ASSUME nextInv' = nextInv, replies' = replies, sent' = sent,
             \A x \in Session, c \in Call : Holds(h'[x], c) => Holds(h[x], c)
      PROVE  \A c \in Call : Token(c)'
  BY <1>a, <1>c, PendingKept, TokenKept
<1>d. ASSUME NEW s \in Session, HandlerStep(s),
             \A c \in Call : Holds(h'[s], c) => Holds(h[s], c)
      PROVE  \A x \in Session, c \in Call : Holds(h'[x], c) => Holds(h[x], c)
  BY <1>a, <1>d, OthersKept
<1>1. ASSUME NEW c \in Call, NEW kind \in {"more", "last"}, ReceiveCall(c, kind)
      PROVE  \A d \in Call : Token(d)'
  <2> TAKE d \in Call
  <2> DEFINE s == CallerOf[c]
  <2>1. /\ kind = "last" /\ replies' = replies /\ nextInv' = nextInv
        /\ sent' = [sent EXCEPT ![c] = kind]
        /\ h' = [h EXCEPT ![s] = [Idle EXCEPT !.pc = "call", !.call = c,
                                               !.kind = kind]]
    BY <1>1 DEF ReceiveCall, wireVars, storeVars
  <2>2. sent[c] = "no" /\ Token(c)
    BY <1>1, <1>a DEF ReceiveCall, Token
  <2>3. s \in Session /\ h'[s].call = c
    BY <1>a, <2>1 DEF Idle
  <2>4. Pending(d)' => Pending(d)
    BY <1>a, <2>1, PendingKept
  <2>5. \A x \in Session : x # s => h'[x] = h[x]
    BY <1>a, <2>1
  <2>6. CASE d # c
    <3>1. \A x \in Session : Holds(h'[x], d) => Holds(h[x], d)
      BY <2>3, <2>5, <2>6 DEF Holds
    <3>2. sent'[d] = sent[d]
      BY <1>a, <2>1, <2>6
    <3> QED
      BY <1>a, <2>1, <2>4, <3>1, <3>2, TokenKept
  <2>7. CASE d = c
    <3>1. ~Pending(c) /\ ~Answered(c) /\ AnswersOnce(c)
            /\ \A x \in Session : ~Holds(h[x], c)
      BY <2>2 DEF Token
    <3>2. ~Answered(c)' /\ AnswersOnce(c)'
      BY <2>1, <3>1 DEF Answered, AnswersOnce
    <3>3. \A x \in Session : Holds(h'[x], c) => x = s
      BY <2>5, <3>1
    <3>4. sent'[c] = "last"
      BY <1>a, <2>1
    <3> QED
      BY <2>4, <2>7, <3>1, <3>2, <3>3, <3>4 DEF Token
  <2> QED
    BY <2>6, <2>7
<1>2. ASSUME NEW c \in Call, NEW mode \in Modes, ReceiveCancel(c, mode)
      PROVE  \A d \in Call : Token(d)'
  <2>1. /\ replies' = replies /\ nextInv' = nextInv /\ sent' = sent
        /\ h' = [h EXCEPT ![CallerOf[c]] =
                    [Idle EXCEPT !.pc = "cancel", !.call = c, !.kind = mode]]
    BY <1>2 DEF ReceiveCancel, clientVars, wireVars, storeVars
  <2>2. \A x \in Session, d \in Call : Holds(h'[x], d) => Holds(h[x], d)
    BY <1>a, <2>1 DEF Holds, Idle
  <2> QED
    BY <1>c, <2>1, <2>2
<1>3. ASSUME NEW s \in Session, NEW i \in InvId,
             NEW kind \in {"progress", "result", "error"},
             ReceiveAnswer(s, i, kind)
      PROVE  \A d \in Call : Token(d)'
  <2> DEFINE r == [Idle EXCEPT
                      !.pc = IF kind = "error" THEN "error" ELSE "yield",
                      !.call = inv[i].call, !.id = i, !.kind = kind]
  <2>1. /\ replies' = replies /\ nextInv' = nextInv /\ sent' = sent
        /\ h' = [h EXCEPT ![s] = r]
    BY <1>3 DEF ReceiveAnswer, wireVars, storeVars
  <2>2. r.pc \in {"error", "yield"}
    BY DEF Idle
  <2>3. \A x \in Session, d \in Call : Holds(h'[x], d) => Holds(h[x], d)
    <3>1. \A d \in Call : ~Holds(r, d)
      BY <2>2 DEF Holds
    <3> HIDE DEF r
    <3> QED
      BY <1>a, <2>1, <3>1
  <2> QED
    BY <1>c, <2>1, <2>3
<1>4. ASSUME NEW s \in Session, CallDispatchNew(s)
      PROVE  \A d \in Call : Token(d)'
  <2> TAKE d \in Call
  <2> DEFINE c == h[s].call
  <2>1. /\ replies' = replies /\ sent' = sent /\ nextInv \in InvId
        /\ live' = live \cup {nextInv} /\ h[s].pc = "call"
        /\ h'[s].pc = "forward" /\ inv'[nextInv].call = c
        /\ \A i \in InvId : i # nextInv => inv'[i] = inv[i]
    BY <1>4, <1>a, <1>b DEF CallDispatchNew, DispatchNew, At, clientVars,
       wireVars, StoreTypeOK, Handler
  <2>2. \A x \in Session : x # s => h'[x] = h[x]
    BY <1>4, <1>a, OthersKept DEF HandlerStep
  <2>3. Token(c) /\ Holds(h[s], c) /\ c \in Call
    BY <1>a, <1>b, <2>1 DEF Holds
  <2>4. \A x \in Session, e \in Call : Holds(h'[x], e) => x # s /\ Holds(h[x], e)
    BY <2>1, <2>2 DEF Holds
  <2>5. CASE d # c
    <3>1. Pending(d)' => Pending(d)
      BY <1>a, <2>1, <2>5 DEF Pending, StoreTypeOK
    <3> QED
      BY <1>a, <2>1, <2>4, <3>1, TokenKept
  <2>6. CASE d = c
    <3>1. ~Answered(d) /\ AnswersOnce(d) /\ sent[d] \notin {"no", "more"}
            /\ \A x \in Session : Holds(h[x], d) => x = s
      BY <2>3, <2>6 DEF Token
    <3>2. ~Answered(d)' /\ AnswersOnce(d)'
      BY <2>1, <3>1 DEF Answered, AnswersOnce
    <3>3. \A x \in Session : ~Holds(h'[x], d)
      BY <2>4, <3>1
    <3>4. sent'[d] \notin {"no", "more"}
      BY <2>1, <3>1
    <3> QED
      BY <3>2, <3>3, <3>4 DEF Token
  <2> QED
    BY <2>5, <2>6
<1>5. ASSUME NEW s \in Session, CallDispatchChunk(s) PROVE FALSE
  <2>1. Holds(h[s], h[s].call) /\ Pending(h[s].call)
    BY <1>5, <1>b DEF CallDispatchChunk, At, Holds, FindInvocationByCaller, Pending
  <2> QED
    BY <1>a, <1>b, <2>1 DEF Token
<1>6. ASSUME NEW s \in Session, CallDenied(s) \/ CallThrows(s)
      PROVE  \A d \in Call : Token(d)'
  <2>1. \A c \in Call : Holds(h'[s], c) => Holds(h[s], c)
    BY <1>6, <1>a, <1>b DEF CallDenied, CallThrows, At, Goto, Holds, Handler
  <2>2. nextInv' = nextInv /\ replies' = replies /\ sent' = sent
    BY <1>6 DEF CallDenied, CallThrows, storeVars, clientVars, wireVars
  <2> QED
    BY <1>6, <1>c, <1>d, <2>1, <2>2 DEF HandlerStep
<1>7. ASSUME NEW s \in Session,
             CallForward(s) \/ CancelFind(s) \/ CancelDenied(s)
               \/ YieldGet(s) \/ ErrorGet(s) \/ YieldRejected(s)
      PROVE  \A d \in Call : Token(d)'
  <2>1. h'[s].pc \in {"idle", "cancelAct", "yieldAct", "errorAct"}
    BY <1>7, <1>a, <1>b DEF CallForward, CancelFind, CancelDenied, YieldGet,
       ErrorGet, AnswerGet, YieldRejected, Done, Handler, Idle
  <2>2. \A c \in Call : ~Holds(h'[s], c)
    BY <2>1 DEF Holds
  <2>3. nextInv' = nextInv /\ replies' = replies /\ sent' = sent
    BY <1>7 DEF CallForward, CancelFind, CancelDenied, YieldGet, ErrorGet,
       AnswerGet, YieldRejected, CompleteInvocation, storeVars, clientVars,
       wireVars
  <2> QED
    BY <1>7, <1>c, <1>d, <2>2, <2>3 DEF HandlerStep
<1>8. ASSUME NEW s \in Session, CancelSkip(s) \/ CancelAck(s) PROVE FALSE
  BY <1>8, <1>a DEF CancelSkip, CancelAck, At, NoSkip
<1>9. ASSUME NEW s \in Session, CancelKill(s) \/ YieldAct(s) \/ ErrorAct(s)
      PROVE  \A d \in Call : Token(d)'
  <2>1. nextInv' = nextInv /\ replies' = replies /\ sent' = sent
    BY <1>9 DEF CancelKill, YieldAct, ErrorAct, CompleteInvocation,
       TouchInvocation, CancelInvocation, storeVars, clientVars, wireVars
  <2>2. /\ h'[s].call = h[s].call /\ h'[s].kind = h[s].kind
        /\ h'[s].pc \in {"interrupt", "lookup"}
        \/ h'[s] = Idle
    BY <1>9, <1>a, <1>b DEF CancelKill, YieldAct, ErrorAct, Goto, Done, Handler
  <2>3. h[s].pc \in {"cancelAct", "yieldAct", "errorAct"}
    BY <1>9 DEF CancelKill, YieldAct, ErrorAct, At
  <2>4. CASE \A c \in Call : ~Holds(h'[s], c)
    BY <1>9, <1>c, <1>d, <2>1, <2>4 DEF HandlerStep
  <2>5. ASSUME NEW c \in Call, Holds(h'[s], c) PROVE \A d \in Call : Token(d)'
    <3>1. /\ h'[s].call = h[s].call /\ h'[s].kind = h[s].kind
          /\ h'[s].pc \in {"interrupt", "lookup"}
      BY <2>2, <2>5 DEF Holds, Idle
    <3>2. h[s].id \in live /\ h[s].id \notin live'
      <4>1. CASE CancelKill(s)
        <5>1. h'[s].pc = "interrupt" /\ h[s].kind = "killnowait"
          BY <1>a, <1>b, <2>5, <3>1, <4>1 DEF CancelKill, Goto, Done, Holds,
             Idle, Handler
        <5>2. CancelInvocation(h[s].id, h[s].kind = "kill")
          BY <1>a, <4>1, <5>1 DEF CancelKill, Done, Idle
        <5> QED
          BY <5>1, <5>2 DEF CancelInvocation
      <4>2. CASE YieldAct(s)
        <5>1. h'[s].pc = "lookup" /\ h[s].kind # "progress" /\ h[s].id \in live
          BY <1>a, <1>b, <2>5, <3>1, <4>2 DEF YieldAct, Goto, Done, Holds,
             Idle, Handler
        <5>2. CompleteInvocation(h[s].id)
          BY <4>2, <5>1 DEF YieldAct
        <5> QED
          BY <5>1, <5>2 DEF CompleteInvocation
      <4>3. CASE ErrorAct(s)
        <5>1. h[s].id \in live
          BY <1>a, <3>1, <4>3 DEF ErrorAct, Done, Idle
        <5> QED
          BY <4>3, <5>1 DEF ErrorAct, CompleteInvocation
      <4> QED
        BY <1>9, <4>1, <4>2, <4>3
    <3>3. inv[h[s].id].call = h[s].call
      BY <1>b, <2>3 DEF Linked
    <3>4. \A x \in Session : x # s => h'[x] = h[x]
      BY <1>9, <1>a, OthersKept DEF HandlerStep
    <3> QED
      BY <1>a, <2>1, <3>1, <3>2, <3>3, <3>4, TokenTaken
  <2> QED
    BY <2>4, <2>5
<1>10. ASSUME NEW s \in Session,
              CallRefuse(s) \/ CancelInterrupt(s) \/ AnswerReply(s)
       PROVE  \A d \in Call : Token(d)'
  <2>1. nextInv' = nextInv /\ sent' = sent /\ Done(s)
    BY <1>10 DEF CallRefuse, CancelInterrupt, AnswerReply, storeVars, clientVars
  <2>2. CASE CallRefuse(s)
    <3>1. SendToCaller(h[s].call, "refused") /\ Holds(h[s], h[s].call)
      BY <2>2 DEF CallRefuse, At, Holds
    <3> QED
      BY <1>a, <2>1, <3>1, TokenSpent DEF Reply, Terminal
  <2>3. CASE CancelInterrupt(s) /\ h[s].kind = "killnowait"
    <3>1. SendToCaller(h[s].call, "cancelled") /\ Holds(h[s], h[s].call)
      BY <2>3 DEF CancelInterrupt, At, Holds
    <3> QED
      BY <1>a, <2>1, <3>1, TokenSpent DEF Reply, Terminal
  <2>4. CASE CancelInterrupt(s) /\ h[s].kind # "killnowait"
    <3>1. replies' = replies
      BY <2>4 DEF CancelInterrupt
    <3>2. \A c \in Call : ~Holds(h'[s], c)
      BY <1>a, <2>1 DEF Done, Idle, Holds
    <3> QED
      BY <1>10, <1>c, <1>d, <2>1, <3>1, <3>2 DEF HandlerStep
  <2>5. CASE AnswerReply(s)
    <3>1. /\ SendToCaller(h[s].call, h[s].kind) /\ h[s].pc = "reply"
          /\ h[s].kind \in {"progress", "result", "error"}
      BY <1>b, <2>5 DEF AnswerReply, At, Locals
    <3>2. h[s].kind \in Terminal => Holds(h[s], h[s].call)
      BY <3>1 DEF Terminal, Holds
    <3>3. h[s].kind \in Reply
      BY <3>1 DEF Reply, Terminal
    <3> QED
      BY <1>a, <2>1, <3>1, <3>2, <3>3, TokenSpent
  <2> QED
    BY <1>10, <2>2, <2>3, <2>4, <2>5
<1>11. ASSUME NEW s \in Session, AnswerLookup(s)
       PROVE  \A d \in Call : Token(d)'
  <2>1. nextInv' = nextInv /\ replies' = replies /\ sent' = sent
    BY <1>11 DEF AnswerLookup, CompleteInvocation, storeVars, clientVars, wireVars
  <2>2. \A c \in Call : Holds(h'[s], c) => Holds(h[s], c)
    BY <1>11, <1>a, <1>b DEF AnswerLookup, At, Goto, Done, Holds, Handler, Idle
  <2> QED
    BY <1>11, <1>c, <1>d, <2>1, <2>2 DEF HandlerStep
<1>12. ASSUME NEW i \in InvId, Expire(i) PROVE \A d \in Call : Token(d)'
  <2> TAKE d \in Call
  <2> DEFINE c == inv[i].call
  <2>1. /\ h' = h /\ sent' = sent /\ inv' = inv /\ live' = live \ {i}
        /\ nextInv' = nextInv /\ i \in live /\ c \in Call
    BY <1>12, <1>a DEF Expire, ExpireInvocation, clientVars, StoreInv, NoOrphans,
       StoreTypeOK, PendingInvocation
  <2>2. replies' = replies \/ SendToCaller(c, "timeout")
    BY <1>12 DEF Expire
  <2>3. \A e \in Call : e # c => replies'[e] = replies[e]
    BY <1>a, <2>1, <2>2, SendStep DEF Reply, Terminal
  <2>4. CASE d # c
    <3>1. Pending(d)' => Pending(d)
      BY <2>1 DEF Pending
    <3> QED
      BY <1>a, <2>1, <2>3, <2>4, <3>1, TokenKept
  <2>5. CASE d = c
    <3>1. Pending(c) /\ Token(c)
      BY <1>a, <2>1 DEF Pending
    <3>2. ~Answered(c) /\ AnswersOnce(c) /\ sent[c] \notin {"no", "more"}
            /\ \A x \in Session : ~Holds(h[x], c)
      BY <3>1 DEF Token
    <3>3. AnswersOnce(c)'
      BY <1>a, <2>1, <2>2, <3>2, SendStep DEF Reply, Terminal, AnswersOnce
    <3>4. ~Pending(c)'
      BY <1>a, <2>1 DEF Pending, StoreInv, OnePending
    <3>5. c' = c
      BY <2>1
    <3> QED
      BY <2>1, <2>5, <3>2, <3>3, <3>4, <3>5 DEF Token
  <2> QED
    BY <2>4, <2>5
<1>13. ASSUME NEW s \in Session,
              Register(s) \/ Unregister(s) \/ Disconnect(s) \/ CloseSession(s)
       PROVE  \A d \in Call : Token(d)'
  <2>1. nextInv' = nextInv /\ replies' = replies /\ sent' = sent /\ h' = h
    BY <1>13 DEF Register, Unregister, Disconnect, CloseSession, dealerVars,
       RegisterProcedure, UnregisterProcedure, CloseStoreSession, storeVars,
       clientVars, wireVars
  <2> QED
    BY <1>c, <2>1
<1>14. ASSUME UNCHANGED vars PROVE \A d \in Call : Token(d)'
  BY <1>c, <1>14 DEF vars, storeVars, dealerVars, clientVars, wireVars
<1>15. ASSUME NEW s \in Session, HandlerStep(s) PROVE \A d \in Call : Token(d)'
  BY <1>4, <1>5, <1>6, <1>7, <1>8, <1>9, <1>10, <1>11, <1>15 DEF HandlerStep
<1> QED
  BY <1>1, <1>2, <1>3, <1>12, <1>13, <1>14, <1>15 DEF Next

(* A CALL gets at most one terminal reply, whatever its YIELDs, ERRORs,    *)
(* CANCELs, timeouts, disconnects and re-registrations interleave to, in a *)
(* router whose callers neither send chunks nor cancel in skip mode.       *)
THEOREM OneAnswerHolds ==
    ASSUME "skip" \notin Modes, Chunked = {}
    PROVE  Spec => []OneAnswer
<1>1. Init => TokenInv
  <2>1. Init => NoSkip
    <3> SUFFICES ASSUME Init, NEW s \in Session
                 PROVE  h[s].pc = "idle"
      BY DEF NoSkip
    <3> QED
      BY DEF Init, Idle
  <2>2. Init => \A c \in Call : Token(c)
    BY DEF Init, StoreInit, Token, Pending, Answered, AnswersOnce, Holds, Idle
  <2> QED
    BY <2>1, <2>2, CallInvInit DEF TokenInv
<1>2. TokenInv /\ [Next]_vars => TokenInv'
  BY NoSkipStep, TokenStep, CallInvStep DEF TokenInv
<1>3. TokenInv => OneAnswer
  BY DEF TokenInv, Token, AnswersOnce, OneAnswer
<1> QED
  BY <1>1, <1>2, <1>3, PTL DEF Spec
-----------------------------------------------------------------------------
(* The handlers that have passed the store's verdict and are about to send *)
(* the caller a RESULT or an ERROR.                                        *)
Answering(r) == r.pc \in {"lookup", "reply"}

(* The callee's final answer is with the caller. *)
Over(c) == \E n \in 1..Len(replies[c]) : replies[c][n] \in {"result", "error"}

(* A call that is not sent in chunks is dispatched once: the handler of    *)
(* its CALL is the only one, and no invocation was handed out before it.   *)
CalledOnce ==
    /\ \A i, j \in 1..(nextInv - 1) : inv[i].call = inv[j].call => i = j
    /\ \A s \in Session : At(s, "call") =>
          /\ sent[h[s].call] = "last"
          /\ \A i \in 1..(nextInv - 1) : inv[i].call # h[s].call
    /\ \A i \in 1..(nextInv - 1) : sent[inv[i].call] = "last"
    /\ \A c \in Call : sent[c] # "more"

(* Only the callee's own handler answers, and a final answer has taken the *)
(* invocation out of the store.                                            *)
Answerers ==
    \A s \in Session : Answering(h[s]) =>
        /\ inv[h[s].id].callee = s
        /\ h[s].kind = "progress" \/ h[s].id \notin live

(* After the final answer the invocation is gone, and with it every        *)
(* progressive RESULT: the callee's one handler had sent them before.      *)
OverIsOver ==
    \A c \in Call : Over(c) =>
        /\ \E i \in 1..(nextInv - 1) : inv[i].call = c /\ i \notin live
        /\ \A s \in Session :
              Answering(h[s]) /\ h[s].kind = "progress" => h[s].call # c

OrderInv == CallInv /\ CalledOnce /\ Answerers /\ OverIsOver /\ ProgressBeforeFinal

(* How a handler comes to answer the caller: the command of its YIELD or   *)
(* ERROR found the invocation in the store, and took it out unless the     *)
(* answer is progress.                                                     *)
LEMMA AnsweringStep ==
    ASSUME CallInv, [Next]_vars, NEW x \in Session, Answering(h'[x])
    PROVE  /\ h'[x].id = h[x].id /\ h'[x].call = h[x].call /\ h'[x].kind = h[x].kind
           /\ \/ Answering(h[x])
              \/ /\ h[x].pc \in {"yieldAct", "errorAct"}
                 /\ h[x].id \in live /\ inv[h[x].id].callee = x
                 /\ h[x].kind = "progress" \/ h[x].id \notin live'
<1>a. TypeOK /\ h \in [Session -> Handler] /\ h[x] \in Handler /\ Locals(h[x])
  BY DEF CallInv, TypeInv, TypeOK, HandlersOK
<1> USE DEF Answering
<1>1. CASE h'[x] = h[x]
  BY <1>1
<1>2. CASE HandlerStep(x)
  <2> USE DEF Goto, Done, At, Handler, Idle
  <2>1. CASE CallDispatchNew(x) \/ CallDispatchChunk(x) \/ CallDenied(x)
               \/ CallThrows(x) \/ CallRefuse(x) \/ CallForward(x)
    BY <1>a, <2>1 DEF CallDispatchNew, CallDispatchChunk, CallDenied,
       CallThrows, CallRefuse, CallForward
  <2>2. CASE CancelFind(x) \/ CancelDenied(x) \/ CancelSkip(x) \/ CancelKill(x)
               \/ CancelInterrupt(x) \/ CancelAck(x)
    BY <1>a, <2>2 DEF CancelFind, CancelDenied, CancelSkip, CancelKill,
       CancelInterrupt, CancelAck
  <2>3. CASE YieldGet(x) \/ ErrorGet(x) \/ YieldRejected(x) \/ AnswerReply(x)
    BY <1>a, <2>3 DEF YieldGet, ErrorGet, AnswerGet, YieldRejected, AnswerReply
  <2>4. CASE YieldAct(x)
    BY <1>a, <2>4 DEF YieldAct, NotCallee, CompleteInvocation, Locals
  <2>5. CASE ErrorAct(x)
    BY <1>a, <2>5 DEF ErrorAct, NotCallee, CompleteInvocation
  <2>6. CASE AnswerLookup(x)
    BY <1>a, <2>6 DEF AnswerLookup
  <2> QED
    BY <1>2, <2>1, <2>2, <2>3, <2>4, <2>5, <2>6 DEF HandlerStep
<1>3. CASE h[x].pc = "idle" /\ h'[x] # h[x] /\ ~HandlerStep(x)
  <2>1. ASSUME NEW c \in Call, NEW kind, ReceiveCall(c, kind) PROVE FALSE
    BY <1>a, <1>3, <2>1 DEF ReceiveCall, Idle
  <2>2. ASSUME NEW c \in Call, NEW mode, ReceiveCancel(c, mode) PROVE FALSE
    BY <1>a, <1>3, <2>2 DEF ReceiveCancel, Idle
  <2>3. ASSUME NEW s \in Session, NEW i \in InvId, NEW kind,
               ReceiveAnswer(s, i, kind)
        PROVE  FALSE
    BY <1>a, <1>3, <2>3 DEF ReceiveAnswer, Idle
  <2>4. ASSUME NEW s \in Session,
               Register(s) \/ Unregister(s) \/ Disconnect(s) \/ CloseSession(s)
        PROVE  FALSE
    BY <1>3, <2>4 DEF Register, Unregister, Disconnect, CloseSession, dealerVars
  <2>5. ASSUME NEW s \in Session, HandlerStep(s) PROVE FALSE
    BY <1>a, <1>3, <2>5, OthersKept
  <2>6. ASSUME NEW i \in InvId, Expire(i) PROVE FALSE
    BY <1>3, <2>6 DEF Expire
  <2>7. ASSUME UNCHANGED vars PROVE FALSE
    BY <1>3, <2>7 DEF vars, dealerVars
  <2> QED
    BY <2>1, <2>2, <2>3, <2>4, <2>5, <2>6, <2>7 DEF Next
<1> QED
  BY <1>a, <1>1, <1>2, <1>3, RunningKept

(* What a step sends to callers: a handler's answer, or a reply that is    *)
(* not the callee's.                                                       *)
LEMMA RepliesStep ==
    ASSUME CallInv, [Next]_vars
    PROVE  \/ replies' = replies
           \/ \E c \in Call, r \in {"cancelled", "timeout", "refused"} :
                 SendToCaller(c, r)
           \/ \E s \in Session : AnswerReply(s)
<1> USE DEF wireVars, dealerVars
<1>a. /\ \A s \in Session : h[s].call \in Call
      /\ \A i \in InvId : inv[i].call \in Call
  BY DEF CallInv, TypeInv, TypeOK, Handler, StoreTypeOK, PendingInvocation
<1>1. ASSUME NEW s \in Session, HandlerStep(s), ~AnswerReply(s), replies' # replies
      PROVE  \E c \in Call, r \in {"cancelled", "timeout", "refused"} :
                 SendToCaller(c, r)
  <2>1. CASE CallDispatchNew(s) \/ CallDispatchChunk(s) \/ CallDenied(s)
               \/ CallThrows(s) \/ CallForward(s) \/ CancelFind(s)
               \/ CancelDenied(s) \/ CancelSkip(s) \/ CancelKill(s)
    BY <1>1, <2>1 DEF CallDispatchNew, CallDispatchChunk, CallDenied, CallThrows,
       CallForward, CancelFind, CancelDenied, CancelSkip, CancelKill
  <2>2. CASE YieldGet(s) \/ ErrorGet(s) \/ YieldRejected(s) \/ YieldAct(s)
               \/ ErrorAct(s) \/ AnswerLookup(s)
    BY <1>1, <2>2 DEF YieldGet, ErrorGet, AnswerGet, YieldRejected, YieldAct,
       ErrorAct, AnswerLookup
  <2>3. CASE CallRefuse(s) \/ CancelInterrupt(s) \/ CancelAck(s)
    BY <1>1, <1>a, <2>3 DEF CallRefuse, CancelInterrupt, CancelAck
  <2> QED
    BY <1>1, <2>1, <2>2, <2>3 DEF HandlerStep
<1>2. ASSUME NEW c \in Call,
             \/ \E kind \in {"more", "last"} : ReceiveCall(c, kind)
             \/ \E mode \in Modes : ReceiveCancel(c, mode)
      PROVE  replies' = replies
  BY <1>2 DEF ReceiveCall, ReceiveCancel
<1>3. ASSUME NEW s \in Session, NEW i \in InvId,
             NEW kind \in {"progress", "result", "error"}, ReceiveAnswer(s, i, kind)
      PROVE  replies' = replies
  BY <1>3 DEF ReceiveAnswer
<1>4. ASSUME NEW s \in Session,
             Register(s) \/ Unregister(s) \/ Disconnect(s) \/ CloseSession(s)
      PROVE  replies' = replies
  BY <1>4 DEF Register, Unregister, Disconnect, CloseSession
<1>5. ASSUME NEW i \in InvId, Expire(i), replies' # replies
      PROVE  SendToCaller(inv[i].call, "timeout")
  BY <1>5 DEF Expire
<1>6. ASSUME UNCHANGED vars PROVE replies' = replies
  BY <1>6 DEF vars
<1> QED
  BY <1>a, <1>1, <1>2, <1>3, <1>4, <1>5, <1>6 DEF Next

(* What a client sends first: a CALL that is not a chunk is new. *)
LEMMA CallsStep ==
    ASSUME Chunked = {}, CallInv, CalledOnce, [Next]_vars
    PROVE  \/ /\ sent' = sent
              /\ \A x \in Session : h'[x].pc = "call" => h'[x] = h[x]
           \/ \E c \in Call :
                 /\ sent[c] = "no" /\ sent' = [sent EXCEPT ![c] = "last"]
                 /\ nextInv' = nextInv
                 /\ h'[CallerOf[c]].call = c
                 /\ \A x \in Session : x # CallerOf[c] => h'[x] = h[x]
<1>a. TypeOK /\ h \in [Session -> Handler] /\ sent \in [Call -> {"no", "more", "last"}]
  BY DEF CallInv, TypeInv, TypeOK
<1> DEFINE Same == /\ sent' = sent
                   /\ \A x \in Session : h'[x].pc = "call" => h'[x] = h[x]
<1>1. ASSUME NEW c \in Call, NEW kind \in {"more", "last"}, ReceiveCall(c, kind)
      PROVE  /\ sent[c] = "no" /\ sent' = [sent EXCEPT ![c] = "last"]
             /\ nextInv' = nextInv
             /\ h'[CallerOf[c]].call = c
             /\ \A x \in Session : x # CallerOf[c] => h'[x] = h[x]
  BY <1>a, <1>1 DEF ReceiveCall, CalledOnce, Idle, storeVars
<1>2. ASSUME NEW c \in Call, NEW mode \in Modes, ReceiveCancel(c, mode) PROVE Same
  BY <1>a, <1>2 DEF ReceiveCancel, Idle, clientVars
<1>3. ASSUME NEW s \in Session, NEW i \in InvId,
             NEW kind \in {"progress", "result", "error"}, ReceiveAnswer(s, i, kind)
      PROVE  Same
  BY <1>a, <1>3 DEF ReceiveAnswer, Idle
<1>4. ASSUME NEW s \in Session,
             Register(s) \/ Unregister(s) \/ Disconnect(s) \/ CloseSession(s)
      PROVE  Same
  BY <1>4 DEF Register, Unregister, Disconnect, CloseSession, dealerVars, clientVars
<1>5. ASSUME NEW s \in Session, HandlerStep(s) PROVE Same
  <2>1. sent' = sent /\ h'[s].pc # "call"
    <3> USE DEF Goto, Done, At, Handler, Idle, clientVars
    <3>1. CASE CallDispatchNew(s) \/ CallDispatchChunk(s) \/ CallDenied(s)
                 \/ CallThrows(s) \/ CallRefuse(s) \/ CallForward(s)
      BY <1>a, <3>1 DEF CallDispatchNew, CallDispatchChunk, CallDenied,
         CallThrows, CallRefuse, CallForward
    <3>2. CASE CancelFind(s) \/ CancelDenied(s) \/ CancelSkip(s) \/ CancelKill(s)
                 \/ CancelInterrupt(s) \/ CancelAck(s)
      BY <1>a, <3>2 DEF CancelFind, CancelDenied, CancelSkip, CancelKill,
         CancelInterrupt, CancelAck
    <3>3. CASE YieldGet(s) \/ ErrorGet(s) \/ YieldRejected(s) \/ YieldAct(s)
                 \/ ErrorAct(s) \/ AnswerLookup(s) \/ AnswerReply(s)
      BY <1>a, <3>3 DEF YieldGet, ErrorGet, AnswerGet, YieldRejected, YieldAct,
         ErrorAct, AnswerLookup, AnswerReply
    <3> QED
      BY <1>5, <3>1, <3>2, <3>3 DEF HandlerStep
  <2> QED
    BY <1>a, <1>5, <2>1, OthersKept
<1>6. ASSUME NEW i \in InvId, Expire(i) PROVE Same
  BY <1>6 DEF Expire, clientVars
<1>7. ASSUME UNCHANGED vars PROVE Same
  BY <1>7 DEF vars, dealerVars, clientVars
<1> QED
  BY <1>1, <1>2, <1>3, <1>4, <1>5, <1>6, <1>7 DEF Next

(* What CallDispatchNew does to the ids. *)
LEMMA DispatchStep ==
    ASSUME CallInv, NEW s \in Session, CallDispatchNew(s)
    PROVE  /\ h[s].pc = "call" /\ nextInv' = nextInv + 1 /\ nextInv \in Nat
           /\ inv'[nextInv].call = h[s].call /\ h[s].call \in Call
           /\ CallerOf[h[s].call] = s /\ h'[s].pc = "forward"
           /\ sent' = sent /\ replies' = replies
           /\ \A x \in Session : x # s => h'[x] = h[x]
<1>1. TypeOK /\ h \in [Session -> Handler] /\ StoreTypeOK /\ AllLinked
  BY DEF CallInv, TypeInv, TypeOK
<1> QED
  BY <1>1 DEF CallDispatchNew, DispatchNew, At, StoreTypeOK, AllLinked, Linked,
     Handler, clientVars, wireVars

LEMMA CalledOnceStep ==
    ASSUME Chunked = {}, CallInv, CalledOnce, [Next]_vars
    PROVE  CalledOnce'
<1>a. /\ TypeOK /\ TypeInv /\ HandlersOK /\ StoreTypeOK /\ Issued /\ AllLinked
      /\ nextInv \in Nat /\ sent \in [Call -> {"no", "more", "last"}]
  BY DEF CallInv, TypeInv, TypeOK, StoreInv, StoreTypeOK
<1>b. \A i \in 1..(nextInv - 1) :
          inv'[i].call = inv[i].call /\ inv[i].call \in Call
  BY <1>a, StoreStep, RecordsKept DEF StoreTypeOK, PendingInvocation
<1>c. \A x \in Session : h[x].pc = "call" => CallerOf[h[x].call] = x /\ h[x].call \in Call
  BY <1>a DEF AllLinked, Linked, TypeOK, Handler
<1>1. ASSUME NEW s \in Session, CallDispatchNew(s) PROVE CalledOnce'
  <2>1. /\ h[s].pc = "call" /\ nextInv' = nextInv + 1
        /\ inv'[nextInv].call = h[s].call /\ CallerOf[h[s].call] = s
        /\ h[s].call \in Call
        /\ h'[s].pc = "forward" /\ sent' = sent
        /\ \A x \in Session : x # s => h'[x] = h[x]
    BY <1>1, DispatchStep
  <2>2. \A i \in 1..(nextInv' - 1) : i \in 1..(nextInv - 1) \/ i = nextInv
    BY <1>a, <2>1
  <2>3. \A i, j \in 1..(nextInv' - 1) : inv'[i].call = inv'[j].call => i = j
    BY <1>b, <2>1, <2>2 DEF CalledOnce, At
  <2>4. ASSUME NEW x \in Session, h'[x].pc = "call"
        PROVE  /\ sent'[h'[x].call] = "last"
               /\ \A i \in 1..(nextInv' - 1) : inv'[i].call # h'[x].call
    <3>1. x # s /\ h'[x] = h[x]
      BY <2>1, <2>4
    <3>2. CallerOf[h[x].call] = x /\ h[x].call # h[s].call
      BY <1>c, <2>1, <2>4, <3>1
    <3> QED
      BY <1>b, <2>1, <2>2, <2>4, <3>1, <3>2 DEF CalledOnce, At
  <2>5. \A i \in 1..(nextInv' - 1) : sent'[inv'[i].call] = "last"
    BY <1>b, <2>1, <2>2 DEF CalledOnce, At
  <2> QED
    BY <2>1, <2>3, <2>4, <2>5 DEF CalledOnce, At
<1>2. ASSUME nextInv' = nextInv, sent' = sent,
             \A x \in Session : h'[x].pc = "call" => h'[x] = h[x]
      PROVE  CalledOnce'
  <2>1. \A i \in 1..(nextInv' - 1) :
          i \in 1..(nextInv - 1) /\ inv'[i].call = inv[i].call
    BY <1>b, <1>2
  <2>2. ASSUME NEW x \in Session, h'[x].pc = "call"
        PROVE  /\ sent'[h'[x].call] = "last"
               /\ \A i \in 1..(nextInv' - 1) : inv'[i].call # h'[x].call
    BY <1>2, <2>1, <2>2 DEF CalledOnce, At
  <2> QED
    BY <1>2, <2>1, <2>2 DEF CalledOnce, At
<1>3. ASSUME NEW c \in Call, sent[c] = "no", sent' = [sent EXCEPT ![c] = "last"],
             nextInv' = nextInv, h'[CallerOf[c]].call = c,
             \A x \in Session : x # CallerOf[c] => h'[x] = h[x]
      PROVE  CalledOnce'
  <2>1. \A i \in 1..(nextInv' - 1) :
          /\ i \in 1..(nextInv - 1) /\ inv'[i].call = inv[i].call
          /\ inv[i].call # c /\ inv[i].call \in Call
    BY <1>b, <1>3 DEF CalledOnce
  <2>2. ASSUME NEW x \in Session, h'[x].pc = "call"
        PROVE  /\ sent'[h'[x].call] = "last"
               /\ \A i \in 1..(nextInv' - 1) : inv'[i].call # h'[x].call
    <3>1. CASE x = CallerOf[c]
      BY <1>a, <1>3, <2>1, <3>1
    <3>2. CASE x # CallerOf[c]
      <4>1. h'[x] = h[x] /\ h[x].call \in Call /\ h[x].pc = "call"
        BY <1>3, <1>c, <2>2, <3>2
      <4> QED
        BY <1>a, <1>3, <2>1, <4>1 DEF CalledOnce, At
    <3> QED
      BY <3>1, <3>2
  <2>3. \A i \in 1..(nextInv' - 1) : sent'[inv'[i].call] = "last"
    BY <1>a, <1>3, <2>1 DEF CalledOnce
  <2>4. \A d \in Call : sent'[d] # "more"
    BY <1>a, <1>3 DEF CalledOnce
  <2>5. \A i, j \in 1..(nextInv' - 1) : inv'[i].call = inv'[j].call => i = j
    BY <2>1 DEF CalledOnce
  <2> QED
    BY <2>2, <2>3, <2>4, <2>5 DEF CalledOnce, At
<1>4. CASE nextInv' # nextInv
  BY <1>a, <1>1, <1>4, FreshStep
<1>5. CASE nextInv' = nextInv
  BY <1>2, <1>3, <1>5, CallsStep
<1> QED
  BY <1>4, <1>5

LEMMA AnswerersStep == OrderInv /\ [Next]_vars => Answerers'
<1> SUFFICES ASSUME OrderInv, [Next]_vars, NEW x \in Session, Answering(h'[x])
             PROVE  /\ inv'[h'[x].id].callee = x
                    /\ h'[x].kind = "progress" \/ h'[x].id \notin live'
  BY DEF Answerers
<1>a. CallInv /\ Answerers
  BY DEF OrderInv
<1>b. TypeInv /\ StoreTypeOK /\ Issued /\ AllLinked
  BY <1>a DEF CallInv, TypeInv, TypeOK, StoreInv
<1>1. /\ h'[x].id = h[x].id /\ h'[x].call = h[x].call /\ h'[x].kind = h[x].kind
      /\ \/ Answering(h[x])
         \/ /\ h[x].pc \in {"yieldAct", "errorAct"}
            /\ h[x].id \in live /\ inv[h[x].id].callee = x
            /\ h[x].kind = "progress" \/ h[x].id \notin live'
  BY <1>a, AnsweringStep
<1>2. h[x].id \in 1..(nextInv - 1)
  BY <1>1, <1>b DEF AllLinked, Linked, Answering
<1>3. inv'[h[x].id].callee = inv[h[x].id].callee /\ (h[x].id \in live' => h[x].id \in live)
  BY <1>2, <1>b, StoreStep, RecordsKept
<1> QED
  BY <1>1, <1>3, <1>a DEF Answerers

(* Where replies stay, what is over stays over. *)
LEMMA OverKept ==
    ASSUME OrderInv, [Next]_vars, NEW c \in Call, Over(c)
    PROVE  /\ \E i \in 1..(nextInv' - 1) : inv'[i].call = c /\ i \notin live'
           /\ \A s \in Session :
                 Answering(h'[s]) /\ h'[s].kind = "progress" => h'[s].call # c
<1>a. CallInv /\ CalledOnce /\ OverIsOver /\ TypeInv /\ StoreTypeOK /\ Issued
         /\ AllLinked
  BY DEF OrderInv, CallInv, TypeInv, TypeOK, StoreInv
<1>1. PICK i \in 1..(nextInv - 1) : inv[i].call = c /\ i \notin live
  BY <1>a DEF OverIsOver
<1>2. i \in 1..(nextInv' - 1) /\ inv'[i].call = c /\ i \notin live'
  BY <1>a, <1>1, StoreStep, RecordsKept
<1>3. ASSUME NEW s \in Session, Answering(h'[s]), h'[s].kind = "progress",
             h'[s].call = c
      PROVE  FALSE
  <2>1. /\ h'[s].id = h[s].id /\ h'[s].call = h[s].call /\ h'[s].kind = h[s].kind
        /\ \/ Answering(h[s])
           \/ h[s].pc \in {"yieldAct", "errorAct"} /\ h[s].id \in live
    BY <1>a, <1>3, AnsweringStep
  <2>2. ~Answering(h[s])
    BY <1>a, <1>3, <2>1 DEF OverIsOver
  <2>3. h[s].id \in 1..(nextInv - 1) /\ inv[h[s].id].call = c /\ h[s].id \in live
    BY <1>a, <1>3, <2>1, <2>2 DEF AllLinked, Linked
  <2> QED
    BY <1>a, <1>1, <2>3 DEF CalledOnce
<1> QED
  BY <1>2, <1>3

(* What a reply does to the order of a call's replies. *)
LEMMA SendOrder ==
    ASSUME TypeOK, NEW c \in Call, NEW r \in Reply, SendToCaller(c, r),
           NEW d \in Call
    PROVE  /\ Over(d)' => Over(d) \/ (d = c /\ r \in {"result", "error"})
           /\ \A m, n \in 1..Len(replies'[d]) :
                 /\ replies'[d][m] \in {"result", "error"}
                 /\ replies'[d][n] = "progress"
                 => \/ /\ m \in 1..Len(replies[d]) /\ n \in 1..Len(replies[d])
                       /\ replies[d][m] = replies'[d][m]
                       /\ replies[d][n] = replies'[d][n]
                    \/ n < m
                    \/ Over(d) /\ d = c /\ r = "progress"
<1>1. replies[c] \in Seq(Reply) /\ replies \in [Call -> Seq(Reply)]
  BY DEF TypeOK
<1>2. CASE replies'[d] = replies[d]
  BY <1>2 DEF Over
<1>3. CASE d = c /\ replies'[d] = Append(replies[d], r)
  <2>1. /\ Len(replies'[d]) = Len(replies[d]) + 1 /\ Len(replies[d]) \in Nat
        /\ replies'[d][Len(replies[d]) + 1] = r
        /\ \A n \in 1..Len(replies[d]) : replies'[d][n] = replies[d][n]
    BY <1>1, <1>3
  <2>2. \A n \in 1..Len(replies'[d]) :
            \/ n \in 1..Len(replies[d]) /\ replies'[d][n] = replies[d][n]
            \/ n = Len(replies[d]) + 1 /\ replies'[d][n] = r
    BY <2>1
  <2>3. Over(d)' => Over(d) \/ r \in {"result", "error"}
    BY <2>2 DEF Over
  <2>4. ASSUME NEW m \in 1..Len(replies'[d]), NEW n \in 1..Len(replies'[d]),
               replies'[d][m] \in {"result", "error"},
               replies'[d][n] = "progress"
        PROVE  \/ /\ m \in 1..Len(replies[d]) /\ n \in 1..Len(replies[d])
                  /\ replies[d][m] = replies'[d][m]
                  /\ replies[d][n] = replies'[d][n]
               \/ n < m
               \/ Over(d) /\ d = c /\ r = "progress"
    <3>1. CASE m = Len(replies[d]) + 1
      BY <2>1, <2>2, <2>4, <3>1
    <3>2. CASE n = Len(replies[d]) + 1 /\ m # n
      BY <1>3, <2>1, <2>2, <2>4, <3>2 DEF Over
    <3>3. CASE m # Len(replies[d]) + 1 /\ n # Len(replies[d]) + 1
      BY <2>2, <3>3
    <3> QED
      BY <3>1, <3>2, <3>3, <2>1
  <2> QED
    BY <1>3, <2>3, <2>4
<1> QED
  BY <1>1, <1>2, <1>3 DEF SendToCaller

LEMMA OverStep ==
    ASSUME OrderInv, [Next]_vars
    PROVE  OverIsOver' /\ ProgressBeforeFinal'
<1>a. /\ CallInv /\ CalledOnce /\ Answerers /\ OverIsOver /\ ProgressBeforeFinal
      /\ TypeInv /\ TypeOK /\ HandlersOK /\ StoreTypeOK /\ Issued /\ AllLinked
      /\ h \in [Session -> Handler]
  BY DEF OrderInv, CallInv, TypeInv, TypeOK, StoreInv
<1> DEFINE Settled(c) ==
             /\ \E i \in 1..(nextInv' - 1) : inv'[i].call = c /\ i \notin live'
             /\ \A s \in Session :
                   Answering(h'[s]) /\ h'[s].kind = "progress" => h'[s].call # c
<1>b. \A c \in Call : Over(c) => Settled(c)
  BY OverKept
<1> HIDE DEF Settled
<1>1. CASE replies' = replies
  <2>1. \A c \in Call : Over(c)' <=> Over(c)
    BY <1>1 DEF Over
  <2>2. OverIsOver'
    BY <1>b, <2>1 DEF OverIsOver, Settled
  <2> QED
    BY <1>1, <1>a, <2>2 DEF ProgressBeforeFinal
<1>2. ASSUME NEW c \in Call, NEW r \in {"cancelled", "timeout", "refused"},
             SendToCaller(c, r)
      PROVE  OverIsOver' /\ ProgressBeforeFinal'
  <2>0. r \in Reply
    BY DEF Reply, Terminal
  <2>1. \A d \in Call : Over(d)' => Over(d)
    BY <1>a, <1>2, <2>0, SendOrder
  <2>2. OverIsOver'
    BY <1>b, <2>1 DEF OverIsOver, Settled
  <2>3. ASSUME NEW d \in Call, NEW m \in 1..Len(replies'[d]),
               NEW n \in 1..Len(replies'[d]),
               replies'[d][m] \in {"result", "error"}, replies'[d][n] = "progress"
        PROVE  n < m
    <3>1. \/ /\ m \in 1..Len(replies[d]) /\ n \in 1..Len(replies[d])
             /\ replies[d][m] = replies'[d][m] /\ replies[d][n] = replies'[d][n]
          \/ n < m
      BY <1>a, <1>2, <2>0, <2>3, SendOrder
    <3> QED
      BY <1>a, <2>3, <3>1 DEF ProgressBeforeFinal
  <2> QED
    BY <2>2, <2>3 DEF ProgressBeforeFinal
<1>3. ASSUME NEW s \in Session, AnswerReply(s)
      PROVE  OverIsOver' /\ ProgressBeforeFinal'
  <2> DEFINE c == h[s].call
             r == h[s].kind
  <2>1. /\ c \in Call /\ r \in {"progress", "result", "error"} /\ SendToCaller(c, r)
        /\ h[s].pc = "reply" /\ Answering(h[s]) /\ h[s].id \in 1..(nextInv - 1)
        /\ inv[h[s].id].call = c
    BY <1>a, <1>3 DEF AnswerReply, At, HandlersOK, Locals, Handler, AllLinked,
       Linked, Answering
  <2>2. /\ UNCHANGED storeVars /\ h'[s].pc = "idle"
        /\ \A x \in Session : x # s => h'[x] = h[x]
    BY <1>a, <1>3 DEF AnswerReply, Done, Idle
  <2>0. r \in Reply
    BY <2>1 DEF Reply, Terminal
  <2>3. r = "progress" => ~Over(c)
    BY <1>a, <2>1 DEF OverIsOver
  <2>4. r # "progress" => Settled(c)
    <3> SUFFICES ASSUME r # "progress" PROVE Settled(c)
      OBVIOUS
    <3>1. h[s].id \notin live /\ inv[h[s].id].callee = s
      BY <1>a, <2>1 DEF Answerers
    <3>2. ASSUME NEW x \in Session, Answering(h'[x]), h'[x].call = c PROVE FALSE
      <4>1. x # s /\ h'[x] = h[x]
        BY <2>2, <3>2 DEF Answering
      <4>2. h[x].id \in 1..(nextInv - 1) /\ inv[h[x].id].call = c
        BY <1>a, <3>2, <4>1 DEF AllLinked, Linked, Answering
      <4>3. h[x].id = h[s].id
        BY <1>a, <2>1, <4>2 DEF CalledOnce
      <4> QED
        BY <1>a, <3>1, <3>2, <4>1, <4>3 DEF Answerers
    <3> QED
      BY <2>1, <2>2, <3>1, <3>2 DEF Settled, storeVars
  <2> HIDE DEF c, r
  <2>5. \A d \in Call : Over(d)' => Settled(d)
    <3> TAKE d \in Call
    <3>1. Over(d)' => Over(d) \/ (d = c /\ r # "progress")
      BY <1>a, <2>0, <2>1, SendOrder
    <3> QED
      BY <1>b, <2>4, <3>1
  <2>6. ASSUME NEW d \in Call, NEW m \in 1..Len(replies'[d]),
               NEW n \in 1..Len(replies'[d]),
               replies'[d][m] \in {"result", "error"}, replies'[d][n] = "progress"
        PROVE  n < m
    <3>1. \/ /\ m \in 1..Len(replies[d]) /\ n \in 1..Len(replies[d])
             /\ replies[d][m] = replies'[d][m] /\ replies[d][n] = replies'[d][n]
          \/ n < m
          \/ Over(d) /\ d = c /\ r = "progress"
      BY <1>a, <2>0, <2>1, <2>6, SendOrder
    <3> QED
      BY <1>a, <2>3, <2>6, <3>1 DEF ProgressBeforeFinal
  <2> QED
    BY <2>5, <2>6 DEF OverIsOver, ProgressBeforeFinal, Settled
<1> QED
  BY <1>a, <1>1, <1>2, <1>3, RepliesStep

(* Whatever the awaits of YIELD, ERROR, CALL and CANCEL handlers let pass: *)
(* a caller that sends no chunks gets its progressive RESULTs before the   *)
(* callee's final answer, with any cancel mode, any strays and any number  *)
(* of sessions; and a callee gets its INVOCATION before the INTERRUPT.     *)
THEOREM RepliesStayInOrder ==
    ASSUME Chunked = {}
    PROVE  Spec => []RepliesInOrder
<1>1. Init => OrderInv
  <2> SUFFICES ASSUME Init PROVE OrderInv
    OBVIOUS
  <2>1. CalledOnce /\ Answerers
    BY DEF Init, StoreInit, CalledOnce, Answerers, Answering, At, Idle
  <2>2. \A c \in Call : replies[c] = <<>>
    BY DEF Init
  <2>3. OverIsOver /\ ProgressBeforeFinal
    BY <2>2 DEF OverIsOver, Over, ProgressBeforeFinal
  <2> QED
    BY <2>1, <2>3, CallInvInit DEF OrderInv
<1>2. OrderInv /\ [Next]_vars => OrderInv'
  BY CallInvStep, CalledOnceStep, AnswerersStep, OverStep DEF OrderInv
<1>3. OrderInv => RepliesInOrder
  BY DEF OrderInv, CallInv, RepliesInOrder
<1> QED
  BY <1>1, <1>2, <1>3, PTL DEF Spec
=============================================================================
