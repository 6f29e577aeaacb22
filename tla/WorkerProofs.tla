---------------------------- MODULE WorkerProofs ----------------------------
(***************************************************************************)
(* Theorems about the worker: its connections and the store's sessions     *)
(* (Handshake), for every number of connections, as long as clients keep   *)
(* to the protocol once they are welcomed; and the boss's view of it       *)
(* (WorkerSlot), for every number of connections and any traffic.          *)
(***************************************************************************)
EXTENDS Handshake, WorkerSlot, FiniteSetTheorems, SequenceTheorems, TLAPS

(* A handler at work means that the session is not open yet; a connection  *)
(* whose closers are through has lost its realm, so that a handler still   *)
(* under way cannot open the session any more.                             *)
NotYetOpen == \A c \in Conn : pc[c] # "idle" => phase[c] # "open"
ClosedHasNoRealm ==
    \A c \in Conn : ended[c] # {} /\ waiting[c] = {} => ~realm[c]

(* An authenticator that was told is never in the state again. *)
ToldForGood ==
    \A c \in Conn : aborts[c] # 0 =>
        /\ aborts[c] = 1 /\ ~authn[c]
        /\ pc[c] \notin {"sessionId", "create"}
        /\ pc[c] = "idle" /\ ended[c] = {} => phase[c] # "hello"

(* Before its creation there is no authenticator. *)
NoneYet ==
    \A c \in Conn :
        \/ pc[c] = "idle" /\ phase[c] = "hello"
        \/ pc[c] \in {"anonymousId", "sessionId", "create"}
        => ~authn[c]

IInv == /\ TypeOK /\ Established /\ NotYetOpen /\ ClosedHasNoRealm
        /\ NoneYet /\ ToldForGood

(* The invariant holds before the first message. *)
LEMMA InitIInv == Init => IInv
  BY HandshakeAssumption
     DEF Init, IInv, TypeOK, Established, NotYetOpen, ClosedHasNoRealm,
         NoneYet, ToldForGood, Phase, Wait, Closer

(* sendAbort of a connection without an open session keeps the invariant. *)
LEMMA SendAbortKeeps ==
    ASSUME IInv, NEW c \in Conn,
           SendAbort(c), phase[c] # "open" /\ (pc[c] \in Wait \/ Receives(c))
    PROVE  IInv'
<1> USE HandshakeAssumption DEF SendAbort, TellAuthenticator, Aborted, Goto,
          Receives
<1>1. TypeOK'
  <2>1. (/\ phase \in [Conn -> Phase] /\ realm \in [Conn -> BOOLEAN]
         /\ sess \in [Conn -> 0..MaxId])'
    BY DEF IInv, TypeOK, Phase
  <2>2. (authn \in [Conn -> BOOLEAN])'
    BY DEF IInv, TypeOK
  <2>3. (aborts \in [Conn -> Nat])'
    BY DEF IInv, TypeOK
  <2>4. (pc \in [Conn -> Wait \cup {"idle"}])'
    BY DEF IInv, TypeOK, Wait
  <2>5. (ended \in [Conn -> SUBSET Closer] /\ waiting \in [Conn -> SUBSET Closer])'
    BY DEF IInv, TypeOK, Closer
  <2>6. (stored \subseteq Conn \X (1..MaxId) /\ nextId \in 1..(MaxId + 1))'
    BY DEF IInv, TypeOK
  <2>7. QED
    BY <2>1, <2>2, <2>3, <2>4, <2>5, <2>6 DEF TypeOK
<1>2. Established'
  BY DEF MustTell, IInv, TypeOK, Established, NotYetOpen, Phase, Wait, Closer
<1>3. NotYetOpen'
  BY DEF MustTell, IInv, TypeOK, NotYetOpen, Phase, Wait
<1>4. ClosedHasNoRealm'
  BY DEF IInv, TypeOK, ClosedHasNoRealm, Closer
<1>5. NoneYet'
  BY DEF MustTell, IInv, TypeOK, NoneYet
<1>6. ToldForGood'
  BY DEF MustTell, IInv, TypeOK, NoneYet, ToldForGood
<1>7. QED
  BY <1>1, <1>2, <1>3, <1>4, <1>5, <1>6 DEF IInv

(* The ABORT after onAbort keeps the invariant. *)
LEMMA AbortToldKeeps ==
    ASSUME IInv, NEW c \in Conn,
           AbortTold(c)
    PROVE  IInv'
<1> USE HandshakeAssumption DEF AbortTold, Aborted, Goto
<1>1. TypeOK'
  BY DEF IInv, TypeOK, Phase, Wait, Closer
<1>2. Established'
  BY DEF IInv, TypeOK, Established, NotYetOpen, Phase, Wait, Closer
<1>3. NotYetOpen'
  BY DEF IInv, TypeOK, NotYetOpen, Phase, Wait
<1>4. ClosedHasNoRealm'
  BY DEF IInv, TypeOK, ClosedHasNoRealm, Closer
<1>5. NoneYet'
  BY DEF IInv, TypeOK, NoneYet
<1>6. ToldForGood'
  BY DEF IInv, TypeOK, NoneYet, ToldForGood
<1>7. QED
  BY <1>1, <1>2, <1>3, <1>4, <1>5, <1>6 DEF IInv

(* A HELLO that is refused keeps the invariant. *)
LEMMA HelloRefusedKeeps ==
    ASSUME IInv, NEW c \in Conn,
           HelloRefused(c)
    PROVE  IInv'
<1> USE HandshakeAssumption DEF HelloRefused, Receives
<1>1. TypeOK'
  BY DEF IInv, TypeOK, Phase, Wait, Closer
<1>2. Established'
  BY DEF IInv, TypeOK, Established, NotYetOpen, Phase, Wait, Closer
<1>3. NotYetOpen'
  BY DEF IInv, TypeOK, NotYetOpen, Phase, Wait
<1>4. ClosedHasNoRealm'
  BY DEF IInv, TypeOK, ClosedHasNoRealm, Closer
<1>5. NoneYet'
  BY DEF IInv, TypeOK, NoneYet
<1>6. ToldForGood'
  BY DEF IInv, TypeOK, NoneYet, ToldForGood
<1>7. QED
  BY <1>1, <1>2, <1>3, <1>4, <1>5, <1>6 DEF IInv

(* A HELLO that is accepted keeps the invariant. *)
LEMMA HelloAcceptedKeeps ==
    ASSUME IInv, NEW c \in Conn,
           HelloAccepted(c)
    PROVE  IInv'
<1> USE HandshakeAssumption DEF HelloAccepted, Receives, Goto
<1>1. TypeOK'
  BY DEF IInv, TypeOK, Phase, Wait, Closer
<1>2. Established'
  BY DEF IInv, TypeOK, Established, NotYetOpen, Phase, Wait, Closer
<1>3. NotYetOpen'
  BY DEF IInv, TypeOK, NotYetOpen, Phase, Wait
<1>4. ClosedHasNoRealm'
  BY DEF IInv, TypeOK, ClosedHasNoRealm, Closer
<1>5. NoneYet'
  BY DEF IInv, TypeOK, NoneYet
<1>6. ToldForGood'
  BY DEF IInv, TypeOK, NoneYet, ToldForGood
<1>7. QED
  BY <1>1, <1>2, <1>3, <1>4, <1>5, <1>6 DEF IInv

(* The session id that was allocated keeps the invariant. *)
LEMMA AllocateSessionIdKeeps ==
    ASSUME IInv, NEW c \in Conn,
           AllocateSessionId(c)
    PROVE  IInv'
<1> USE HandshakeAssumption DEF AllocateSessionId, Goto
<1>1. TypeOK'
  BY DEF IInv, TypeOK, Phase, Wait, Closer
<1>2. Established'
  BY DEF IInv, TypeOK, Established, NotYetOpen, Phase, Wait, Closer
<1>3. NotYetOpen'
  BY DEF IInv, TypeOK, NotYetOpen, Phase, Wait
<1>4. ClosedHasNoRealm'
  BY DEF IInv, TypeOK, ClosedHasNoRealm, Closer
<1>5. NoneYet'
  BY DEF IInv, TypeOK, NoneYet
<1>6. ToldForGood'
  BY DEF IInv, TypeOK, NoneYet, ToldForGood
<1>7. QED
  BY <1>1, <1>2, <1>3, <1>4, <1>5, <1>6 DEF IInv

(* The authenticator that was created keeps the invariant. *)
LEMMA AuthenticatorCreatedKeeps ==
    ASSUME IInv, NEW c \in Conn,
           AuthenticatorCreated(c)
    PROVE  IInv'
<1> USE HandshakeAssumption DEF AuthenticatorCreated, Goto
<1>1. TypeOK'
  BY DEF IInv, TypeOK, Phase, Wait, Closer
<1>2. Established'
  BY DEF IInv, TypeOK, Established, NotYetOpen, Phase, Wait, Closer
<1>3. NotYetOpen'
  BY DEF IInv, TypeOK, NotYetOpen, Phase, Wait
<1>4. ClosedHasNoRealm'
  BY DEF IInv, TypeOK, ClosedHasNoRealm, Closer
<1>5. NoneYet'
  BY DEF IInv, TypeOK, NoneYet
<1>6. ToldForGood'
  BY DEF IInv, TypeOK, NoneYet, ToldForGood
<1>7. QED
  BY <1>1, <1>2, <1>3, <1>4, <1>5, <1>6 DEF IInv

(* An AUTHENTICATE that is passed on keeps the invariant. *)
LEMMA AuthenticateAcceptedKeeps ==
    ASSUME IInv, NEW c \in Conn,
           AuthenticateAccepted(c)
    PROVE  IInv'
<1> USE HandshakeAssumption DEF AuthenticateAccepted, Receives, Goto, connVars
<1>1. TypeOK'
  BY DEF IInv, TypeOK, Phase, Wait, Closer
<1>2. Established'
  BY DEF IInv, TypeOK, Established, NotYetOpen, Phase, Wait, Closer
<1>3. NotYetOpen'
  BY DEF IInv, TypeOK, NotYetOpen, Phase, Wait
<1>4. ClosedHasNoRealm'
  BY DEF IInv, TypeOK, ClosedHasNoRealm, Closer
<1>5. NoneYet'
  BY DEF IInv, TypeOK, NoneYet
<1>6. ToldForGood'
  BY DEF IInv, TypeOK, NoneYet, ToldForGood
<1>7. QED
  BY <1>1, <1>2, <1>3, <1>4, <1>5, <1>6 DEF IInv

(* A GOODBYE keeps the invariant. *)
LEMMA GoodbyeKeeps ==
    ASSUME IInv, NEW c \in Conn,
           Goodbye(c)
    PROVE  IInv'
<1> USE HandshakeAssumption DEF Goodbye, Receives, TellAuthenticator, Closed,
          Goto
<1>1. TypeOK'
  <2>1. (phase \in [Conn -> Phase] /\ realm \in [Conn -> BOOLEAN])'
    BY DEF IInv, TypeOK, Phase
  <2>1a. (sess \in [Conn -> 0..MaxId])'
    BY DEF IInv, TypeOK
  <2>2. (authn \in [Conn -> BOOLEAN])'
    BY DEF IInv, TypeOK
  <2>3. (aborts \in [Conn -> Nat])'
    BY DEF IInv, TypeOK
  <2>4. (pc \in [Conn -> Wait \cup {"idle"}])'
    BY DEF IInv, TypeOK, Wait
  <2>5. (ended \in [Conn -> SUBSET Closer] /\ waiting \in [Conn -> SUBSET Closer])'
    BY DEF IInv, TypeOK, Closer
  <2>6. (stored \subseteq Conn \X (1..MaxId))'
    BY DEF IInv, TypeOK
  <2>7. (nextId \in 1..(MaxId + 1))'
    BY DEF IInv, TypeOK
  <2>8. QED
    BY <2>1a, <2>1, <2>2, <2>3, <2>4, <2>5, <2>6, <2>7 DEF TypeOK
<1>2. Established'
  BY DEF MustTell, IInv, TypeOK, Established, NotYetOpen, Phase, Wait, Closer
<1>3. NotYetOpen'
  BY DEF MustTell, IInv, TypeOK, NotYetOpen, Phase, Wait
<1>4. ClosedHasNoRealm'
  BY DEF IInv, TypeOK, ClosedHasNoRealm, Closer
<1>5. NoneYet'
  BY DEF MustTell, IInv, TypeOK, NoneYet
<1>6. ToldForGood'
  BY DEF MustTell, IInv, TypeOK, NoneYet, ToldForGood
<1>7. QED
  BY <1>1, <1>2, <1>3, <1>4, <1>5, <1>6 DEF IInv

(* The end of a GOODBYE after onAbort keeps the invariant. *)
LEMMA GoodbyeToldKeeps ==
    ASSUME IInv, NEW c \in Conn,
           GoodbyeTold(c)
    PROVE  IInv'
<1> USE HandshakeAssumption DEF GoodbyeTold, Closed, Goto
<1>1. TypeOK'
  BY DEF IInv, TypeOK, Phase, Wait, Closer
<1>2. Established'
  BY DEF IInv, TypeOK, Established, NotYetOpen, Phase, Wait, Closer
<1>3. NotYetOpen'
  BY DEF IInv, TypeOK, NotYetOpen, Phase, Wait
<1>4. ClosedHasNoRealm'
  BY DEF IInv, TypeOK, ClosedHasNoRealm, Closer
<1>5. NoneYet'
  BY DEF IInv, TypeOK, NoneYet
<1>6. ToldForGood'
  BY DEF IInv, TypeOK, NoneYet, ToldForGood
<1>7. QED
  BY <1>1, <1>2, <1>3, <1>4, <1>5, <1>6 DEF IInv

(* A removal or a drain keeps the invariant. *)
LEMMA CloseKeeps ==
    ASSUME IInv, NEW c \in Conn, NEW k \in Closer,
           Close(k, c)
    PROVE  IInv'
<1> USE HandshakeAssumption DEF Close, TellAuthenticator, Closed
<1>1. TypeOK'
  <2>1. (phase \in [Conn -> Phase] /\ realm \in [Conn -> BOOLEAN])'
    BY DEF IInv, TypeOK, Phase
  <2>1a. (sess \in [Conn -> 0..MaxId])'
    BY DEF IInv, TypeOK
  <2>2. (authn \in [Conn -> BOOLEAN])'
    BY DEF IInv, TypeOK
  <2>3. (aborts \in [Conn -> Nat])'
    BY DEF IInv, TypeOK
  <2>4. (pc \in [Conn -> Wait \cup {"idle"}])'
    BY DEF IInv, TypeOK, Wait
  <2>5. (ended \in [Conn -> SUBSET Closer] /\ waiting \in [Conn -> SUBSET Closer])'
    BY DEF IInv, TypeOK, Closer
  <2>6. (stored \subseteq Conn \X (1..MaxId))'
    BY DEF IInv, TypeOK
  <2>7. (nextId \in 1..(MaxId + 1))'
    BY DEF IInv, TypeOK
  <2>8. QED
    BY <2>1a, <2>1, <2>2, <2>3, <2>4, <2>5, <2>6, <2>7 DEF TypeOK
<1>2. Established'
  BY DEF MustTell, IInv, TypeOK, Established, NotYetOpen, Phase, Wait, Closer
<1>3. NotYetOpen'
  BY DEF MustTell, IInv, TypeOK, NotYetOpen, Phase, Wait
<1>4. ClosedHasNoRealm'
  <2>1. CASE MustTell(c)
    <3>1. waiting'[c] # {}
      BY <2>1 DEF IInv, TypeOK
    <3>2. QED
      BY <2>1, <3>1 DEF IInv, TypeOK, ClosedHasNoRealm
  <2>2. CASE ~MustTell(c)
    BY <2>2 DEF IInv, TypeOK, ClosedHasNoRealm
  <2>3. QED
    BY <2>1, <2>2
<1>5. NoneYet'
  BY DEF MustTell, IInv, TypeOK, NoneYet
<1>6. ToldForGood'
  BY DEF MustTell, IInv, TypeOK, NoneYet, ToldForGood
<1>7. QED
  BY <1>1, <1>2, <1>3, <1>4, <1>5, <1>6 DEF IInv

(* Its end after onAbort keeps the invariant. *)
LEMMA CloseToldKeeps ==
    ASSUME IInv, NEW c \in Conn, NEW k \in Closer,
           CloseTold(k, c)
    PROVE  IInv'
<1> USE HandshakeAssumption DEF CloseTold, Closed
<1>1. TypeOK'
  BY DEF IInv, TypeOK, Phase, Wait, Closer
<1>2. Established'
  BY DEF IInv, TypeOK, Established, NotYetOpen, Phase, Wait, Closer
<1>3. NotYetOpen'
  BY DEF IInv, TypeOK, NotYetOpen, Phase, Wait
<1>4. ClosedHasNoRealm'
  BY DEF IInv, TypeOK, ClosedHasNoRealm, Closer
<1>5. NoneYet'
  BY DEF IInv, TypeOK, NoneYet
<1>6. ToldForGood'
  BY DEF IInv, TypeOK, NoneYet, ToldForGood
<1>7. QED
  BY <1>1, <1>2, <1>3, <1>4, <1>5, <1>6 DEF IInv

(* The WELCOME, which finds no session of the connection in the store, keeps the invariant. *)
LEMMA WelcomeKeeps ==
    ASSUME IInv, NEW c \in Conn,
           pc[c] \in {"anonymousId", "onHello", "onAuthenticate", "welcomeId"},
           NEW id \in 1..MaxId, Welcome(c, id), nextId' \in 1..(MaxId + 1)
    PROVE  IInv'
<1> USE HandshakeAssumption DEF Welcome, Goto
<1>1. TypeOK'
  BY DEF IInv, TypeOK, Phase, Wait, Closer
<1>2. Established'
  BY DEF IInv, TypeOK, Established, NotYetOpen, Phase, Wait, Closer
<1>3. NotYetOpen'
  BY DEF IInv, TypeOK, NotYetOpen, Phase, Wait
<1>4. ClosedHasNoRealm'
  BY DEF IInv, TypeOK, ClosedHasNoRealm, Closer
<1>5. NoneYet'
  BY DEF IInv, TypeOK, NoneYet
<1>6. ToldForGood'
  BY DEF IInv, TypeOK, NoneYet, ToldForGood
<1>7. QED
  BY <1>1, <1>2, <1>3, <1>4, <1>5, <1>6 DEF IInv

(* A challenge keeps the invariant. *)
LEMMA ChallengeKeeps ==
    ASSUME IInv, NEW c \in Conn,
           pc[c] \in {"onHello", "onAuthenticate"},
           ApplyAuthResult(c, "challenge")
    PROVE  IInv'
<1> USE HandshakeAssumption DEF ApplyAuthResult, Goto
<1>1. TypeOK'
  BY DEF IInv, TypeOK, Phase, Wait, Closer
<1>2. Established'
  BY DEF IInv, TypeOK, Established, NotYetOpen, Phase, Wait, Closer
<1>3. NotYetOpen'
  BY DEF IInv, TypeOK, NotYetOpen, Phase, Wait
<1>4. ClosedHasNoRealm'
  BY DEF IInv, TypeOK, ClosedHasNoRealm, Closer
<1>5. NoneYet'
  BY DEF IInv, TypeOK, NoneYet
<1>6. ToldForGood'
  BY DEF IInv, TypeOK, NoneYet, ToldForGood
<1>7. QED
  BY <1>1, <1>2, <1>3, <1>4, <1>5, <1>6 DEF IInv

(* onHello and onAuthenticate, whichever result they bring. *)
LEMMA ApplyAuthResultKeeps ==
    ASSUME IInv, NEW c \in Conn, NEW result \in Result,
           pc[c] \in {"onHello", "onAuthenticate"},
           ApplyAuthResult(c, result)
    PROVE  IInv'
<1>1. CASE result = "challenge"
  BY <1>1, ChallengeKeeps
<1>2. CASE result = "success" /\ sess[c] # 0
  <2>1. sess[c] \in 1..MaxId /\ Welcome(c, sess[c]) /\ nextId' = nextId
    BY <1>2, HandshakeAssumption DEF ApplyAuthResult, IInv, TypeOK
  <2>2. QED
    BY <2>1, WelcomeKeeps DEF IInv, TypeOK
<1>3. CASE result = "success" /\ sess[c] = 0
  <2>1. pc' = [pc EXCEPT ![c] = "welcomeId"] /\ phase[c] # "open"
    BY <1>3 DEF ApplyAuthResult, Goto, IInv, NotYetOpen
  <2>2. UNCHANGED <<phase, realm, sess, authn, ended, waiting, stored, nextId,
                    aborts>>
    BY <1>3 DEF ApplyAuthResult, connVars
  <2>3. TypeOK' /\ Established' /\ NotYetOpen'
    BY <2>1, <2>2 DEF IInv, TypeOK, Established, NotYetOpen, Wait
  <2>4. ClosedHasNoRealm' /\ NoneYet'
    BY <2>1, <2>2 DEF IInv, TypeOK, ClosedHasNoRealm, NoneYet
  <2>5. ToldForGood'
    BY <2>1, <2>2 DEF IInv, TypeOK, ToldForGood
  <2>6. QED
    BY <2>3, <2>4, <2>5 DEF IInv
<1>4. CASE result \in {"failure", "throw"}
  BY <1>4, SendAbortKeeps DEF ApplyAuthResult, IInv, NotYetOpen, Wait
<1>5. QED
  BY <1>1, <1>2, <1>3, <1>4 DEF Result

(* Every message handler keeps the invariant. *)
LEMMA MessageKeeps ==
    ASSUME IInv, Strays = FALSE, NEW c \in Conn, Message(c)
    PROVE  IInv'
<1>1. CASE HelloUnexpected(c)
  BY <1>1, SendAbortKeeps DEF HelloUnexpected
<1>2. CASE HelloRefused(c)
  BY <1>2, HelloRefusedKeeps
<1>3. CASE HelloAccepted(c)
  BY <1>3, HelloAcceptedKeeps
<1>4. CASE AuthenticateRefused(c)
  BY <1>4, SendAbortKeeps DEF AuthenticateRefused
<1>5. CASE AuthenticateAccepted(c)
  BY <1>5, AuthenticateAcceptedKeeps
<1>6. CASE Goodbye(c)
  BY <1>6, GoodbyeKeeps
<1>7. QED
  BY <1>1, <1>2, <1>3, <1>4, <1>5, <1>6 DEF Message

(* Every handler that goes on after a wait keeps the invariant. *)
LEMMA ResumeKeeps ==
    ASSUME IInv, NEW c \in Conn, Resume(c)
    PROVE  IInv'
<1>1. CASE AllocateSessionId(c)
  BY <1>1, AllocateSessionIdKeeps
<1>2. CASE AuthenticatorCreated(c)
  BY <1>2, AuthenticatorCreatedKeeps
<1>3. CASE CreateThrows(c)
  BY <1>3, SendAbortKeeps DEF CreateThrows, IInv, NotYetOpen, Wait
<1>4. ASSUME nextId <= MaxId, nextId' = nextId + 1,
             pc[c] \in {"anonymousId", "welcomeId"}, Welcome(c, nextId)
      PROVE  IInv'
  <2>1. nextId \in 1..MaxId /\ nextId' \in 1..(MaxId + 1)
    BY <1>4, HandshakeAssumption DEF IInv, TypeOK
  <2>2. QED
    BY <1>4, <2>1, WelcomeKeeps
<1>5. CASE OpenAnonymousSession(c)
  BY <1>4, <1>5 DEF OpenAnonymousSession
<1>6. CASE WelcomeId(c)
  BY <1>4, <1>6 DEF WelcomeId
<1>7. CASE AbortTold(c)
  BY <1>7, AbortToldKeeps
<1>8. CASE GoodbyeTold(c)
  BY <1>8, GoodbyeToldKeeps
<1>9. ASSUME NEW result \in Result, OnHello(c, result)
      PROVE  IInv'
  BY <1>9, ApplyAuthResultKeeps DEF OnHello
<1>10. ASSUME NEW result \in Result, OnAuthenticate(c, result)
       PROVE  IInv'
  <2>1. CASE realm[c]
    BY <1>10, <2>1, ApplyAuthResultKeeps DEF OnAuthenticate
  <2>2. CASE ~realm[c]
    BY <1>10, <2>2, SendAbortKeeps DEF OnAuthenticate, IInv, NotYetOpen, Wait
  <2>3. QED
    BY <2>1, <2>2
<1>11. ASSUME NEW k \in Closer, CloseTold(k, c)
       PROVE  IInv'
  BY <1>11, CloseToldKeeps
<1>12. QED
  BY <1>1, <1>2, <1>3, <1>5, <1>6, <1>7, <1>8, <1>9, <1>10, <1>11 DEF Resume

(* The invariant is inductive while no welcomed client sends HELLO or      *)
(* AUTHENTICATE.                                                           *)
LEMMA NextIInv == ASSUME Strays = FALSE PROVE IInv /\ [Next]_vars => IInv'
<1> SUFFICES ASSUME IInv, [Next]_vars PROVE IInv'
  OBVIOUS
<1>1. ASSUME NEW c \in Conn, Message(c) PROVE IInv'
  BY <1>1, MessageKeeps
<1>2. ASSUME NEW c \in Conn, Resume(c) PROVE IInv'
  BY <1>2, ResumeKeeps
<1>3. ASSUME NEW c \in Conn, NEW k \in Closer, Close(k, c) PROVE IInv'
  BY <1>3, CloseKeeps
<1>4. CASE UNCHANGED vars
  BY <1>4 DEF vars, connVars, IInv, TypeOK, Established, NotYetOpen,
              ClosedHasNoRealm, NoneYet, ToldForGood
<1>5. QED
  BY <1>1, <1>2, <1>3, <1>4 DEF Next

(* The invariant holds in every reachable state. *)
LEMMA AlwaysIInv == ASSUME Strays = FALSE PROVE Spec => []IInv
<1>1. Init => IInv
  BY InitIInv
<1>2. IInv /\ [Next]_vars => IInv'
  BY NextIInv
<1>3. QED
  BY <1>1, <1>2, PTL DEF Spec

(* Every variable of the handshake keeps its type: the phases and waits of *)
(* WorkerConnectionState, and ids that the store has handed out.           *)
THEOREM HandshakeTypes == ASSUME Strays = FALSE PROVE Spec => []TypeOK
<1>1. IInv => TypeOK
  BY DEF IInv
<1>2. QED
  BY <1>1, AlwaysIInv, PTL

(* Every session in the store belongs to a connection whose worker serves  *)
(* that session (the handshake's SessionOpenCommand and _closeSession).    *)
THEOREM EstablishedHolds == ASSUME Strays = FALSE PROVE Spec => []Established
<1>1. IInv => Established
  BY DEF IInv
<1>2. QED
  BY <1>1, AlwaysIInv, PTL

(* A removed or drained connection leaves no session in the store, however *)
(* its removal interleaves with HELLO, AUTHENTICATE and the authenticator. *)
THEOREM NoGhostsHolds == ASSUME Strays = FALSE PROVE Spec => []NoGhosts
<1>1. IInv => NoGhosts
  BY DEF IInv, TypeOK, Established, ClosedHasNoRealm, NoGhosts, Over
<1>2. QED
  BY <1>1, AlwaysIInv, PTL

(* onAbort is called at most once for a connection, although the handlers, *)
(* the removal and the drain may all want to call it.                      *)
THEOREM AbortOnceHolds == ASSUME Strays = FALSE PROVE Spec => []AbortOnce
<1>1. IInv => AbortOnce
  BY DEF IInv, TypeOK, ToldForGood, AbortOnce
<1>2. QED
  BY <1>1, AlwaysIInv, PTL
-----------------------------------------------------------------------------
(***************************************************************************)
(* WorkerSlot.  The boss's loop over the connections is a recursive        *)
(* function; Iteration shows that it exists and SmallestNumber that every  *)
(* value of it is a ScanState.                                             *)
(***************************************************************************)

(* A nonempty set of numbers has a smallest. *)
LEMMA SmallestNumber ==
    ASSUME NEW T \in SUBSET Nat, T # {}
    PROVE  \E m \in T : \A k \in T : m <= k
<1>1. PICK n \in T : TRUE
  OBVIOUS
<1> DEFINE F == {0..k : k \in {j \in T : j <= n}}
<1>2. /\ IsFiniteSet(0..n)
      /\ F \in SUBSET SUBSET (0..n)
      /\ F # {}
  <2>1. IsFiniteSet(0..n)
    BY <1>1, FS_Interval
  <2>2. 0..n \in F
    BY <1>1
  <2>3. ASSUME NEW k \in T, k <= n PROVE 0..k \in SUBSET (0..n)
    BY <1>1, <2>3
  <2> QED BY <2>1, <2>2, <2>3
<1>3. IsWellFoundedOn(StrictSubsetOrdering(0..n), SUBSET (0..n))
  BY <1>2, FS_FiniteSubsetsOfFinite, FS_StrictSubsetOrderingWellFounded
<1>4. PICK s \in F : \A r \in F : <<r, s>> \notin StrictSubsetOrdering(0..n)
  <2> HIDE DEF F
  <2> QED BY <1>2, <1>3, WFMin
<1>5. PICK m \in T : m <= n /\ s = 0..m
  BY <1>4
<1>6. ASSUME NEW k \in T, k < m PROVE FALSE
  <2>1. 0..k \in F
    BY <1>1, <1>5, <1>6
  <2>2. 0..k \subseteq 0..m /\ 0..k # 0..m
    BY <1>5, <1>6
  <2> QED BY <1>2, <1>4, <1>5, <2>1, <2>2 DEF StrictSubsetOrdering
<1> QED BY <1>5, <1>6

(* A function of numbers may be defined step by step. *)
Iterates(f, s0, N, step) == f[0] = s0 /\ \A i \in 1..N : f[i] = step[i][f[i - 1]]

LEMMA Iteration ==
    ASSUME NEW S, NEW s0 \in S, NEW N \in Nat, NEW step \in [Nat \ {0} -> [S -> S]]
    PROVE  \E f \in [0..N -> S] : Iterates(f, s0, N, step)
<1> DEFINE Good(n, f) == f \in [0..n -> S] /\ f[0] = s0
                         /\ \A i \in 1..n : f[i] = step[i][f[i - 1]]
           Bad == {n \in Nat : ~\E f : Good(n, f)}
<1> SUFFICES ASSUME Bad # {} PROVE FALSE
  BY DEF Iterates
<1>1. PICK m \in Bad : \A k \in Bad : m <= k
  <2> HIDE DEF Bad
  <2>1. Bad \in SUBSET Nat
    BY DEF Bad
  <2> QED BY <2>1, SmallestNumber
<1>2. m # 0
  <2> DEFINE g == [i \in 0..0 |-> s0]
  <2>1. g \in [0..0 -> S] /\ g[0] = s0
    OBVIOUS
  <2>2. 1..0 = {}
    OBVIOUS
  <2> HIDE DEF g
  <2>3. Good(0, g)
    BY <2>1, <2>2
  <2> QED BY <2>3
<1>3. m \in Nat /\ m - 1 \in Nat /\ m - 1 \notin Bad
  <2>1. m \in Nat
    BY <1>1
  <2> HIDE DEF Bad
  <2> QED BY <1>1, <1>2, <2>1
<1>4. PICK f : Good(m - 1, f)
  BY <1>3
<1> DEFINE g == [i \in 0..m |-> IF i = m THEN step[m][f[m - 1]] ELSE f[i]]
<1>5. Good(m, g)
  <2>1. f[m - 1] \in S
    BY <1>3, <1>4
  <2>2. step[m][f[m - 1]] \in S
    BY <1>2, <1>3, <2>1
  <2>3. ASSUME NEW i \in 0..m, i # m PROVE i \in 0..(m - 1) /\ g[i] = f[i]
    BY <1>3, <2>3
  <2>4. g[m] = step[m][f[m - 1]]
    BY <1>3
  <2>5. g \in [0..m -> S]
    BY <1>4, <2>2, <2>3, <2>4
  <2>6. g[0] = s0
    BY <1>2, <1>3, <1>4, <2>3
  <2>7. ASSUME NEW i \in 1..m PROVE g[i] = step[i][g[i - 1]]
    <3>1. i - 1 \in 0..m /\ i - 1 # m
      BY <1>3
    <3>2. g[i - 1] = f[i - 1]
      BY <2>3, <3>1
    <3>3. CASE i = m
      BY <2>4, <3>2, <3>3
    <3>4. CASE i # m
      <4>1. i \in 1..(m - 1) /\ g[i] = f[i]
        BY <1>3, <2>3, <3>4
      <4> HIDE DEF g
      <4> QED BY <1>4, <4>1, <3>2
    <3> QED BY <3>3, <3>4
  <2> HIDE DEF g
  <2> QED BY <2>5, <2>6, <2>7
<1> QED BY <1>1, <1>5
(* Removing from a list of connections. *)
LEMMA RemoveAtGives ==
    ASSUME NEW s \in Seq(Peer), IsInjective(s), NEW n \in 1..Len(s)
    PROVE  /\ RemoveAt(s, n) \in Seq(Peer) /\ IsInjective(RemoveAt(s, n))
           /\ ToSet(RemoveAt(s, n)) = ToSet(s) \ {s[n]}
<1> DEFINE r == RemoveAt(s, n)
<1>1. /\ r \in Seq(Peer) /\ Len(s) \in Nat /\ Len(r) = Len(s) - 1
      /\ DOMAIN s = 1..Len(s) /\ DOMAIN r = 1..(Len(s) - 1)
      /\ \A i \in 1..(Len(s) - 1) : r[i] = IF i < n THEN s[i] ELSE s[i + 1]
  <2> DEFINE a == SubSeq(s, 1, n - 1)
             b == SubSeq(s, n + 1, Len(s))
  <2>1. /\ Len(s) \in Nat /\ n \in Nat /\ DOMAIN s = 1..Len(s)
        /\ a \in Seq(Peer) /\ Len(a) = n - 1 /\ \A i \in 1..(n - 1) : a[i] = s[i]
        /\ b \in Seq(Peer) /\ Len(b) = Len(s) - n
        /\ \A i \in 1..(Len(s) - n) : b[i] = s[n + i]
    OBVIOUS
  <2> HIDE DEF a, b
  <2>4. /\ a \o b \in Seq(Peer) /\ Len(a \o b) = Len(a) + Len(b)
        /\ \A i \in 1..(Len(a) + Len(b)) :
              (a \o b)[i] = IF i <= Len(a) THEN a[i] ELSE b[i - Len(a)]
    BY <2>1, ConcatProperties
  <2>6. Len(a) + Len(b) = Len(s) - 1
    BY <2>1
  <2> DEFINE ab == a \o b
  <2>5. Len(ab) = Len(s) - 1 /\ DOMAIN ab = 1..(Len(s) - 1)
    <3>1. ab \in Seq(Peer) /\ Len(ab) = Len(s) - 1
      BY <2>4, <2>6
    <3> HIDE DEF ab
    <3> QED BY <3>1
  <2>2. /\ a \o b \in Seq(Peer) /\ Len(a \o b) = Len(s) - 1
        /\ DOMAIN (a \o b) = 1..(Len(s) - 1)
        /\ \A i \in 1..(Len(s) - 1) : (a \o b)[i] = IF i < n THEN a[i] ELSE b[i - (n - 1)]
    <3>1. ASSUME NEW i \in 1..(Len(s) - 1)
          PROVE  (a \o b)[i] = IF i < n THEN a[i] ELSE b[i - (n - 1)]
      <4>1. (a \o b)[i] = IF i <= Len(a) THEN a[i] ELSE b[i - Len(a)]
        BY <2>4, <2>6
      <4>2. i <= Len(a) <=> i < n
        BY <2>1
      <4> QED BY <2>1, <4>1, <4>2
    <3> QED BY <2>4, <2>5, <3>1
  <2>3. ASSUME NEW i \in 1..(Len(s) - 1)
        PROVE  (a \o b)[i] = IF i < n THEN s[i] ELSE s[i + 1]
    <3>1. CASE i < n
      <4>1. i \in 1..(n - 1)
        BY <2>1, <3>1
      <4> QED BY <2>1, <2>2, <3>1, <4>1
    <3>2. CASE ~(i < n)
      <4>1. i - (n - 1) \in 1..(Len(s) - n) /\ n + (i - (n - 1)) = i + 1
        BY <2>1, <3>2
      <4> QED BY <2>1, <2>2, <3>2, <4>1
    <3> QED BY <3>1, <3>2
  <2> QED BY <2>1, <2>2, <2>3 DEF RemoveAt, a, b
<1> HIDE DEF r
<1>2. ASSUME NEW i \in 1..(Len(s) - 1), NEW j \in 1..(Len(s) - 1), r[i] = r[j] PROVE i = j
  <2> DEFINE e(k) == IF k < n THEN k ELSE k + 1
  <2>1. /\ e(i) \in 1..Len(s) /\ e(j) \in 1..Len(s)
        /\ r[i] = s[e(i)] /\ r[j] = s[e(j)]
    BY <1>1
  <2>2. e(i) = e(j)
    BY <1>1, <1>2, <2>1 DEF IsInjective
  <2> QED BY <1>1, <2>2
<1>3. ASSUME NEW c \in ToSet(r) PROVE c \in ToSet(s) \ {s[n]}
  <2>1. PICK i \in 1..(Len(s) - 1) : c = r[i]
    BY <1>1 DEF ToSet
  <2> DEFINE k == IF i < n THEN i ELSE i + 1
  <2>2. k \in 1..Len(s) /\ k # n /\ c = s[k]
    BY <1>1, <2>1
  <2> QED BY <1>1, <2>2 DEF ToSet, IsInjective
<1>4. ASSUME NEW c \in ToSet(s) \ {s[n]} PROVE c \in ToSet(r)
  <2>1. PICK i \in 1..Len(s) : s[i] = c /\ i # n
    BY <1>1 DEF ToSet
  <2>2. CASE i < n
    BY <1>1, <2>1, <2>2 DEF ToSet
  <2>3. CASE i > n
    <3>1. i - 1 \in 1..(Len(s) - 1) /\ ~(i - 1 < n) /\ (i - 1) + 1 = i
      BY <1>1, <2>1, <2>3
    <3>2. r[i - 1] = c
      BY <1>1, <2>1, <3>1
    <3> QED BY <1>1, <3>1, <3>2 DEF ToSet
  <2> QED BY <2>1, <2>2, <2>3
<1> QED BY <1>1, <1>2, <1>3, <1>4 DEF r, IsInjective

LEMMA RemoveFirstGives ==
    ASSUME NEW s \in Seq(Peer), IsInjective(s), NEW c
    PROVE  /\ RemoveFirst(s, c) \in Seq(Peer) /\ IsInjective(RemoveFirst(s, c))
           /\ ToSet(RemoveFirst(s, c)) = ToSet(s) \ {c}
<1>1. CASE \E i \in 1..Len(s) : s[i] = c
  <2>1. PICK i \in 1..Len(s) : s[i] = c
    BY <1>1
  <2> DEFINE I == {j \in 1..Len(s) : s[j] = c}
  <2>2. I = {i} /\ i \in Nat
    BY <2>1 DEF IsInjective
  <2>3. Min({i}) = i
    BY <2>2 DEF Min
  <2>4. RemoveFirst(s, c) = RemoveAt(s, i)
    BY <1>1, <2>2, <2>3 DEF RemoveFirst, SelectInSeq
  <2> QED BY <2>1, <2>4, RemoveAtGives
<1>2. CASE ~\E i \in 1..Len(s) : s[i] = c
  BY <1>2 DEF RemoveFirst, ToSet
<1> QED BY <1>1, <1>2

LEMMA OwnedIsMember == conns \in Seq(Peer) => \A c : Owned(c) <=> c \in ToSet(conns)
BY DEF Owned, Contains, ToSet

(* A list of connections is not longer than there are. *)
LEMMA ListBounded ==
    ASSUME NEW s \in Seq(Peer), IsInjective(s)
    PROVE  Len(s) <= Cardinality(Peer) /\ Cardinality(Peer) \in Nat
<1>1. /\ IsFiniteSet(Peer) /\ Cardinality(Peer) \in Nat
      /\ IsFiniteSet(1..Len(s)) /\ Cardinality(1..Len(s)) = Len(s)
      /\ s \in [1..Len(s) -> Peer] /\ Len(s) \in Nat
  <2>1. s \in [1..Len(s) -> Peer] /\ Len(s) \in Nat
    OBVIOUS
  <2>2. IsFiniteSet(Peer) /\ Cardinality(Peer) \in Nat
    BY SlotAssumption, FS_CardinalityType
  <2>3. IsFiniteSet(1..Len(s)) /\ Cardinality(1..Len(s)) = Len(s)
    <3>1. /\ IsFiniteSet(1..Len(s))
          /\ Cardinality(1..Len(s)) = IF 1 > Len(s) THEN 0 ELSE Len(s) - 1 + 1
      BY <2>1, FS_Interval
    <3> QED BY <2>1, <3>1
  <2> QED BY <2>1, <2>2, <2>3
<1>2. Cardinality(1..Len(s)) > Cardinality(Peer) =>
         \E i, j \in 1..Len(s) : i # j /\ s[i] = s[j]
  BY <1>1, FS_PigeonHole
<1> QED BY <1>1, <1>2 DEF IsInjective
-----------------------------------------------------------------------------
(* What holds while the boss goes through the connections of a worker.     *)
ScanState ==
    {acc \in [start : Nat, list : Seq(Peer), found : Seq(Peer), at : Nat, gone : Seq(Peer)] :
        /\ IsInjective(acc.list)
        /\ ToSet(acc.list) \subseteq ToSet(conns)
        /\ ToSet(acc.gone) \subseteq ToSet(conns) \ ToSet(acc.list)
        /\ acc.found # <<>> => \E c \in ToSet(acc.list) \cap inbox : acc.found = <<c>>}

LEMMA PollKeeps ==
    ASSUME NEW acc \in ScanState, NEW i \in Nat
    PROVE  Poll(acc, i) \in ScanState
<1> DEFINE at == (acc.start + i) % Len(acc.list)
           c == acc.list[at + 1]
<1>1. CASE acc.found # <<>> \/ i >= Len(acc.list)
  BY <1>1 DEF Poll
<1>2. CASE ~(acc.found # <<>> \/ i >= Len(acc.list))
  <2>1. /\ acc.start \in Nat /\ acc.list \in Seq(Peer) /\ Len(acc.list) \in Nat \ {0}
        /\ IsInjective(acc.list) /\ acc.gone \in Seq(Peer)
    BY <1>2 DEF ScanState
  <2>2. at \in Nat /\ at + 1 \in 1..Len(acc.list)
    <3> DEFINE l == Len(acc.list)
               x == acc.start + i
    <3>1. l \in Nat \ {0} /\ x \in Nat
      BY <2>1
    <3> HIDE DEF l, x
    <3>2. x % l \in 0..(l - 1)
      BY <3>1
    <3>3. (x % l) + 1 \in 1..l
      BY <3>1, <3>2
    <3> QED BY <3>1, <3>2, <3>3 DEF l, x
  <2>3. c \in Peer /\ c \in ToSet(acc.list)
    BY <2>1, <2>2 DEF ToSet
  <2>4. CASE c \in lost
    <3> DEFINE r == RemoveAt(acc.list, at + 1)
               g == Append(acc.gone, c)
    <3>1. Poll(acc, i) = Scan(acc.start, r, <<>>, at, g)
      BY <1>2, <2>4 DEF Poll
    <3>2. r \in Seq(Peer) /\ IsInjective(r) /\ ToSet(r) = ToSet(acc.list) \ {c}
      BY <2>1, <2>2, RemoveAtGives
    <3>3. g \in Seq(Peer) /\ ToSet(g) = ToSet(acc.gone) \cup {c}
      <4>1. g \in Seq(Peer) /\ Len(g) = Len(acc.gone) + 1 /\ Len(acc.gone) \in Nat
        BY <2>1, <2>3
      <4>2. \A j \in 1..Len(g) : g[j] = IF j <= Len(acc.gone) THEN acc.gone[j] ELSE c
        BY <2>1, <2>3
      <4> HIDE DEF g, c
      <4>3. DOMAIN g = 1..Len(g) /\ DOMAIN acc.gone = 1..Len(acc.gone)
        BY <2>1, <4>1
      <4>4. ToSet(g) \subseteq ToSet(acc.gone) \cup {c}
        BY <4>1, <4>2, <4>3 DEF ToSet
      <4>5. g[Len(g)] = c /\ Len(g) \in DOMAIN g
        BY <4>1, <4>2, <4>3
      <4>6. \A j \in DOMAIN acc.gone : j \in DOMAIN g /\ g[j] = acc.gone[j]
        BY <4>1, <4>2, <4>3
      <4> QED BY <4>1, <4>4, <4>5, <4>6 DEF ToSet
    <3> HIDE DEF r, g, c, at
    <3> QED BY <1>2, <2>1, <2>2, <2>3, <3>1, <3>2, <3>3 DEF ScanState, Scan
  <2>5. CASE c \notin lost /\ c \in inbox
    <3>1. Poll(acc, i) = Scan(acc.start, acc.list, <<c>>, at, acc.gone)
      BY <1>2, <2>5 DEF Poll
    <3> HIDE DEF c, at
    <3> QED BY <2>1, <2>2, <2>3, <2>5, <3>1 DEF ScanState, Scan
  <2>6. CASE c \notin lost /\ c \notin inbox
    BY <1>2, <2>6 DEF Poll
  <2> QED BY <2>4, <2>5, <2>6
<1> QED BY <1>1, <1>2

(* The loop is well defined, and its outcome is such a state.              *)
LEMMA PolledSound ==
    ASSUME conns \in Seq(Peer), IsInjective(conns), NEW start \in Nat
    PROVE  Polled(start) \in ScanState
<1> DEFINE N == Len(conns)
           s0 == Scan(start, conns, <<>>, 0, <<>>)
           IsScan(f) == f = [i \in 0..N |-> IF i = 0 THEN s0 ELSE Poll(f[i - 1], i - 1)]
<1>1. N \in Nat
  OBVIOUS
<1>2. s0 \in ScanState
  BY DEF ScanState, ToSet, Scan
<1> DEFINE step == [i \in Nat \ {0} |-> [acc \in ScanState |-> Poll(acc, i - 1)]]
<1>3. step \in [Nat \ {0} -> [ScanState -> ScanState]]
  BY PollKeeps
<1>4. \A i \in Nat \ {0}, acc \in ScanState : step[i][acc] = Poll(acc, i - 1)
  OBVIOUS
<1> HIDE DEF s0, N, step
<1>5. PICK f \in [0..N -> ScanState] :
         Iterates(f, s0, N, step)
  BY <1>1, <1>2, <1>3, Iteration
<1>6. IsScan(f)
  <2>1. ASSUME NEW i \in 0..N
        PROVE  f[i] = IF i = 0 THEN s0 ELSE Poll(f[i - 1], i - 1)
    <3>1. CASE i = 0
      BY <1>5, <3>1 DEF Iterates
    <3>2. CASE i # 0
      <4>1. i \in Nat \ {0} /\ i \in 1..N /\ f[i - 1] \in ScanState
        BY <1>1, <1>5, <3>2
      <4> QED BY <1>4, <1>5, <3>2, <4>1 DEF Iterates
    <3> QED BY <3>1, <3>2
  <2> QED BY <1>5, <2>1
<1> DEFINE g == CHOOSE h : IsScan(h)
<1>7. IsScan(g)
  BY <1>6
<1>8. Polled(start) = g[N]
  BY DEF Polled, N, s0
<1> HIDE DEF g
<1> DEFINE Bad == {i \in 0..N : g[i] \notin ScanState}
<1>9. Bad = {}
  <2> SUFFICES ASSUME Bad # {} PROVE FALSE
    OBVIOUS
  <2>1. PICK m \in Bad : \A k \in Bad : m <= k
    <3> HIDE DEF Bad
    <3>1. Bad \in SUBSET Nat
      BY <1>1 DEF Bad
    <3> QED BY <3>1, SmallestNumber
  <2>2. m # 0
    BY <1>2, <1>7, <2>1
  <2>3. m - 1 \in 0..N /\ m - 1 \in Nat /\ m - 1 \notin Bad
    BY <1>1, <2>1, <2>2
  <2>4. g[m] = Poll(g[m - 1], m - 1)
    BY <1>7, <2>1, <2>2
  <2> QED BY <2>1, <2>3, <2>4, PollKeeps
<1> QED BY <1>1, <1>8, <1>9
-----------------------------------------------------------------------------
(* The ports. *)
LEMMA HeadAndTail ==
    ASSUME NEW S, NEW s \in Seq(S), s # <<>>
    PROVE  /\ Len(s) \in Nat \ {0} /\ DOMAIN s = 1..Len(s) /\ 1 \in DOMAIN s
           /\ Head(s) = s[1] /\ s[1] \in S
           /\ Tail(s) \in Seq(S) /\ DOMAIN Tail(s) = 1..(Len(s) - 1)
           /\ \A i \in 1..(Len(s) - 1) : Tail(s)[i] = s[i + 1] /\ i + 1 \in DOMAIN s
OBVIOUS

LEMMA Concatenated ==
    ASSUME NEW S, NEW s \in Seq(S), NEW t \in Seq(S)
    PROVE  /\ s \o t \in Seq(S) /\ DOMAIN (s \o t) = 1..(Len(s) + Len(t))
           /\ Len(s) \in Nat /\ DOMAIN s = 1..Len(s)
           /\ Len(t) \in Nat /\ DOMAIN t = 1..Len(t)
           /\ \A i \in 1..Len(s) : (s \o t)[i] = s[i]
           /\ \A i \in 1..Len(t) : Len(s) + i \in DOMAIN (s \o t) /\ (s \o t)[Len(s) + i] = t[i]
           /\ \A i \in DOMAIN (s \o t) : i \notin DOMAIN s =>
                 i - Len(s) \in DOMAIN t /\ (s \o t)[i] = t[i - Len(s)]
<1>1. /\ Len(s) \in Nat /\ DOMAIN s = 1..Len(s) /\ Len(t) \in Nat /\ DOMAIN t = 1..Len(t)
  OBVIOUS
<1> DEFINE r == s \o t
<1>2. /\ r \in Seq(S) /\ Len(r) = Len(s) + Len(t)
      /\ \A i \in 1..(Len(s) + Len(t)) : r[i] = IF i <= Len(s) THEN s[i] ELSE t[i - Len(s)]
  BY ConcatProperties
<1> HIDE DEF r
<1>3. DOMAIN r = 1..(Len(s) + Len(t))
  BY <1>2
<1>4. \A i \in 1..Len(s) : r[i] = s[i]
  BY <1>1, <1>2
<1>5. ASSUME NEW i \in 1..Len(t)
      PROVE  Len(s) + i \in DOMAIN r /\ r[Len(s) + i] = t[i]
  <2>1. Len(s) + i \in 1..(Len(s) + Len(t)) /\ ~(Len(s) + i <= Len(s)) /\ (Len(s) + i) - Len(s) = i
    BY <1>1
  <2> QED BY <1>2, <1>3, <2>1
<1>6. ASSUME NEW i \in DOMAIN r, i \notin DOMAIN s
      PROVE  i - Len(s) \in DOMAIN t /\ r[i] = t[i - Len(s)]
  BY <1>1, <1>2, <1>3, <1>6
<1> QED BY <1>1, <1>2, <1>3, <1>4, <1>5, <1>6 DEF r

LEMMA Appended ==
    ASSUME NEW S, NEW s \in Seq(S), NEW e \in S
    PROVE  /\ Append(s, e) \in Seq(S) /\ Len(s) \in Nat
           /\ DOMAIN s = 1..Len(s) /\ DOMAIN Append(s, e) = 1..(Len(s) + 1)
           /\ \A i \in 1..Len(s) : Append(s, e)[i] = s[i]
           /\ Append(s, e)[Len(s) + 1] = e
OBVIOUS
-----------------------------------------------------------------------------
(* Connections not accepted, served by the worker and removed are apart,   *)
(* and no removal stands before a message of its connection.               *)
ToRemove(c) == \E n \in DOMAIN cmds : cmds[n] = <<"remove", c>>

Apart ==
    /\ fresh \cap ToSet(conns) = {}
    /\ \A c \in Peer : c \in removed \/ ToRemove(c) => c \notin fresh \cup ToSet(conns)

EventsTrue ==
    \A n \in DOMAIN events :
        /\ events[n][1] = "removed" => events[n][2] \in removed
        /\ events[n][1] = "send" => events[n][2] \in Slow

NoneLate ==
    \A n \in DOMAIN cmds : cmds[n][1] = "process" =>
        /\ cmds[n][2] \notin removed
        /\ \A m \in DOMAIN cmds : m < n => cmds[m] # <<"remove", cmds[n][2]>>

SlotInv ==
    /\ SlotTypeOK /\ inbox \subseteq Talking
    /\ Apart /\ EventsTrue /\ NoneLate /\ NoRevival

LEMMA SlotInvInit == SlotInit => SlotInv
<1> SUFFICES ASSUME SlotInit PROVE SlotInv
  OBVIOUS
<1>1. PICK c \in Peer : /\ fresh = Peer \ {c}
                        /\ conns = <<c>>
                        /\ events = <<<<"ready", c>>>>
  BY DEF SlotInit
<1>2. /\ conns \in Seq(Peer) /\ IsInjective(conns) /\ ToSet(conns) = {c}
  BY <1>1 DEF IsInjective, ToSet
<1>3. Cardinality(Peer) \in Nat /\ 1 <= Cardinality(Peer)
  BY <1>1, <1>2, ListBounded
<1>4. /\ events \in Seq(Event) /\ DOMAIN events = {1} /\ events[1] = <<"ready", c>>
  BY <1>1 DEF Event
<1>5. SlotTypeOK
  <2>1. fresh \subseteq Peer /\ running \in [Peer -> Nat]
    BY <1>1 DEF SlotInit
  <2>2. cursor \in 0..(Cardinality(Peer) - 1) /\ failed \in 0..MaxFail
    BY <1>3, SlotAssumption DEF SlotInit
  <2>3. busy \in BOOLEAN /\ revived \in BOOLEAN
    BY Zenon DEF SlotInit
  <2>4. inbox \subseteq Peer /\ lost \subseteq Peer /\ removed \subseteq Peer
    BY Zenon DEF SlotInit
  <2>5. cmds \in Seq(Command)
    BY EmptySeq DEF SlotInit
  <2> QED BY <1>2, <1>4, <2>1, <2>2, <2>3, <2>4, <2>5 DEF SlotTypeOK
<1>6. Apart /\ NoneLate /\ NoRevival /\ inbox \subseteq Talking
  BY <1>1, <1>2 DEF SlotInit, Apart, NoneLate, ToRemove, NoRevival
<1>7. EventsTrue
  BY <1>4 DEF EventsTrue
<1> QED BY <1>5, <1>6, <1>7 DEF SlotInv

LEMMA AcceptKeeps ==
    ASSUME SlotInv, NEW c \in Peer, Accept(c) PROVE SlotInv'
<1> USE DEF SlotInv
<1>1. /\ conns \in Seq(Peer) /\ IsInjective(conns) /\ c \in fresh /\ c \notin ToSet(conns)
  BY DEF SlotTypeOK, Accept, Apart
<1>2. conns' \in Seq(Peer) /\ ToSet(conns') = ToSet(conns) \cup {c} /\ IsInjective(conns')
  <2>1. /\ conns' \in Seq(Peer) /\ Len(conns) \in Nat
        /\ DOMAIN conns = 1..Len(conns) /\ DOMAIN conns' = 1..(Len(conns) + 1)
        /\ \A i \in 1..Len(conns) : conns'[i] = conns[i]
        /\ conns'[Len(conns) + 1] = c
    BY <1>1, Appended DEF Accept
  <2>2. ToSet(conns') = ToSet(conns) \cup {c}
    <3>1. ToSet(conns') \subseteq ToSet(conns) \cup {c}
      BY <2>1 DEF ToSet
    <3>2. c \in ToSet(conns')
      BY <2>1 DEF ToSet
    <3>3. \A i \in DOMAIN conns : i \in DOMAIN conns' /\ conns'[i] = conns[i]
      BY <2>1
    <3> QED BY <3>1, <3>2, <3>3 DEF ToSet
  <2>3. \A i \in DOMAIN conns : conns[i] # c
    BY <1>1 DEF ToSet
  <2>4. IsInjective(conns')
    BY <1>1, <2>1, <2>3 DEF IsInjective
  <2> QED BY <2>1, <2>2, <2>4
<1>3. SlotTypeOK'
  BY <1>2 DEF SlotTypeOK, Accept
<1>4. Apart'
  BY <1>1, <1>2 DEF Apart, Accept, ToRemove
<1>5. (EventsTrue /\ NoneLate /\ NoRevival /\ inbox \subseteq Talking)'
  BY DEF Accept, EventsTrue, NoneLate, NoRevival
<1> QED BY <1>3, <1>4, <1>5

LEMMA ArriveKeeps ==
    ASSUME SlotInv, NEW c \in Peer, Arrive(c) PROVE SlotInv'
<1>1. SlotTypeOK' /\ (inbox \subseteq Talking)'
  BY DEF SlotInv, SlotTypeOK, Arrive
<1>2. Apart' /\ EventsTrue' /\ NoneLate' /\ NoRevival'
  BY DEF SlotInv, Apart, EventsTrue, NoneLate, NoRevival, Arrive, ToRemove
<1> QED BY <1>1, <1>2 DEF SlotInv

LEMMA LoseKeeps ==
    ASSUME SlotInv, NEW c \in Peer, Lose(c) PROVE SlotInv'
<1>1. SlotTypeOK' /\ (inbox \subseteq Talking)'
  BY DEF SlotInv, SlotTypeOK, Lose
<1>2. Apart' /\ EventsTrue' /\ NoneLate' /\ NoRevival'
  BY DEF SlotInv, Apart, EventsTrue, NoneLate, NoRevival, Lose, ToRemove
<1> QED BY <1>1, <1>2 DEF SlotInv

(* _detachConnection *)
LEMMA DetachKeeps ==
    ASSUME SlotInv, NEW c \in Peer, Detach(c), fresh' = fresh, removed' = removed
    PROVE  /\ conns' \in Seq(Peer) /\ IsInjective(conns')
           /\ ToSet(conns') = ToSet(conns) \ {c}
           /\ cmds' \in Seq(Command) /\ Apart' /\ NoneLate'
           /\ \A n \in DOMAIN cmds : n \in DOMAIN cmds' /\ cmds'[n] = cmds[n]
<1>1. conns \in Seq(Peer) /\ IsInjective(conns) /\ cmds \in Seq(Command)
  BY DEF SlotInv, SlotTypeOK
<1>2. /\ conns' \in Seq(Peer) /\ IsInjective(conns')
      /\ ToSet(conns') = ToSet(conns) \ {c}
  BY <1>1, RemoveFirstGives DEF Detach
<1>3. CASE ~Owned(c)
  BY <1>1, <1>2, <1>3 DEF Detach, SlotInv, Apart, NoneLate, ToRemove
<1>4. CASE Owned(c)
  <2>1. c \in ToSet(conns) /\ c \notin fresh
    BY <1>1, <1>4, OwnedIsMember DEF SlotInv, Apart
  <2>2. /\ cmds' \in Seq(Command) /\ Len(cmds) \in Nat
        /\ DOMAIN cmds = 1..Len(cmds) /\ DOMAIN cmds' = 1..(Len(cmds) + 1)
        /\ \A i \in 1..Len(cmds) : cmds'[i] = cmds[i]
        /\ cmds'[Len(cmds) + 1] = <<"remove", c>>
    <3>1. <<"remove", c>> \in Command
      BY DEF Command
    <3> QED BY <1>1, <1>4, <3>1, Appended DEF Detach
  <2>3. Apart'
    <3>1. \A d \in Peer : ToRemove(d)' => ToRemove(d) \/ d = c
      BY <2>2 DEF ToRemove
    <3> QED BY <1>2, <2>1, <3>1 DEF SlotInv, Apart
  <2>4. NoneLate'
    <3> SUFFICES ASSUME NEW n \in DOMAIN cmds', cmds'[n][1] = "process"
                 PROVE  /\ cmds'[n][2] \notin removed
                        /\ \A m \in DOMAIN cmds' : m < n => cmds'[m] # <<"remove", cmds'[n][2]>>
      BY DEF NoneLate
    <3>1. n \in DOMAIN cmds /\ cmds'[n] = cmds[n]
      BY <2>2
    <3>2. \A m \in DOMAIN cmds' : m < n => m \in DOMAIN cmds /\ cmds'[m] = cmds[m]
      BY <2>2, <3>1
    <3> QED BY <3>1, <3>2 DEF SlotInv, NoneLate
  <2> QED BY <1>2, <2>2, <2>3, <2>4
<1> QED BY <1>3, <1>4

LEMMA ExpireIdleKeeps ==
    ASSUME SlotInv, NEW c \in Peer, ExpireIdle(c) PROVE SlotInv'
<1>1. /\ conns' \in Seq(Peer) /\ IsInjective(conns') /\ cmds' \in Seq(Command)
      /\ Apart' /\ NoneLate'
  BY DetachKeeps DEF ExpireIdle
<1>2. SlotTypeOK' /\ (inbox \subseteq Talking)'
  BY <1>1 DEF SlotInv, SlotTypeOK, ExpireIdle
<1>3. EventsTrue' /\ NoRevival'
  BY DEF SlotInv, EventsTrue, NoRevival, ExpireIdle
<1> QED BY <1>1, <1>2, <1>3 DEF SlotInv

LEMMA CursorInList ==
    ASSUME NEW poll \in ScanState
    PROVE  NextCursor(poll) \in 0..(Cardinality(Peer) - 1)
<1>1. /\ poll.start \in Nat /\ poll.at \in Nat /\ poll.list \in Seq(Peer)
      /\ IsInjective(poll.list)
  BY DEF ScanState
<1> DEFINE l == Len(poll.list)
           x == IF poll.found # <<>> THEN poll.at + 1 ELSE poll.start + 1
<1>2. l \in Nat /\ l <= Cardinality(Peer) /\ Cardinality(Peer) \in Nat /\ x \in Nat
  BY <1>1, ListBounded
<1>3. CASE poll.list = <<>>
  <2>1. PICK c \in Peer : TRUE
    BY SlotAssumption
  <2>2. <<c>> \in Seq(Peer) /\ IsInjective(<<c>>) /\ Len(<<c>>) = 1
    BY DEF IsInjective
  <2>3. 1 <= Cardinality(Peer)
    BY <2>2, ListBounded
  <2> QED BY <1>2, <1>3, <2>3 DEF NextCursor
<1>4. CASE poll.list # <<>>
  <2>1. l # 0
    BY <1>1, <1>4
  <2>2. NextCursor(poll) = x % l
    BY <1>4 DEF NextCursor
  <2> HIDE DEF l, x
  <2>3. x % l \in 0..(l - 1)
    BY <1>2, <2>1
  <2> QED BY <1>2, <2>2, <2>3
<1> QED BY <1>3, <1>4

(* _dispatchMessages: what it found and what was gone. *)
LEMMA DispatchGives ==
    ASSUME SlotInv, Dispatch
    PROVE  \E poll \in ScanState :
              /\ conns' = poll.list /\ cursor' = NextCursor(poll)
              /\ busy' = (poll.found # <<>>) /\ inbox' = inbox \ ToSet(poll.found)
              /\ cmds' = cmds \o [i \in DOMAIN poll.gone |-> <<"remove", poll.gone[i]>>]
                              \o [i \in DOMAIN poll.found |-> <<"process", poll.found[i]>>]
<1>1. conns \in Seq(Peer) /\ IsInjective(conns) /\ conns # <<>> /\ cursor \in Nat
  <2>1. cursor \in 0..(Cardinality(Peer) - 1) /\ Cardinality(Peer) \in Nat
    BY SlotAssumption, FS_CardinalityType DEF SlotInv, SlotTypeOK
  <2> QED BY <2>1 DEF SlotInv, SlotTypeOK, Dispatch
<1> DEFINE start == cursor % Len(conns)
<1>2. start \in Nat
  <2> DEFINE l == Len(conns)
  <2>1. l \in Nat \ {0}
    BY <1>1
  <2> HIDE DEF l
  <2>2. cursor % l \in Nat
    BY <1>1, <2>1
  <2> QED BY <2>2 DEF l
<1>3. Polled(start) \in ScanState
  <2> HIDE DEF start
  <2> QED BY <1>1, <1>2, PolledSound
<1> QED BY <1>3 DEF Dispatch

LEMMA DispatchKeeps ==
    ASSUME SlotInv, Dispatch PROVE SlotInv'
<1>1. PICK poll \in ScanState :
              /\ conns' = poll.list /\ cursor' = NextCursor(poll)
              /\ busy' = (poll.found # <<>>) /\ inbox' = inbox \ ToSet(poll.found)
              /\ cmds' = cmds \o [i \in DOMAIN poll.gone |-> <<"remove", poll.gone[i]>>]
                              \o [i \in DOMAIN poll.found |-> <<"process", poll.found[i]>>]
  BY DispatchGives
<1> DEFINE g == [i \in DOMAIN poll.gone |-> <<"remove", poll.gone[i]>>]
           f == [i \in DOMAIN poll.found |-> <<"process", poll.found[i]>>]
<1>2. /\ poll.list \in Seq(Peer) /\ IsInjective(poll.list)
      /\ poll.gone \in Seq(Peer) /\ poll.found \in Seq(Peer)
      /\ ToSet(poll.list) \subseteq ToSet(conns)
      /\ ToSet(poll.gone) \subseteq ToSet(conns) \ ToSet(poll.list)
      /\ poll.found # <<>> => \E c \in ToSet(poll.list) \cap inbox : poll.found = <<c>>
  BY DEF ScanState
<1>3. /\ g \in Seq(Command) /\ f \in Seq(Command)
      /\ \A i \in DOMAIN g : g[i][1] = "remove" /\ g[i][2] \in ToSet(poll.gone)
                             /\ g[i] = <<"remove", g[i][2]>>
      /\ \A i \in DOMAIN f : /\ f[i][1] = "process" /\ f[i][2] \in ToSet(poll.list)
                             /\ f[i] = <<"process", f[i][2]>> /\ i = 1
  <2>1. g \in Seq(Command)
    <3>1. DOMAIN poll.gone = 1..Len(poll.gone) /\ Len(poll.gone) \in Nat
      BY <1>2
    <3>2. ASSUME NEW i \in DOMAIN poll.gone PROVE <<"remove", poll.gone[i]>> \in Command
      <4>1. poll.gone[i] \in Peer
        BY <1>2
      <4> QED BY <4>1 DEF Command
    <3> QED BY <3>1, <3>2
  <2>2. \A i \in DOMAIN g : g[i][1] = "remove" /\ g[i][2] \in ToSet(poll.gone)
                             /\ g[i] = <<"remove", g[i][2]>>
    BY <1>2 DEF ToSet
  <2>3. f \in Seq(Command)
    <3>1. DOMAIN poll.found = 1..Len(poll.found) /\ Len(poll.found) \in Nat
      BY <1>2
    <3>2. ASSUME NEW i \in DOMAIN poll.found PROVE <<"process", poll.found[i]>> \in Command
      <4>1. poll.found[i] \in Peer
        BY <1>2
      <4> QED BY <4>1 DEF Command
    <3> QED BY <3>1, <3>2
  <2>4. ASSUME NEW i \in DOMAIN f
        PROVE  /\ f[i][1] = "process" /\ f[i][2] \in ToSet(poll.list)
               /\ f[i] = <<"process", f[i][2]>> /\ i = 1
    <3>1. i \in DOMAIN poll.found /\ f[i] = <<"process", poll.found[i]>>
      BY <2>4
    <3>2. poll.found # <<>>
      BY <1>2, <3>1
    <3>3. PICK c \in ToSet(poll.list) : poll.found = <<c>>
      BY <1>2, <3>2
    <3>4. i = 1 /\ poll.found[i] = c
      BY <3>1, <3>3
    <3> QED BY <3>1, <3>3, <3>4
  <2> QED BY <2>1, <2>2, <2>3, <2>4
<1> HIDE DEF f, g
<1>4. cmds \in Seq(Command) /\ ToSet(conns) \subseteq Peer
  BY DEF SlotInv, SlotTypeOK, ToSet
<1> DEFINE b == cmds \o g
<1>5. /\ b \in Seq(Command) /\ Len(cmds) \in Nat /\ Len(g) \in Nat
      /\ DOMAIN b = 1..(Len(cmds) + Len(g)) /\ DOMAIN cmds = 1..Len(cmds)
      /\ \A i \in DOMAIN cmds : b[i] = cmds[i]
      /\ \A i \in DOMAIN b : i \notin DOMAIN cmds =>
            i - Len(cmds) \in DOMAIN g /\ b[i] = g[i - Len(cmds)]
  BY <1>3, <1>4, Concatenated
<1>6. cmds' = b \o f
  BY <1>1 DEF f, g
<1> HIDE DEF b
<1>7. /\ cmds' \in Seq(Command) /\ Len(b) \in Nat /\ DOMAIN b = 1..Len(b)
      /\ DOMAIN cmds' = 1..(Len(b) + Len(f)) /\ Len(f) \in Nat
      /\ \A i \in DOMAIN b : cmds'[i] = b[i]
      /\ \A i \in DOMAIN cmds' : i \notin DOMAIN b =>
            i - Len(b) \in DOMAIN f /\ cmds'[i] = f[i - Len(b)]
  BY <1>3, <1>5, <1>6, Concatenated
<1>8. ASSUME NEW i \in DOMAIN cmds'
      PROVE  \/ i \in DOMAIN cmds /\ cmds'[i] = cmds[i]
             \/ /\ i \in DOMAIN b /\ i \notin DOMAIN cmds
                /\ cmds'[i][1] = "remove" /\ cmds'[i][2] \in ToSet(poll.gone)
                /\ cmds'[i] = <<"remove", cmds'[i][2]>>
             \/ /\ i \notin DOMAIN b /\ i = Len(b) + 1
                /\ cmds'[i][1] = "process" /\ cmds'[i][2] \in ToSet(poll.list)
  <2>1. CASE i \in DOMAIN cmds
    <3>1. i \in DOMAIN b
      BY <1>5, <2>1
    <3> QED BY <1>5, <1>7, <2>1, <3>1
  <2>2. CASE i \notin DOMAIN cmds /\ i \in DOMAIN b
    BY <1>3, <1>5, <1>7, <2>2
  <2>3. CASE i \notin DOMAIN b
    <3>1. i - Len(b) \in DOMAIN f /\ cmds'[i] = f[i - Len(b)]
      BY <1>7, <2>3
    <3>2. i - Len(b) = 1
      BY <1>3, <3>1
    <3>3. i \in Nat
      BY <1>7
    <3>4. i = Len(b) + 1
      BY <1>7, <3>2, <3>3
    <3>5. cmds'[i][1] = "process" /\ cmds'[i][2] \in ToSet(poll.list)
      BY <1>3, <3>1
    <3> QED BY <2>3, <3>4, <3>5
  <2> QED BY <2>1, <2>2, <2>3
<1>9. SlotTypeOK' /\ (inbox \subseteq Talking)'
  <2>1. cursor' \in 0..(Cardinality(Peer) - 1)
    BY <1>1, CursorInList
  <2>2. busy' \in BOOLEAN
    BY <1>1
  <2> QED BY <1>1, <1>2, <1>7, <2>1, <2>2 DEF SlotInv, SlotTypeOK, Dispatch
<1>10. \A c : ToRemove(c)' => ToRemove(c) \/ c \in ToSet(poll.gone)
  <2> SUFFICES ASSUME NEW c, NEW n \in DOMAIN cmds', cmds'[n] = <<"remove", c>>
               PROVE  ToRemove(c) \/ c \in ToSet(poll.gone)
    BY DEF ToRemove
  <2>1. cmds'[n][1] = "remove" /\ cmds'[n][2] = c
    OBVIOUS
  <2> QED BY <1>8, <2>1 DEF ToRemove
<1>11. Apart'
  BY <1>1, <1>2, <1>4, <1>10 DEF SlotInv, Apart, Dispatch
<1>12. NoneLate'
  <2> SUFFICES ASSUME NEW n \in DOMAIN cmds', cmds'[n][1] = "process"
               PROVE  /\ cmds'[n][2] \notin removed
                      /\ \A m \in DOMAIN cmds' : m < n => cmds'[m] # <<"remove", cmds'[n][2]>>
    BY DEF NoneLate, Dispatch
  <2>1. CASE n \in DOMAIN cmds /\ cmds'[n] = cmds[n]
    <3>1. \A m \in DOMAIN cmds' : m < n => m \in DOMAIN cmds /\ m \in DOMAIN b
      BY <1>5, <1>7, <2>1
    <3>2. \A m \in DOMAIN cmds' : m < n => cmds'[m] = cmds[m]
      BY <1>5, <1>7, <3>1
    <3> QED BY <2>1, <3>1, <3>2 DEF SlotInv, NoneLate
  <2>2. CASE cmds'[n][2] \in ToSet(poll.list) /\ n = Len(b) + 1
    <3>0. PICK d : d = cmds'[n][2]
      OBVIOUS
    <3>1. d \in ToSet(conns) /\ d \in Peer /\ d \notin ToSet(poll.gone)
      BY <1>2, <1>4, <2>2, <3>0
    <3>2. d \notin removed /\ ~ToRemove(d)
      BY <3>1 DEF SlotInv, Apart
    <3>3. ~ToRemove(d)'
      BY <1>10, <3>1, <3>2
    <3> QED BY <3>0, <3>2, <3>3 DEF ToRemove
  <2> QED BY <1>8, <2>1, <2>2
<1>13. EventsTrue' /\ NoRevival'
  BY DEF SlotInv, EventsTrue, NoRevival, Dispatch
<1> QED BY <1>9, <1>11, <1>12, <1>13 DEF SlotInv

(* The worker's end of the command port: the commands that are left. *)
LEMMA CommandTaken ==
    ASSUME SlotInv, cmds # <<>>, cmds' = Tail(cmds)
    PROVE  /\ cmds' \in Seq(Command) /\ Head(cmds) = cmds[1] /\ 1 \in DOMAIN cmds
           /\ \E c \in Peer : Head(cmds)[2] = c /\ Head(cmds) = <<Head(cmds)[1], c>>
           /\ \A n \in DOMAIN cmds' : n \in Nat /\ n + 1 \in DOMAIN cmds /\ cmds'[n] = cmds[n + 1]
           /\ \A c : ToRemove(c)' => ToRemove(c)
           /\ \A n \in DOMAIN cmds : n # 1 => n - 1 \in DOMAIN cmds' /\ cmds'[n - 1] = cmds[n]
<1>1. cmds \in Seq(Command)
  BY DEF SlotInv, SlotTypeOK
<1>2. /\ Len(cmds) \in Nat \ {0} /\ DOMAIN cmds = 1..Len(cmds) /\ 1 \in DOMAIN cmds
      /\ Head(cmds) = cmds[1] /\ cmds[1] \in Command
      /\ cmds' \in Seq(Command) /\ DOMAIN cmds' = 1..(Len(cmds) - 1)
      /\ \A i \in 1..(Len(cmds) - 1) : cmds'[i] = cmds[i + 1] /\ i + 1 \in DOMAIN cmds
  BY <1>1, HeadAndTail
<1>3. \A n \in DOMAIN cmds' : n \in Nat /\ n + 1 \in DOMAIN cmds /\ cmds'[n] = cmds[n + 1]
  BY <1>2
<1>4. \A c : ToRemove(c)' => ToRemove(c)
  BY <1>3 DEF ToRemove
<1>5. \E c \in Peer : Head(cmds)[2] = c /\ Head(cmds) = <<Head(cmds)[1], c>>
  BY <1>2 DEF Command
<1>6. ASSUME NEW n \in DOMAIN cmds, n # 1
      PROVE  n - 1 \in DOMAIN cmds' /\ cmds'[n - 1] = cmds[n]
  <2>1. n - 1 \in 1..(Len(cmds) - 1) /\ (n - 1) + 1 = n
    BY <1>2, <1>6
  <2> QED BY <1>2, <2>1
<1> QED BY <1>2, <1>3, <1>4, <1>5, <1>6

LEMMA WorkerProcessKeeps ==
    ASSUME SlotInv, WorkerProcess PROVE SlotInv'
<1>1. cmds # <<>> /\ cmds' = Tail(cmds) /\ Head(cmds)[1] = "process"
  BY DEF WorkerProcess
<1>2. PICK c \in Peer : Head(cmds)[2] = c /\ Head(cmds) = <<Head(cmds)[1], c>>
  BY <1>1, CommandTaken
<1>3. /\ cmds' \in Seq(Command) /\ Head(cmds) = cmds[1] /\ 1 \in DOMAIN cmds
      /\ \A n \in DOMAIN cmds' : n \in Nat /\ n + 1 \in DOMAIN cmds /\ cmds'[n] = cmds[n + 1]
      /\ \A d : ToRemove(d)' => ToRemove(d)
  BY <1>1, CommandTaken
<1>4. c \notin removed
  BY <1>1, <1>2, <1>3 DEF SlotInv, NoneLate
<1>5. NoRevival' /\ revived' \in BOOLEAN
  BY <1>2, <1>4 DEF SlotInv, SlotTypeOK, NoRevival, WorkerProcess
<1>6. running' \in [Peer -> Nat]
  BY <1>2 DEF SlotInv, SlotTypeOK, WorkerProcess
<1>7. SlotTypeOK' /\ (inbox \subseteq Talking)'
  BY <1>3, <1>5, <1>6 DEF SlotInv, SlotTypeOK, WorkerProcess
<1>8. Apart'
  BY <1>3 DEF SlotInv, Apart, WorkerProcess
<1>9. NoneLate'
  <2> SUFFICES ASSUME NEW n \in DOMAIN cmds', cmds'[n][1] = "process"
               PROVE  /\ cmds'[n][2] \notin removed
                      /\ \A m \in DOMAIN cmds' : m < n => cmds'[m] # <<"remove", cmds'[n][2]>>
    BY DEF NoneLate, WorkerProcess
  <2>1. \A m \in DOMAIN cmds' : m < n => m + 1 < n + 1
    BY <1>3
  <2> QED BY <1>3, <2>1 DEF SlotInv, NoneLate
<1>10. EventsTrue'
  BY DEF SlotInv, EventsTrue, WorkerProcess
<1> QED BY <1>5, <1>7, <1>8, <1>9, <1>10 DEF SlotInv

LEMMA WorkerRemoveKeeps ==
    ASSUME SlotInv, WorkerRemove PROVE SlotInv'
<1>1. cmds # <<>> /\ cmds' = Tail(cmds) /\ Head(cmds)[1] = "remove"
  BY DEF WorkerRemove
<1>2. PICK c \in Peer : Head(cmds)[2] = c /\ Head(cmds) = <<Head(cmds)[1], c>>
  BY <1>1, CommandTaken
<1>3. /\ cmds' \in Seq(Command) /\ Head(cmds) = cmds[1] /\ 1 \in DOMAIN cmds
      /\ \A n \in DOMAIN cmds' : n \in Nat /\ n + 1 \in DOMAIN cmds /\ cmds'[n] = cmds[n + 1]
      /\ \A d : ToRemove(d)' => ToRemove(d)
  BY <1>1, CommandTaken
<1>4. removed' = removed \cup {c} /\ ToRemove(c) /\ cmds[1] = <<"remove", c>>
  BY <1>1, <1>2, <1>3 DEF ToRemove, WorkerRemove
<1>5. /\ events' \in Seq(Event) /\ Len(events) \in Nat
      /\ DOMAIN events = 1..Len(events) /\ DOMAIN events' = 1..(Len(events) + 1)
      /\ \A i \in 1..Len(events) : events'[i] = events[i]
      /\ events'[Len(events) + 1] = <<"removed", c>>
  <2>1. <<"removed", c>> \in Event /\ events \in Seq(Event)
    BY DEF Event, SlotInv, SlotTypeOK
  <2>2. events' = Append(events, <<"removed", c>>)
    BY <1>2 DEF WorkerRemove
  <2> QED BY <2>1, <2>2, Appended
<1>6. EventsTrue'
  <2> SUFFICES ASSUME NEW n \in DOMAIN events'
               PROVE  /\ events'[n][1] = "removed" => events'[n][2] \in removed'
                      /\ events'[n][1] = "send" => events'[n][2] \in Slow
    BY DEF EventsTrue
  <2>1. CASE n \in DOMAIN events
    BY <1>4, <1>5, <2>1 DEF SlotInv, EventsTrue
  <2>2. CASE n = Len(events) + 1
    BY <1>4, <1>5, <2>2
  <2> QED BY <1>5, <2>1, <2>2
<1>7. SlotTypeOK' /\ (inbox \subseteq Talking)'
  BY <1>3, <1>4, <1>5 DEF SlotInv, SlotTypeOK, WorkerRemove
<1>8. Apart'
  BY <1>3, <1>4 DEF SlotInv, Apart, WorkerRemove
<1>9. NoneLate'
  <2> SUFFICES ASSUME NEW n \in DOMAIN cmds', cmds'[n][1] = "process"
               PROVE  /\ cmds'[n][2] \notin removed'
                      /\ \A m \in DOMAIN cmds' : m < n => cmds'[m] # <<"remove", cmds'[n][2]>>
    BY DEF NoneLate
  <2>1. \A m \in DOMAIN cmds' : m < n => m + 1 < n + 1
    BY <1>3
  <2>2. 1 < n + 1 /\ n + 1 \in DOMAIN cmds /\ cmds'[n] = cmds[n + 1]
    <3>1. n \in Nat /\ n # 0
      <4>1. cmds' \in Seq(Command)
        BY <1>3
      <4> QED BY <4>1
    <3> QED BY <1>3, <3>1
  <2>3. cmds'[n][2] \notin removed /\ cmds[1] # <<"remove", cmds'[n][2]>>
    BY <1>3, <2>2 DEF SlotInv, NoneLate
  <2>4. cmds'[n][2] # c
    BY <1>4, <2>3
  <2> QED BY <1>3, <1>4, <2>1, <2>3, <2>4 DEF SlotInv, NoneLate
<1>10. NoRevival'
  BY DEF SlotInv, NoRevival, WorkerRemove
<1> QED BY <1>6, <1>7, <1>8, <1>9, <1>10 DEF SlotInv

(* The members of a port that grows or is read. *)
LEMMA MembersConcat ==
    ASSUME NEW S, NEW s \in Seq(S), NEW t \in Seq(S)
    PROVE  s \o t \in Seq(S) /\ ToSet(s \o t) = ToSet(s) \cup ToSet(t)
<1> DEFINE r == s \o t
<1>1. /\ r \in Seq(S) /\ DOMAIN r = 1..(Len(s) + Len(t))
      /\ Len(s) \in Nat /\ DOMAIN s = 1..Len(s)
      /\ Len(t) \in Nat /\ DOMAIN t = 1..Len(t)
      /\ \A i \in 1..Len(s) : r[i] = s[i]
      /\ \A i \in 1..Len(t) : Len(s) + i \in DOMAIN r /\ r[Len(s) + i] = t[i]
      /\ \A i \in DOMAIN r : i \notin DOMAIN s => i - Len(s) \in DOMAIN t /\ r[i] = t[i - Len(s)]
  BY Concatenated
<1> HIDE DEF r
<1>2. ToSet(r) \subseteq ToSet(s) \cup ToSet(t)
  BY <1>1 DEF ToSet
<1>3. \A i \in DOMAIN s : i \in DOMAIN r /\ r[i] = s[i]
  BY <1>1
<1>4. ToSet(s) \subseteq ToSet(r)
  BY <1>3 DEF ToSet
<1>5. ToSet(t) \subseteq ToSet(r)
  BY <1>1 DEF ToSet
<1> QED BY <1>1, <1>2, <1>4, <1>5 DEF r

LEMMA MembersAppend ==
    ASSUME NEW S, NEW s \in Seq(S), NEW e \in S
    PROVE  Append(s, e) \in Seq(S) /\ ToSet(Append(s, e)) = ToSet(s) \cup {e}
<1> DEFINE r == Append(s, e)
<1>1. /\ r \in Seq(S) /\ Len(s) \in Nat
      /\ DOMAIN s = 1..Len(s) /\ DOMAIN r = 1..(Len(s) + 1)
      /\ \A i \in 1..Len(s) : r[i] = s[i]
      /\ r[Len(s) + 1] = e
  BY Appended
<1> HIDE DEF r
<1>2. ToSet(r) \subseteq ToSet(s) \cup {e}
  BY <1>1 DEF ToSet
<1>3. \A i \in DOMAIN s : i \in DOMAIN r /\ r[i] = s[i]
  BY <1>1
<1>4. ToSet(s) \subseteq ToSet(r)
  BY <1>3 DEF ToSet
<1>5. e \in ToSet(r)
  BY <1>1 DEF ToSet
<1> QED BY <1>1, <1>2, <1>4, <1>5 DEF r

LEMMA MembersTail ==
    ASSUME NEW S, NEW s \in Seq(S), s # <<>>
    PROVE  /\ Tail(s) \in Seq(S) /\ Head(s) \in S /\ Head(s) \in ToSet(s)
           /\ ToSet(Tail(s)) \subseteq ToSet(s)
           /\ ToSet(s) \subseteq ToSet(Tail(s)) \cup {Head(s)}
<1> DEFINE r == Tail(s)
<1>1. /\ Len(s) \in Nat \ {0} /\ DOMAIN s = 1..Len(s) /\ 1 \in DOMAIN s
      /\ Head(s) = s[1] /\ s[1] \in S
      /\ r \in Seq(S) /\ DOMAIN r = 1..(Len(s) - 1)
      /\ \A i \in 1..(Len(s) - 1) : r[i] = s[i + 1] /\ i + 1 \in DOMAIN s
  BY HeadAndTail
<1> HIDE DEF r
<1>2. ToSet(r) \subseteq ToSet(s)
  BY <1>1 DEF ToSet
<1>3. ASSUME NEW i \in DOMAIN s, i # 1 PROVE s[i] \in ToSet(r)
  <2>1. i - 1 \in 1..(Len(s) - 1) /\ (i - 1) + 1 = i
    BY <1>1, <1>3
  <2>2. r[i - 1] = s[i]
    BY <1>1, <2>1
  <2> QED BY <1>1, <2>1, <2>2 DEF ToSet
<1>4. ToSet(s) \subseteq ToSet(r) \cup {s[1]}
  BY <1>3 DEF ToSet
<1>5. s[1] \in ToSet(s)
  BY <1>1 DEF ToSet
<1> QED BY <1>1, <1>2, <1>4, <1>5 DEF r

LEMMA EventsTrueOf ==
    EventsTrue <=> \A e \in ToSet(events) : /\ e[1] = "removed" => e[2] \in removed
                                            /\ e[1] = "send" => e[2] \in Slow
BY DEF EventsTrue, ToSet

(* The end of a handler: the events it leaves. *)
LEMMA FinishGives ==
    ASSUME SlotInv, NEW c \in Peer, NEW sent \in Sends, NEW throws \in BOOLEAN,
           Finish(c, sent, throws)
    PROVE  /\ events' \in Seq(Event)
           /\ <<"ready", c>> \in ToSet(events') /\ ToSet(events) \subseteq ToSet(events')
           /\ \A e \in ToSet(events') : \/ e \in ToSet(events)
                                        \/ e[1] = "send" /\ e[2] \in Slow
                                        \/ e[1] \in {"ready", "error"}
<1> DEFINE err == IF throws THEN <<<<"error", c>>>> ELSE <<>>
           end == <<<<"ready", c>>>>
<1>1. events \in Seq(Event)
  BY DEF SlotInv, SlotTypeOK
<1>2. sent \in Seq(Event) /\ \A e \in ToSet(sent) : e[1] = "send" /\ e[2] \in Slow
  <2>1. CASE sent = <<>>
    BY <2>1 DEF ToSet
  <2>2. CASE \E d \in Slow : sent = <<<<"send", d>>>>
    <3>1. PICK d \in Slow : sent = <<<<"send", d>>>>
      BY <2>2
    <3>2. d \in Peer
      BY SlotAssumption
    <3>3. <<"send", d>> \in Event
      BY <3>2 DEF Event
    <3>4. sent \in Seq(Event)
      BY <3>1, <3>3
    <3>5. DOMAIN sent = {1} /\ sent[1] = <<"send", d>>
      BY <3>1
    <3> QED BY <3>4, <3>5 DEF ToSet
  <2> QED BY <2>1, <2>2 DEF Sends
<1>3. err \in Seq(Event) /\ \A e \in ToSet(err) : e[1] = "error"
  <2>1. <<"error", c>> \in Event
    BY DEF Event
  <2>2. CASE throws
    <3>1. err = <<<<"error", c>>>>
      BY <2>2
    <3> HIDE DEF err
    <3>2. err \in Seq(Event) /\ DOMAIN err = {1} /\ err[1] = <<"error", c>>
      BY <2>1, <3>1
    <3> QED BY <3>2 DEF ToSet
  <2>3. CASE ~throws
    <3>1. err = <<>>
      BY <2>3
    <3> HIDE DEF err
    <3> QED BY <3>1 DEF ToSet
  <2> QED BY <2>2, <2>3
<1>4. end \in Seq(Event) /\ ToSet(end) = {<<"ready", c>>}
  <2>1. <<"ready", c>> \in Event
    BY DEF Event
  <2>2. end \in Seq(Event) /\ DOMAIN end = {1} /\ end[1] = <<"ready", c>>
    BY <2>1
  <2> QED BY <2>2 DEF ToSet
<1>5. events' = ((events \o sent) \o err) \o end
  BY DEF Finish
<1> HIDE DEF err, end
<1> DEFINE e1 == events \o sent
           e2 == e1 \o err
<1>6. e1 \in Seq(Event) /\ ToSet(e1) = ToSet(events) \cup ToSet(sent)
  BY <1>1, <1>2, MembersConcat
<1> HIDE DEF e1
<1>7. e2 \in Seq(Event) /\ ToSet(e2) = ToSet(e1) \cup ToSet(err)
  BY <1>3, <1>6, MembersConcat
<1>8. events' = e2 \o end
  BY <1>5 DEF e1
<1> HIDE DEF e2
<1>9. events' \in Seq(Event) /\ ToSet(events') = ToSet(e2) \cup ToSet(end)
  BY <1>4, <1>7, <1>8, MembersConcat
<1>10. ToSet(events') = ((ToSet(events) \cup ToSet(sent)) \cup ToSet(err)) \cup {<<"ready", c>>}
  BY <1>4, <1>6, <1>7, <1>9
<1>11. <<"ready", c>> \in ToSet(events') /\ ToSet(events) \subseteq ToSet(events')
  BY <1>10
<1>12. ASSUME NEW e \in ToSet(events')
       PROVE  \/ e \in ToSet(events)
              \/ e[1] = "send" /\ e[2] \in Slow
              \/ e[1] \in {"ready", "error"}
  BY <1>2, <1>3, <1>10
<1> QED BY <1>9, <1>11, <1>12

LEMMA FinishKeeps ==
    ASSUME SlotInv, NEW c \in Peer, NEW sent \in Sends, NEW throws \in BOOLEAN,
           Finish(c, sent, throws)
    PROVE  SlotInv'
<1>1. /\ events' \in Seq(Event)
      /\ \A e \in ToSet(events') : \/ e \in ToSet(events)
                                   \/ e[1] = "send" /\ e[2] \in Slow
                                   \/ e[1] \in {"ready", "error"}
  BY FinishGives
<1>2. EventsTrue'
  <2>1. \A e \in ToSet(events') : /\ e[1] = "removed" => e[2] \in removed'
                                  /\ e[1] = "send" => e[2] \in Slow
    BY <1>1, EventsTrueOf DEF SlotInv, Finish
  <2> QED BY <2>1 DEF EventsTrue, ToSet
<1>3. failed' \in 0..MaxFail
  BY SlotAssumption DEF SlotInv, SlotTypeOK, Finish
<1>4. running' \in [Peer -> Nat]
  BY DEF SlotInv, SlotTypeOK, Finish
<1>5. SlotTypeOK' /\ (inbox \subseteq Talking)'
  BY <1>1, <1>3, <1>4 DEF SlotInv, SlotTypeOK, Finish
<1>6. Apart' /\ NoneLate' /\ NoRevival'
  BY DEF SlotInv, Apart, NoneLate, NoRevival, ToRemove, Finish
<1> QED BY <1>2, <1>5, <1>6 DEF SlotInv

(* The boss's end of the event port: the events that are left. *)
LEMMA EventTaken ==
    ASSUME SlotInv, events # <<>>, events' = Tail(events)
    PROVE  /\ events' \in Seq(Event) /\ Head(events) \in Event /\ Head(events) \in ToSet(events)
           /\ ToSet(events') \subseteq ToSet(events)
           /\ ToSet(events) \subseteq ToSet(events') \cup {Head(events)}
           /\ Head(events)[2] \in Peer
           /\ removed' = removed => EventsTrue'
<1>1. events \in Seq(Event)
  BY DEF SlotInv, SlotTypeOK
<1>2. /\ events' \in Seq(Event) /\ Head(events) \in Event /\ Head(events) \in ToSet(events)
      /\ ToSet(events') \subseteq ToSet(events)
      /\ ToSet(events) \subseteq ToSet(events') \cup {Head(events)}
  BY <1>1, MembersTail
<1>3. Head(events)[2] \in Peer
  BY <1>2 DEF Event
<1>4. ASSUME removed' = removed PROVE EventsTrue'
  <2>1. \A e \in ToSet(events') : /\ e[1] = "removed" => e[2] \in removed'
                                  /\ e[1] = "send" => e[2] \in Slow
    BY <1>2, <1>4, EventsTrueOf DEF SlotInv
  <2> QED BY <2>1 DEF EventsTrue, ToSet
<1> QED BY <1>2, <1>3, <1>4

LEMMA BossReadyKeeps ==
    ASSUME SlotInv, BossReady PROVE SlotInv'
<1>1. events' \in Seq(Event) /\ EventsTrue'
  BY EventTaken DEF BossReady
<1>2. busy' \in BOOLEAN
  BY DEF BossReady
<1>3. SlotTypeOK' /\ (inbox \subseteq Talking)'
  BY <1>1, <1>2 DEF SlotInv, SlotTypeOK, BossReady
<1>4. Apart' /\ NoneLate' /\ NoRevival'
  BY DEF SlotInv, Apart, NoneLate, NoRevival, ToRemove, BossReady
<1> QED BY <1>1, <1>3, <1>4 DEF SlotInv

LEMMA BossRemovedKeeps ==
    ASSUME SlotInv, BossRemoved
    PROVE  SlotInv' /\ ToSet(conns') = ToSet(conns)
<1>1. /\ events' \in Seq(Event) /\ EventsTrue'
      /\ Head(events) \in ToSet(events) /\ Head(events)[2] \in Peer
  BY EventTaken DEF BossRemoved
<1>2. Head(events)[2] \in removed
  BY <1>1, EventsTrueOf DEF SlotInv, BossRemoved
<1>3. Head(events)[2] \notin ToSet(conns)
  BY <1>1, <1>2 DEF SlotInv, Apart
<1>4. conns' \in Seq(Peer) /\ IsInjective(conns') /\ ToSet(conns') = ToSet(conns)
  <2>1. /\ conns' \in Seq(Peer) /\ IsInjective(conns')
        /\ ToSet(conns') = ToSet(conns) \ {Head(events)[2]}
    BY RemoveFirstGives DEF SlotInv, SlotTypeOK, BossRemoved
  <2> QED BY <1>3, <2>1
<1>5. SlotTypeOK' /\ (inbox \subseteq Talking)'
  BY <1>1, <1>4 DEF SlotInv, SlotTypeOK, BossRemoved
<1>6. Apart'
  BY <1>4 DEF SlotInv, Apart, ToRemove, BossRemoved
<1>7. NoneLate' /\ NoRevival'
  BY DEF SlotInv, NoneLate, NoRevival, BossRemoved
<1> QED BY <1>1, <1>4, <1>5, <1>6, <1>7 DEF SlotInv

LEMMA BossSendKeeps ==
    ASSUME SlotInv, BossSend PROVE SlotInv'
<1>1. /\ events' \in Seq(Event) /\ EventsTrue' /\ Head(events)[2] \in Peer
  BY EventTaken DEF BossSend
<1>2. /\ conns' \in Seq(Peer) /\ IsInjective(conns') /\ cmds' \in Seq(Command)
      /\ Apart' /\ NoneLate'
  <2>1. CASE UNCHANGED <<conns, cmds>>
    BY <2>1 DEF SlotInv, SlotTypeOK, Apart, NoneLate, ToRemove, BossSend
  <2>2. CASE Detach(Head(events)[2])
    BY <1>1, <2>2, DetachKeeps DEF BossSend
  <2> QED BY <2>1, <2>2 DEF BossSend
<1>3. SlotTypeOK' /\ (inbox \subseteq Talking)'
  BY <1>1, <1>2 DEF SlotInv, SlotTypeOK, BossSend
<1>4. NoRevival'
  BY DEF SlotInv, NoRevival, BossSend
<1> QED BY <1>1, <1>2, <1>3, <1>4 DEF SlotInv

LEMMA SlotStep ==
    ASSUME SlotInv, [SlotNext]_slotVars PROVE SlotInv'
<1>1. CASE UNCHANGED slotVars
  <2>1. SlotTypeOK' /\ (inbox \subseteq Talking)'
    BY <1>1 DEF SlotInv, SlotTypeOK, slotVars
  <2>2. Apart' /\ EventsTrue' /\ NoneLate' /\ NoRevival'
    BY <1>1 DEF SlotInv, Apart, EventsTrue, NoneLate, NoRevival, ToRemove, slotVars
  <2> QED BY <2>1, <2>2 DEF SlotInv
<1>2. ASSUME NEW c \in Peer, Accept(c) PROVE SlotInv'
  BY <1>2, AcceptKeeps
<1>3. ASSUME NEW c \in Peer, Arrive(c) PROVE SlotInv'
  BY <1>3, ArriveKeeps
<1>4. ASSUME NEW c \in Peer, Lose(c) PROVE SlotInv'
  BY <1>4, LoseKeeps
<1>5. ASSUME NEW c \in Peer, ExpireIdle(c) PROVE SlotInv'
  BY <1>5, ExpireIdleKeeps
<1>6. ASSUME NEW c \in Peer, NEW sent \in Sends, NEW throws \in BOOLEAN,
             Finish(c, sent, throws)
      PROVE  SlotInv'
  BY <1>6, FinishKeeps
<1>7. CASE Dispatch
  BY <1>7, DispatchKeeps
<1>8. CASE WorkerProcess
  BY <1>8, WorkerProcessKeeps
<1>9. CASE WorkerRemove
  BY <1>9, WorkerRemoveKeeps
<1>10. CASE BossReady
  BY <1>10, BossReadyKeeps
<1>11. CASE BossRemoved
  BY <1>11, BossRemovedKeeps
<1>12. CASE BossSend
  BY <1>12, BossSendKeeps
<1> QED BY <1>1, <1>2, <1>3, <1>4, <1>5, <1>6, <1>7, <1>8, <1>9, <1>10, <1>11, <1>12
        DEF SlotNext

(* A worker processes no message of a connection it has removed, whatever  *)
(* the peers, the detaching boss and the two ports do.                     *)
THEOREM NeverRevived == SlotSpec => [](SlotTypeOK /\ NoRevival)
<1>1. SlotInv => SlotTypeOK /\ NoRevival
  BY DEF SlotInv
<1> QED BY <1>1, SlotInvInit, SlotStep, PTL DEF SlotSpec
-----------------------------------------------------------------------------
(* A busy worker owes the boss the ready event of a connection that the    *)
(* boss keeps: one whose peer talks, and talking peers are not detached    *)
(* while their message is handled.                                         *)
Owed(c) ==
    \/ <<"process", c>> \in ToSet(cmds)
    \/ running[c] > 0
    \/ <<"ready", c>> \in ToSet(events)

BusyHeld == busy => \E c \in Talking : c \in ToSet(conns) /\ Owed(c)

LEMMA BusyHeldGives == SlotInv /\ BusyHeld => SlotReturns
<1> SUFFICES ASSUME SlotInv, BusyHeld, busy PROVE \E c \in Peer : Owned(c) /\ Outstanding(c)
  BY DEF SlotReturns
<1>1. PICK c \in Talking : c \in ToSet(conns) /\ Owed(c)
  BY DEF BusyHeld
<1>2. c \in Peer /\ Owned(c)
  BY <1>1, SlotAssumption, OwnedIsMember DEF SlotInv, SlotTypeOK
<1>3. Outstanding(c)
  <2>1. cmds \in Seq(Command) /\ events \in Seq(Event)
    BY DEF SlotInv, SlotTypeOK
  <2>2. DOMAIN cmds = 1..Len(cmds) /\ DOMAIN events = 1..Len(events)
    BY <2>1
  <2> QED BY <1>1, <2>2 DEF Owed, Outstanding, Contains, ToSet
<1> QED BY <1>2, <1>3

LEMMA BusyHeldStep ==
    ASSUME Talking \cap (Slow \cup Idle) = {}, SlotInv, BusyHeld, [SlotNext]_slotVars
    PROVE  BusyHeld'
<1> SUFFICES ASSUME busy' PROVE \E c \in Talking : c \in ToSet(conns') /\ Owed(c)'
  BY DEF BusyHeld
<1>0. /\ conns \in Seq(Peer) /\ IsInjective(conns) /\ cmds \in Seq(Command)
      /\ events \in Seq(Event) /\ Talking \subseteq Peer /\ running \in [Peer -> Nat]
  BY SlotAssumption DEF SlotInv, SlotTypeOK
<1>1. ASSUME busy, cmds' = cmds, running' = running, events' = events,
             ToSet(conns) \subseteq ToSet(conns')
      PROVE  \E c \in Talking : c \in ToSet(conns') /\ Owed(c)'
  BY <1>1 DEF BusyHeld, Owed
<1>2. CASE UNCHANGED slotVars
  BY <1>1, <1>2 DEF slotVars
<1>3. ASSUME NEW c \in Peer, Accept(c)
      PROVE  \E d \in Talking : d \in ToSet(conns') /\ Owed(d)'
  <2>1. ToSet(conns) \subseteq ToSet(conns')
    BY <1>0, <1>3, MembersAppend DEF Accept
  <2> QED BY <1>1, <1>3, <2>1 DEF Accept
<1>4. ASSUME NEW c \in Peer, Arrive(c) \/ Lose(c)
      PROVE  \E d \in Talking : d \in ToSet(conns') /\ Owed(d)'
  BY <1>1, <1>4 DEF Arrive, Lose
<1>5. ASSUME NEW c \in Peer, c \notin Talking, Detach(c), busy, running' = running,
             removed' = removed, fresh' = fresh,
             \A d : <<"ready", d>> \in ToSet(events) => <<"ready", d>> \in ToSet(events')
      PROVE  \E d \in Talking : d \in ToSet(conns') /\ Owed(d)'
  <2>1. PICK d \in Talking : d \in ToSet(conns) /\ Owed(d)
    BY <1>5 DEF BusyHeld
  <2>2. /\ ToSet(conns') = ToSet(conns) \ {c}
        /\ \A n \in DOMAIN cmds : n \in DOMAIN cmds' /\ cmds'[n] = cmds[n]
    BY <1>5, DetachKeeps
  <2>3. ToSet(cmds) \subseteq ToSet(cmds')
    BY <2>2 DEF ToSet
  <2> QED BY <1>5, <2>1, <2>2, <2>3 DEF Owed
<1>6. ASSUME NEW c \in Peer, ExpireIdle(c)
      PROVE  \E d \in Talking : d \in ToSet(conns') /\ Owed(d)'
  BY <1>5, <1>6 DEF ExpireIdle
<1>7. ASSUME NEW c \in Peer, NEW sent \in Sends, NEW throws \in BOOLEAN,
             Finish(c, sent, throws)
      PROVE  \E d \in Talking : d \in ToSet(conns') /\ Owed(d)'
  <2>1. PICK d \in Talking : d \in ToSet(conns) /\ Owed(d)
    BY <1>7 DEF BusyHeld, Finish
  <2>2. <<"ready", c>> \in ToSet(events') /\ ToSet(events) \subseteq ToSet(events')
    BY <1>7, FinishGives
  <2>3. d # c => running'[d] = running[d]
    BY <1>0, <1>7 DEF Finish
  <2> QED BY <1>7, <2>1, <2>2, <2>3 DEF Owed, Finish
<1>8. CASE Dispatch
  <2>1. PICK poll \in ScanState :
              /\ conns' = poll.list
              /\ busy' = (poll.found # <<>>)
              /\ cmds' = cmds \o [i \in DOMAIN poll.gone |-> <<"remove", poll.gone[i]>>]
                              \o [i \in DOMAIN poll.found |-> <<"process", poll.found[i]>>]
    BY <1>8, DispatchGives
  <2>2. PICK c \in ToSet(poll.list) \cap inbox : poll.found = <<c>>
    BY <2>1 DEF ScanState
  <2>3. c \in Talking /\ c \in ToSet(conns')
    BY <2>1, <2>2 DEF SlotInv
  <2> DEFINE g == [i \in DOMAIN poll.gone |-> <<"remove", poll.gone[i]>>]
             f == [i \in DOMAIN poll.found |-> <<"process", poll.found[i]>>]
             b == cmds \o g
  <2>4. g \in Seq(Command)
    <3>1. /\ poll.gone \in Seq(Peer) /\ DOMAIN poll.gone = 1..Len(poll.gone)
          /\ Len(poll.gone) \in Nat
      BY DEF ScanState
    <3>2. ASSUME NEW i \in DOMAIN poll.gone PROVE <<"remove", poll.gone[i]>> \in Command
      <4>1. poll.gone[i] \in Peer
        BY <3>1
      <4> QED BY <4>1 DEF Command
    <3> QED BY <3>1, <3>2
  <2>5. f \in Seq(Command) /\ <<"process", c>> \in ToSet(f)
    <3>1. DOMAIN poll.found = 1..1 /\ poll.found[1] = c
      BY <2>2
    <3>2. <<"process", c>> \in Command
      BY <1>0, <2>3 DEF Command
    <3>3. f = [i \in 1..1 |-> <<"process", c>>]
      BY <3>1
    <3> HIDE DEF f
    <3>4. DOMAIN f = 1..1 /\ f[1] = <<"process", c>> /\ f \in Seq(Command)
      BY <3>2, <3>3
    <3> QED BY <3>4 DEF ToSet
  <2> HIDE DEF f, g
  <2>6. b \in Seq(Command)
    BY <1>0, <2>4, MembersConcat
  <2>7. cmds' = b \o f
    BY <2>1 DEF f, g
  <2> HIDE DEF b
  <2>8. ToSet(cmds') = ToSet(b) \cup ToSet(f)
    BY <2>5, <2>6, <2>7, MembersConcat
  <2> QED BY <2>3, <2>5, <2>8 DEF Owed
<1>9. CASE WorkerProcess
  <2>1. PICK d \in Talking : d \in ToSet(conns) /\ Owed(d)
    BY <1>9 DEF BusyHeld, WorkerProcess
  <2>2. ToSet(cmds) \subseteq ToSet(cmds') \cup {Head(cmds)} /\ Head(cmds) \in Command
    BY <1>0, <1>9, MembersTail DEF WorkerProcess
  <2>3. Head(cmds)[2] \in Peer
    BY <2>2 DEF Command
  <2>4. Head(cmds) = <<"process", d>> => running'[d] > 0
    BY <1>0, <1>9, <2>3 DEF WorkerProcess
  <2>5. running'[d] >= running[d] /\ running[d] \in Nat /\ running'[d] \in Nat
    BY <1>0, <1>9, <2>3 DEF WorkerProcess
  <2>6. running[d] > 0 => running'[d] > 0
    BY <2>5
  <2> QED BY <1>9, <2>1, <2>2, <2>4, <2>6 DEF Owed, WorkerProcess
<1>10. CASE WorkerRemove
  <2>1. PICK d \in Talking : d \in ToSet(conns) /\ Owed(d)
    BY <1>10 DEF BusyHeld, WorkerRemove
  <2>2. ToSet(cmds) \subseteq ToSet(cmds') \cup {Head(cmds)} /\ Head(cmds) \in Command
    BY <1>0, <1>10, MembersTail DEF WorkerRemove
  <2>3. Head(cmds) # <<"process", d>>
    BY <1>10 DEF WorkerRemove
  <2>4. ToSet(events) \subseteq ToSet(events')
    <3>1. Head(cmds)[2] \in Peer
      BY <2>2 DEF Command
    <3>2. <<"removed", Head(cmds)[2]>> \in Event
      BY <3>1 DEF Event
    <3> QED BY <1>0, <1>10, <3>2, MembersAppend DEF WorkerRemove
  <2> QED BY <1>10, <2>1, <2>2, <2>3, <2>4 DEF Owed, WorkerRemove
<1>11. ASSUME events # <<>>, events' = Tail(events), Head(events)[1] # "ready"
       PROVE  \A d : <<"ready", d>> \in ToSet(events) => <<"ready", d>> \in ToSet(events')
  <2>1. ToSet(events) \subseteq ToSet(events') \cup {Head(events)}
    BY <1>11, EventTaken
  <2> QED BY <1>11, <2>1
<1>12. CASE BossReady
  <2>1. PICK d \in Talking : d \in ToSet(conns) /\ Owed(d)
    BY <1>12 DEF BusyHeld, BossReady
  <2>2. ToSet(events) \subseteq ToSet(events') \cup {Head(events)}
    BY <1>12, EventTaken DEF BossReady
  <2>3. Owned(d) /\ ~Owned(Head(events)[2])
    BY <1>0, <1>12, <2>1, OwnedIsMember DEF BossReady
  <2>4. Head(events) # <<"ready", d>>
    BY <2>3
  <2> QED BY <1>12, <2>1, <2>2, <2>4 DEF Owed, BossReady
<1>13. CASE BossRemoved
  <2>1. PICK d \in Talking : d \in ToSet(conns) /\ Owed(d)
    BY <1>13 DEF BusyHeld, BossRemoved
  <2>2. ToSet(conns') = ToSet(conns)
    BY <1>13, BossRemovedKeeps
  <2>3. \A e : <<"ready", e>> \in ToSet(events) => <<"ready", e>> \in ToSet(events')
    BY <1>11, <1>13 DEF BossRemoved
  <2> QED BY <1>13, <2>1, <2>2, <2>3 DEF Owed, BossRemoved
<1>14. CASE BossSend
  <2>1. Head(events)[2] \in Peer /\ Head(events) \in ToSet(events)
    BY <1>14, EventTaken DEF BossSend
  <2>2. Head(events)[2] \notin Talking
    BY <1>14, <2>1, EventsTrueOf DEF SlotInv, BossSend
  <2>3. \A d : <<"ready", d>> \in ToSet(events) => <<"ready", d>> \in ToSet(events')
    BY <1>11, <1>14 DEF BossSend
  <2>4. CASE Detach(Head(events)[2])
    BY <1>5, <1>14, <2>1, <2>2, <2>3, <2>4 DEF BossSend
  <2>5. CASE UNCHANGED <<conns, cmds>>
    BY <1>14, <2>3, <2>5 DEF BusyHeld, Owed, BossSend
  <2> QED BY <1>14, <2>4, <2>5 DEF BossSend
<1> QED BY <1>2, <1>3, <1>4, <1>6, <1>7, <1>8, <1>9, <1>10, <1>12, <1>13, <1>14
        DEF SlotNext

(* The boss's view of a worker is sound for every number of connections    *)
(* and any traffic, as long as the peers that talk are neither slow nor    *)
(* idle: the boss does not detach a connection whose message it dispatched *)
(* and so is not left waiting for the ready event of one it forgot.        *)
THEOREM SlotSoundHolds ==
    ASSUME Talking \cap (Slow \cup Idle) = {}
    PROVE  SlotSpec => []SlotSound
<1>1. SlotInit => SlotInv /\ BusyHeld
  BY SlotInvInit DEF SlotInit, BusyHeld
<1>2. SlotInv /\ BusyHeld /\ [SlotNext]_slotVars => (SlotInv /\ BusyHeld)'
  BY SlotStep, BusyHeldStep
<1>3. SlotInv /\ BusyHeld => SlotSound
  BY BusyHeldGives DEF SlotInv, SlotSound
<1> QED BY <1>1, <1>2, <1>3, PTL DEF SlotSpec
=============================================================================
