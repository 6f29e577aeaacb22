----------------------------- MODULE Handshake -----------------------------
(***************************************************************************)
(* How a connection of a worker becomes a session and how it ends          *)
(* (router_worker_handshake.dart, and the closing code of router_worker    *)
(* and router_worker_session).  The HELLO, AUTHENTICATE and GOODBYE        *)
(* handlers, the removal of the connection and the drain at shutdown share *)
(* one WorkerConnectionState; each may be suspended at an await while the  *)
(* others run.  A step here is what one of them does up to its next await  *)
(* of another isolate or of an authenticator.                              *)
(*                                                                         *)
(* A connection has at most one message handler at work (the worker's busy *)
(* slot, module WorkerSlot) and uses a serializer without a profile.       *)
(* Authenticators are external: any result at any time.                    *)
(***************************************************************************)
EXTENDS Naturals, FiniteSets

CONSTANTS Conn,     (* connections of the worker                             *)
          MaxId,    (* bound: session ids handed out                         *)
          Strays    (* do clients send HELLO or AUTHENTICATE once welcomed?  *)

ASSUME HandshakeAssumption == MaxId \in Nat /\ Strays \in BOOLEAN

VARIABLES phase,    (* state.phase                                           *)
          realm,    (* state.realmUri and realmSettings are set              *)
          sess,     (* state.sessionId, 0 for null                           *)
          authn,    (* state.authenticator and authContext are set           *)
          pc,       (* where the message handler waits                       *)
          ended,    (* the closers that have begun on this connection        *)
          waiting,  (* those of them that wait for onAbort                   *)
          stored,   (* the store's sessions, with their connection           *)
          nextId,   (* ids.session                                           *)
          aborts    (* history: calls of onAbort                             *)

connVars == <<phase, realm, sess, authn>>
vars == <<connVars, pc, ended, waiting, stored, nextId, aborts>>

Phase == {"hello", "authenticate", "open", "aborted"}
Wait == {"anonymousId", "sessionId", "create", "onHello", "onAuthenticate",
         "welcomeId", "aborting", "closing"}
Closer == {"remove", "drain"}
Result == {"challenge", "success", "failure", "throw"}

TypeOK ==
    /\ phase \in [Conn -> Phase]
    /\ realm \in [Conn -> BOOLEAN]
    /\ sess \in [Conn -> 0..MaxId]
    /\ authn \in [Conn -> BOOLEAN]
    /\ pc \in [Conn -> Wait \cup {"idle"}]
    /\ ended \in [Conn -> SUBSET Closer]
    /\ waiting \in [Conn -> SUBSET Closer]
    /\ stored \subseteq Conn \X (1..MaxId)
    /\ nextId \in 1..(MaxId + 1)
    /\ aborts \in [Conn -> Nat]

(* WorkerConnectionState *)
Init ==
    /\ phase = [c \in Conn |-> "hello"]
    /\ realm = [c \in Conn |-> FALSE]
    /\ sess = [c \in Conn |-> 0]
    /\ authn = [c \in Conn |-> FALSE]
    /\ pc = [c \in Conn |-> "idle"]
    /\ ended = [c \in Conn |-> {}]
    /\ waiting = [c \in Conn |-> {}]
    /\ stored = {}
    /\ nextId = 1
    /\ aborts = [c \in Conn |-> 0]

(* A message of c is handled while its state is in connectionStates and    *)
(* the boss sends its messages.                                            *)
Receives(c) == pc[c] = "idle" /\ ended[c] = {}

Goto(c, p) == pc' = [pc EXCEPT ![c] = p]
-----------------------------------------------------------------------------
(* _abortPendingAuthentication: is there an authenticator to tell? *)
MustTell(c) == phase[c] \in {"hello", "authenticate"} /\ authn[c]

(* Mutant of TellAuthenticator: the state keeps the authenticator.         *)
TellAuthenticatorKept(c) ==
    /\ MustTell(c)
    /\ aborts' = [aborts EXCEPT ![c] = @ + 1]
    /\ UNCHANGED authn

(* The authenticator leaves the state before the wait for onAbort.         *)
TellAuthenticator(c) ==
    /\ MustTell(c)
    /\ authn' = [authn EXCEPT ![c] = FALSE]
    /\ aborts' = [aborts EXCEPT ![c] = @ + 1]

(* What the handler does after onAbort, or at once: the ABORT is sent. *)
Aborted(c) ==
    /\ phase' = [phase EXCEPT ![c] = "aborted"]
    /\ authn' = [authn EXCEPT ![c] = FALSE]
    /\ Goto(c, "idle")
    /\ UNCHANGED <<realm, sess, ended, waiting, stored, nextId, aborts>>

(* sendAbort, from any place of the handlers.  An authenticator that gave  *)
(* its last result is not pending any more.                                *)
SendAbort(c) ==
    \/ /\ TellAuthenticator(c)
       /\ Goto(c, "aborting")
       /\ UNCHANGED <<phase, realm, sess, ended, waiting, stored, nextId>>
    \/ /\ ~MustTell(c)
       /\ Aborted(c)

AbortTold(c) ==
    /\ pc[c] = "aborting"
    /\ Aborted(c)
-----------------------------------------------------------------------------
(* _handleHello up to its first await *)
HelloUnexpected(c) ==
    /\ Receives(c)
    /\ phase[c] # "hello"
    /\ phase[c] = "open" => Strays
    /\ SendAbort(c)

(* No such realm, a locked or unknown authid, no acceptable method. *)
HelloRefused(c) ==
    /\ Receives(c)
    /\ phase[c] = "hello"
    /\ phase' = [phase EXCEPT ![c] = "aborted"]
    /\ \E r \in BOOLEAN : realm' = [realm EXCEPT ![c] = r]
    /\ UNCHANGED <<sess, authn, pc, ended, waiting, stored, nextId, aborts>>

HelloAccepted(c) ==
    /\ Receives(c)
    /\ phase[c] = "hello"
    /\ realm' = [realm EXCEPT ![c] = TRUE]
    /\ \E p \in {"anonymousId", "sessionId"} : Goto(c, p)
    /\ UNCHANGED <<phase, sess, authn, ended, waiting, stored, nextId, aborts>>

(* allocateSessionId of the method that needs an authenticator *)
AllocateSessionId(c) ==
    /\ pc[c] = "sessionId"
    /\ nextId <= MaxId
    /\ sess' = [sess EXCEPT ![c] = nextId]
    /\ nextId' = nextId + 1
    /\ Goto(c, "create")
    /\ UNCHANGED <<phase, realm, authn, ended, waiting, stored, aborts>>

(* factory.create returns; onHello is called *)
AuthenticatorCreated(c) ==
    /\ pc[c] = "create"
    /\ authn' = [authn EXCEPT ![c] = TRUE]
    /\ Goto(c, "onHello")
    /\ UNCHANGED <<phase, realm, sess, ended, waiting, stored, nextId, aborts>>

CreateThrows(c) == pc[c] = "create" /\ SendAbort(c)

(* Mutant of Welcome: the realm the HELLO named is used.                   *)
WelcomeCaptured(c, id) ==
    /\ authn' = [authn EXCEPT ![c] = FALSE]
    /\ sess' = [sess EXCEPT ![c] = id]
    /\ phase' = [phase EXCEPT ![c] = "open"]
    /\ stored' = stored \cup {<<c, id>>}
    /\ Goto(c, "idle")
    /\ UNCHANGED <<realm, ended, waiting, aborts>>

(* WELCOME and SessionOpenCommand, which needs state.realmUri: when the    *)
(* connection was closed meanwhile the handler fails and aborts.           *)
Welcome(c, id) ==
    /\ authn' = [authn EXCEPT ![c] = FALSE]
    /\ sess' = [sess EXCEPT ![c] = id]
    /\ IF realm[c] THEN /\ phase' = [phase EXCEPT ![c] = "open"]
                        /\ stored' = stored \cup {<<c, id>>}
                   ELSE /\ phase' = [phase EXCEPT ![c] = "aborted"]
                        /\ UNCHANGED stored
    /\ Goto(c, "idle")
    /\ UNCHANGED <<realm, ended, waiting, aborts>>

(* _openAnonymousSession after allocateSessionId *)
OpenAnonymousSession(c) ==
    /\ pc[c] = "anonymousId"
    /\ nextId <= MaxId
    /\ nextId' = nextId + 1
    /\ Welcome(c, nextId)

(* _applyAuthResult *)
ApplyAuthResult(c, result) ==
    \/ /\ result = "challenge"
       /\ phase' = [phase EXCEPT ![c] = "authenticate"]
       /\ Goto(c, "idle")
       /\ UNCHANGED <<realm, sess, authn, ended, waiting, stored, nextId,
                      aborts>>
    \/ /\ result = "success" /\ sess[c] # 0
       /\ Welcome(c, sess[c])
       /\ UNCHANGED nextId
    \/ /\ result = "success" /\ sess[c] = 0
       /\ Goto(c, "welcomeId")
       /\ UNCHANGED <<connVars, ended, waiting, stored, nextId, aborts>>
    \/ /\ result \in {"failure", "throw"}
       /\ SendAbort(c)

OnHello(c, result) ==
    /\ pc[c] = "onHello"
    /\ ApplyAuthResult(c, result)

(* completeAuthenticatedSession of a connection whose id was taken away *)
WelcomeId(c) ==
    /\ pc[c] = "welcomeId"
    /\ nextId <= MaxId
    /\ nextId' = nextId + 1
    /\ Welcome(c, nextId)
-----------------------------------------------------------------------------
(* _handleAuthenticate: out of place, without a signature or too late *)
AuthenticateRefused(c) ==
    /\ Receives(c)
    /\ phase[c] = "open" => Strays
    /\ SendAbort(c)

AuthenticateAccepted(c) ==
    /\ Receives(c)
    /\ phase[c] = "authenticate" /\ authn[c] /\ realm[c]
    /\ Goto(c, "onAuthenticate")
    /\ UNCHANGED <<connVars, ended, waiting, stored, nextId, aborts>>

(* The result needs state.realmSettings. *)
OnAuthenticate(c, result) ==
    /\ pc[c] = "onAuthenticate"
    /\ IF realm[c] THEN ApplyAuthResult(c, result) ELSE SendAbort(c)
-----------------------------------------------------------------------------
(* Mutant of Closed: the store is not told. *)
ClosedSilently(c) ==
    /\ UNCHANGED stored
    /\ phase' = [phase EXCEPT ![c] = "aborted"]
    /\ realm' = [realm EXCEPT ![c] = FALSE]
    /\ sess' = [sess EXCEPT ![c] = 0]
    /\ authn' = [authn EXCEPT ![c] = FALSE]

(* _closeSession after _abortPendingAuthentication *)
Closed(c) ==
    /\ stored' = IF phase[c] = "open" /\ realm[c] THEN stored \ {<<c, sess[c]>>}
                                                  ELSE stored
    /\ phase' = [phase EXCEPT ![c] = "aborted"]
    /\ realm' = [realm EXCEPT ![c] = FALSE]
    /\ sess' = [sess EXCEPT ![c] = 0]
    /\ authn' = [authn EXCEPT ![c] = FALSE]

(* _handleGoodbye of the client's GOODBYE *)
Goodbye(c) ==
    /\ Receives(c)
    /\ \/ TellAuthenticator(c) /\ Goto(c, "closing")
          /\ UNCHANGED <<phase, realm, sess, stored>>
       \/ ~MustTell(c) /\ Closed(c) /\ UNCHANGED <<pc, aborts>>
    /\ UNCHANGED <<ended, waiting, nextId>>

GoodbyeTold(c) ==
    /\ pc[c] = "closing"
    /\ Closed(c)
    /\ Goto(c, "idle")
    /\ UNCHANGED <<ended, waiting, nextId, aborts>>

(* _handleConnectionRemoval, or the drain's _handleGoodbye of one          *)
(* connection; a removal may find a drain that waits.                      *)
Close(k, c) ==
    /\ ended[c] = {} \/ (k = "remove" /\ waiting[c] = {"drain"})
    /\ ended' = [ended EXCEPT ![c] = @ \cup {k}]
    /\ \/ /\ TellAuthenticator(c)
          /\ waiting' = [waiting EXCEPT ![c] = @ \cup {k}]
          /\ UNCHANGED <<phase, realm, sess, stored>>
       \/ /\ ~MustTell(c) /\ Closed(c)
          /\ UNCHANGED <<waiting, aborts>>
    /\ UNCHANGED <<pc, nextId>>

CloseTold(k, c) ==
    /\ k \in waiting[c]
    /\ waiting' = [waiting EXCEPT ![c] = @ \ {k}]
    /\ Closed(c)
    /\ UNCHANGED <<pc, ended, nextId, aborts>>

Message(c) ==
    \/ HelloUnexpected(c) \/ HelloRefused(c) \/ HelloAccepted(c)
    \/ AuthenticateRefused(c) \/ AuthenticateAccepted(c)
    \/ Goodbye(c)

Resume(c) ==
    \/ AllocateSessionId(c) \/ AuthenticatorCreated(c) \/ CreateThrows(c)
    \/ OpenAnonymousSession(c) \/ WelcomeId(c)
    \/ AbortTold(c) \/ GoodbyeTold(c)
    \/ \E result \in Result : OnHello(c, result) \/ OnAuthenticate(c, result)
    \/ \E k \in Closer : CloseTold(k, c)

Next ==
    \E c \in Conn : Message(c) \/ Resume(c) \/ \E k \in Closer : Close(k, c)

Spec == Init /\ [][Next]_vars
-----------------------------------------------------------------------------
(* A session in the store is the session its connection serves: its        *)
(* messages are handled, and closing the connection removes it.            *)
Established ==
    \A s \in stored : phase[s[1]] = "open" /\ realm[s[1]] /\ sess[s[1]] = s[2]

(* Nothing is under way for the connection any more. *)
Over(c) == ended[c] # {} /\ waiting[c] = {} /\ pc[c] = "idle"

(* A connection that is gone leaves no session behind, wherever its        *)
(* removal met the handshake.                                              *)
NoGhosts == \A c \in Conn : Over(c) => \A s \in stored : s[1] # c

(* An authenticator hears of the end of its handshake at most once. *)
AbortOnce == \A c \in Conn : aborts[c] <= 1
=============================================================================
