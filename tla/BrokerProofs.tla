---------------------------- MODULE BrokerProofs ----------------------------
(***************************************************************************)
(* For any finite set of sessions, any patterns and topics: the store's    *)
(* subscriptions agree in every behaviour of the broker, a session that    *)
(* was told SUBSCRIBED is a subscriber, what a connection sees is in order *)
(* and once, and no EVENT is lost on its way.                              *)
(***************************************************************************)
EXTENDS Broker, FiniteSetTheorems, TLAPS

USE SubscriptionsAssumption

(* An id not handed out is no entry, and what is no entry has nobody.      *)
Fresh ==
    /\ \A i \in entry : i < nextSub
    /\ \A i \in SubId \ entry : subscribers[i] = {}

(* SubscriptionsAgree by its parts *)
SessionsAgree == \A s \in open : subIds[s] = {i \in entry : s \in subscribers[i]}
EntriesAgree == \A i \in entry : /\ subscribers[i] # {}
                                 /\ subscribers[i] \subseteq open
                                 /\ atlas[pattern[i]] = i
AtlasAgrees == \A p \in Pattern : atlas[p] # NoEntry =>
                   atlas[p] \in entry /\ pattern[atlas[p]] = p

StoreInv == StoreTypeOK /\ Fresh /\ SessionsAgree /\ EntriesAgree /\ AtlasAgrees

LEMMA AgreeParts == SubscriptionsAgree <=> SessionsAgree /\ EntriesAgree /\ AtlasAgrees
BY DEF SubscriptionsAgree, SessionsAgree, EntriesAgree, AtlasAgrees

LEMMA InvInit == StoreInit => StoreInv
<1>1. (CHOOSE p \in Pattern : TRUE) \in Pattern
  OBVIOUS
<1> QED
  BY <1>1 DEF StoreInit, StoreInv, StoreTypeOK, Fresh, SessionsAgree,
     EntriesAgree, AtlasAgrees, SubId, NoEntry

LEMMA AddKeeps ==
    ASSUME StoreInv, NEW s \in Session, NEW p \in Pattern, AddSubscription(s, p)
    PROVE  StoreInv'
<1> DEFINE i == FindOrCreateSubscription(p)
<1> USE DEF StoreInv
<1>1. /\ i \in SubId
      /\ \/ i = nextSub /\ i \notin entry /\ subscribers[i] = {} /\ atlas[p] = NoEntry
         \/ i \in entry /\ pattern[i] = p /\ atlas[p] = i
  BY DEF FindOrCreateSubscription, AddSubscription, StoreTypeOK, SubId, Fresh,
     AtlasAgrees, NoEntry
<1> HIDE DEF i
<1>2. /\ s \in open /\ open' = open
      /\ nextSub' = nextSub + 1 /\ nextSub <= MaxSub
      /\ entry' = entry \cup {i}
      /\ pattern' = [pattern EXCEPT ![i] = p]
      /\ subscribers' = [subscribers EXCEPT ![i] = @ \cup {s}]
      /\ atlas' = [atlas EXCEPT ![p] = i]
      /\ subIds' = [subIds EXCEPT ![s] = @ \cup {i}]
  BY DEF AddSubscription, i
<1>3. StoreTypeOK'
  BY <1>1, <1>2 DEF StoreTypeOK, SubId
<1>4. Fresh'
  BY <1>1, <1>2 DEF StoreTypeOK, SubId, Fresh
<1>5. SessionsAgree'
  <2> SUFFICES ASSUME NEW t \in open
               PROVE  subIds'[t] = {j \in entry' : t \in subscribers'[j]}
    BY <1>2 DEF SessionsAgree
  <2>1. subIds[t] = {j \in entry : t \in subscribers[j]}
    BY DEF SessionsAgree
  <2>2. subscribers'[i] = subscribers[i] \cup {s}
        /\ \A j \in SubId \ {i} : subscribers'[j] = subscribers[j]
    BY <1>1, <1>2 DEF StoreTypeOK
  <2>3. CASE t = s
    <3>1. subIds'[t] = subIds[t] \cup {i}
      BY <1>2, <2>3 DEF StoreTypeOK
    <3> QED
      BY <1>1, <1>2, <2>1, <2>2, <2>3, <3>1 DEF StoreTypeOK
  <2>4. CASE t # s
    <3>1. subIds'[t] = subIds[t]
      BY <1>2, <2>4 DEF StoreTypeOK
    <3> QED
      BY <1>1, <1>2, <2>1, <2>2, <2>4, <3>1 DEF StoreTypeOK
  <2> QED
    BY <2>3, <2>4
<1>6. EntriesAgree'
  <2> SUFFICES ASSUME NEW j \in entry'
               PROVE  /\ subscribers'[j] # {}
                      /\ subscribers'[j] \subseteq open
                      /\ atlas'[pattern'[j]] = j
    BY <1>2 DEF EntriesAgree
  <2>1. CASE j = i
    <3>1. /\ subscribers'[j] = subscribers[i] \cup {s}
          /\ pattern'[j] = p
          /\ atlas'[p] = i
      BY <1>1, <1>2, <2>1 DEF StoreTypeOK
    <3>2. subscribers[i] \subseteq open
      BY <1>1 DEF EntriesAgree
    <3> QED
      BY <1>2, <2>1, <3>1, <3>2
  <2>2. CASE j # i
    <3>1. /\ j \in entry /\ j \in SubId /\ j # NoEntry
          /\ subscribers'[j] = subscribers[j]
          /\ pattern'[j] = pattern[j] /\ pattern[j] \in Pattern
      BY <1>1, <1>2, <2>2 DEF StoreTypeOK, SubId, NoEntry
    <3>2. /\ subscribers[j] # {} /\ subscribers[j] \subseteq open
          /\ atlas[pattern[j]] = j
      BY <3>1 DEF EntriesAgree
    <3>3. pattern[j] # p
      BY <1>1, <2>2, <3>1, <3>2
    <3> QED
      BY <1>2, <3>1, <3>2, <3>3 DEF StoreTypeOK
  <2> QED
    BY <2>1, <2>2
<1>7. AtlasAgrees'
  BY <1>1, <1>2 DEF StoreTypeOK, EntriesAgree, AtlasAgrees, NoEntry, SubId
<1> QED
  BY <1>3, <1>4, <1>5, <1>6, <1>7

(* Leaving some entries, as UNSUBSCRIBE and the end of a session do. *)
LEMMA LeaveKeeps ==
    ASSUME StoreInv, NEW s \in Session, NEW ids \in SUBSET entry,
           Leave(s, ids), DropEmpty(s, ids),
           UNCHANGED <<pattern, nextSub>>
    PROVE  /\ entry' \subseteq entry
           /\ subscribers' \in [SubId -> SUBSET Session]
           /\ atlas' \in [Pattern -> SubId \cup {NoEntry}]
           /\ Fresh'
           /\ AtlasAgrees'
           /\ \A i \in entry' : subscribers'[i] # {} /\ atlas'[pattern[i]] = i
<1> USE DEF StoreInv, StoreTypeOK, Leave, DropEmpty
<1> DEFINE empty == {i \in ids : subscribers[i] \subseteq {s}}
<1>1. /\ entry' = entry \ empty
      /\ \A p \in Pattern : atlas'[p] = IF atlas[p] \in empty THEN NoEntry ELSE atlas[p]
      /\ \A i \in SubId : subscribers'[i] = IF i \in ids THEN subscribers[i] \ {s}
                                                         ELSE subscribers[i]
  OBVIOUS
<1>2. entry' \subseteq entry
  BY <1>1
<1>3. /\ subscribers' \in [SubId -> SUBSET Session]
      /\ atlas' \in [Pattern -> SubId \cup {NoEntry}]
  OBVIOUS
<1>4. Fresh'
  BY <1>1 DEF Fresh, SubId
<1>5. AtlasAgrees'
  BY <1>1 DEF AtlasAgrees, NoEntry, SubId
<1>6. \A i \in entry' : subscribers'[i] # {} /\ atlas'[pattern[i]] = i
  BY <1>1 DEF EntriesAgree
<1> QED
  BY <1>2, <1>3, <1>4, <1>5, <1>6

LEMMA RemoveKeeps ==
    ASSUME StoreInv, NEW s \in Session, NEW i \in SubId, RemoveSubscription(s, i)
    PROVE  StoreInv'
<1> DEFINE ids == {i} \cap entry
<1>1. /\ Leave(s, ids) /\ DropEmpty(s, ids)
      /\ UNCHANGED <<open, pattern, nextSub>>
      /\ subIds' = IF i \in entry /\ s \in open
                   THEN [subIds EXCEPT ![s] = @ \ {i}] ELSE subIds
  BY DEF RemoveSubscription
<1>2. /\ entry' \subseteq entry
      /\ subscribers' \in [SubId -> SUBSET Session]
      /\ atlas' \in [Pattern -> SubId \cup {NoEntry}]
      /\ Fresh' /\ AtlasAgrees'
      /\ \A j \in entry' : subscribers'[j] # {} /\ atlas'[pattern[j]] = j
  <2>1. ids \in SUBSET entry
    OBVIOUS
  <2> HIDE DEF ids
  <2> QED
    BY <1>1, <2>1, LeaveKeeps
<1>3. StoreTypeOK'
  BY <1>1, <1>2 DEF StoreInv, StoreTypeOK
<1>4. \A j \in SubId : subscribers'[j] = IF j \in ids THEN subscribers[j] \ {s}
                                                      ELSE subscribers[j]
  BY <1>1 DEF Leave
<1>5. EntriesAgree'
  BY <1>1, <1>2, <1>4 DEF StoreInv, StoreTypeOK, EntriesAgree
<1>6. SessionsAgree'
  <2> SUFFICES ASSUME NEW t \in open
               PROVE  subIds'[t] = {j \in entry' : t \in subscribers'[j]}
    BY <1>1 DEF SessionsAgree
  <2>1. \A j \in entry : j \notin entry' => j = i /\ subscribers[j] \subseteq {s}
    BY <1>1 DEF DropEmpty
  <2>2. CASE t = s
    BY <1>1, <1>2, <1>4, <2>1, <2>2 DEF StoreInv, StoreTypeOK, SessionsAgree
  <2>3. CASE t # s
    BY <1>1, <1>2, <1>4, <2>1, <2>3 DEF StoreInv, StoreTypeOK, SessionsAgree
  <2> QED
    BY <2>2, <2>3
<1> QED
  BY <1>2, <1>3, <1>5, <1>6 DEF StoreInv

LEMMA CloseKeeps ==
    ASSUME StoreInv, NEW s \in Session, CloseStoreSession(s)
    PROVE  StoreInv'
<1> DEFINE ids == IF s \in open THEN subIds[s] \cap entry ELSE {}
<1>1. /\ Leave(s, ids) /\ DropEmpty(s, ids)
      /\ UNCHANGED <<pattern, nextSub>>
      /\ open' = open \ {s}
      /\ subIds' = [subIds EXCEPT ![s] = {}]
  BY DEF CloseStoreSession
<1>2. /\ entry' \subseteq entry
      /\ subscribers' \in [SubId -> SUBSET Session]
      /\ atlas' \in [Pattern -> SubId \cup {NoEntry}]
      /\ Fresh' /\ AtlasAgrees'
      /\ \A j \in entry' : subscribers'[j] # {} /\ atlas'[pattern[j]] = j
  <2>1. ids \in SUBSET entry
    OBVIOUS
  <2> HIDE DEF ids
  <2> QED
    BY <1>1, <2>1, LeaveKeeps
<1>3. StoreTypeOK'
  BY <1>1, <1>2 DEF StoreInv, StoreTypeOK
<1>4. \A j \in SubId : subscribers'[j] = IF j \in ids THEN subscribers[j] \ {s}
                                                      ELSE subscribers[j]
  BY <1>1 DEF Leave
<1>5. \A j \in entry : s \in subscribers[j] => j \in ids
  BY DEF StoreInv, SessionsAgree, EntriesAgree
<1>6. EntriesAgree'
  BY <1>1, <1>2, <1>4, <1>5 DEF StoreInv, StoreTypeOK, EntriesAgree
<1>7. SessionsAgree'
  <2> SUFFICES ASSUME NEW t \in open, t # s
               PROVE  subIds'[t] = {j \in entry' : t \in subscribers'[j]}
    BY <1>1 DEF SessionsAgree
  <2>1. \A j \in entry : j \notin entry' => subscribers[j] \subseteq {s}
    BY <1>1 DEF DropEmpty
  <2> QED
    BY <1>1, <1>2, <1>4, <2>1 DEF StoreInv, StoreTypeOK, SessionsAgree
<1> QED
  BY <1>2, <1>3, <1>6, <1>7 DEF StoreInv

LEMMA StoreKeeps ==
    ASSUME StoreInv, [StoreNext]_storeVars PROVE StoreInv'
<1>1. CASE StoreNext
  BY <1>1, AddKeeps, RemoveKeeps, CloseKeeps DEF StoreNext
<1>2. CASE UNCHANGED storeVars
  BY <1>2 DEF storeVars, StoreInv, StoreTypeOK, Fresh, SessionsAgree,
     EntriesAgree, AtlasAgrees
<1> QED
  BY <1>1, <1>2

(* The store's three records of a subscription agree after any sequence of *)
(* its commands (_addSubscription, _removeSubscription, _closeSession).    *)
THEOREM StoreAgrees == StoreSpec => []SubscriptionsAgree
<1>1. StoreInv /\ [StoreNext]_storeVars => StoreInv'
  BY StoreKeeps
<1>2. StoreInv => SubscriptionsAgree
  BY AgreeParts DEF StoreInv
<1> QED
  BY <1>1, <1>2, InvInit, PTL DEF StoreSpec
-----------------------------------------------------------------------------
(* What a handler carries to the store command it issues *)
Carries(r) ==
    /\ r.pc = "subscribe" => r.pattern \in Pattern
    /\ r.pc = "unsubscribe" => r.id \in SubId

HandlersOK ==
    /\ h = [s \in Session |-> h[s]]
    /\ \A s \in Session : Carries(h[s])

LEMMA GotoKeeps ==
    ASSUME HandlersOK, NEW s, NEW r, Carries(r), Goto(s, r)
    PROVE  HandlersOK'
<1>1. h' = [h EXCEPT ![s] = r]
  BY DEF Goto
<1>2. \A t \in Session : h'[t] = IF t = s THEN r ELSE h[t]
  BY <1>1 DEF HandlersOK
<1>3. h' = [t \in Session |-> h'[t]]
  BY <1>1 DEF HandlersOK
<1> QED
  BY <1>2, <1>3 DEF HandlersOK

LEMMA EndKeeps ==
    ASSUME HandlersOK, NEW s, NEW posts, End(s, posts)
    PROVE  HandlersOK'
<1>1. Carries([pc |-> "ended"]) /\ Goto(s, [pc |-> "ended"])
  BY DEF End, Carries
<1> QED
  BY <1>1, GotoKeeps

LEMMA HandlersInit == Init => HandlersOK
<1> SUFFICES ASSUME Init PROVE HandlersOK
  OBVIOUS
<1>1. h = [s \in Session |-> Idle]
  BY DEF Init
<1>2. Carries(Idle)
  BY DEF Carries, Idle
<1> QED
  BY <1>1, <1>2 DEF HandlersOK

LEMMA RequestKeeps ==
    ASSUME HandlersOK, NEW s \in Session, Request(s)
    PROVE  HandlersOK' /\ [StoreNext]_storeVars
<1>1. ASSUME NEW p \in Pattern, Subscribe(s, p)
      PROVE  HandlersOK' /\ UNCHANGED storeVars
  <2>1. Carries([pc |-> "subscribe", pattern |-> p])
    BY DEF Carries
  <2> QED
    BY <1>1, <2>1, GotoKeeps DEF Subscribe
<1>2. ASSUME NEW i \in SubId, Unsubscribe(s, i)
      PROVE  HandlersOK' /\ UNCHANGED storeVars
  <2> DEFINE r == [pc |-> "unsubscribe", id |-> i,
                   owns |-> i \in entry /\ s \in subscribers[i]]
  <2>1. Carries(r)
    BY DEF Carries
  <2>2. Goto(s, r) /\ UNCHANGED storeVars
    BY <1>2 DEF Unsubscribe
  <2> HIDE DEF r
  <2> QED
    BY <2>1, <2>2, GotoKeeps
<1>3. ASSUME NEW t \in Topic, NEW ack \in BOOLEAN, NEW custom \in Customs,
             Publish(s, t, ack, custom)
      PROVE  HandlersOK' /\ UNCHANGED storeVars
  <2> DEFINE r == [pc |-> "publish", topic |-> t, ack |-> ack, custom |-> custom]
  <2>1. Carries(r)
    BY DEF Carries
  <2>2. Goto(s, r) /\ UNCHANGED storeVars
    BY <1>3 DEF Publish
  <2> HIDE DEF r
  <2> QED
    BY <2>1, <2>2, GotoKeeps
<1>4. CASE Goodbye(s)
  BY <1>4, EndKeeps DEF Goodbye, StoreNext
<1> QED
  BY <1>1, <1>2, <1>3, <1>4 DEF Request

LEMMA HandleKeeps ==
    ASSUME HandlersOK, NEW s \in Session, Handle(s)
    PROVE  HandlersOK' /\ [StoreNext]_storeVars
<1>1. CASE Refused(s)
  BY <1>1, EndKeeps DEF Refused
<1>2. CASE SubscribeAdd(s)
  <2> DEFINE r == [pc |-> "subscribed", id |-> FindOrCreateSubscription(h[s].pattern)]
  <2>1. Carries(r)
    BY DEF Carries
  <2>2. Goto(s, r) /\ AddSubscription(s, h[s].pattern) /\ At(s, "subscribe")
    BY <1>2 DEF SubscribeAdd
  <2>3. h[s].pattern \in Pattern
    BY <2>2 DEF HandlersOK, Carries, At
  <2>4. StoreNext
    BY <2>2, <2>3 DEF StoreNext
  <2> HIDE DEF r
  <2> QED
    BY <2>1, <2>2, <2>4, GotoKeeps
<1>3. CASE SubscribeReply(s)
  BY <1>3, EndKeeps DEF SubscribeReply
<1>4. CASE UnsubscribeRemove(s)
  <2>1. Carries([pc |-> "unsubscribed"])
    BY DEF Carries
  <2>2. /\ Goto(s, [pc |-> "unsubscribed"])
        /\ RemoveSubscription(s, h[s].id) /\ At(s, "unsubscribe")
    BY <1>4 DEF UnsubscribeRemove
  <2>3. h[s].id \in SubId
    BY <2>2 DEF HandlersOK, Carries, At
  <2>4. StoreNext
    BY <2>2, <2>3 DEF StoreNext
  <2> QED
    BY <2>1, <2>2, <2>4, GotoKeeps
<1>5. CASE UnsubscribeReply(s)
  BY <1>5, EndKeeps DEF UnsubscribeReply
<1>6. ASSUME NEW skip \in SUBSET Session, PublishMatch(s, skip)
      PROVE  HandlersOK' /\ UNCHANGED storeVars
  <2>1. PICK ms :
          /\ Goto(s, [pc |-> "forward", pub |-> nextPub, ack |-> h[s].ack,
                      custom |-> h[s].custom, matches |-> ms])
          /\ UNCHANGED storeVars
    BY <1>6 DEF PublishMatch
  <2> DEFINE r == [pc |-> "forward", pub |-> nextPub, ack |-> h[s].ack,
                   custom |-> h[s].custom, matches |-> ms]
  <2>2. r.pc = "forward" /\ Goto(s, r)
    BY <2>1
  <2> HIDE DEF r
  <2>3. Carries(r)
    BY <2>2 DEF Carries
  <2> QED
    BY <2>1, <2>2, <2>3, GotoKeeps
<1>7. ASSUME NEW retained \in BOOLEAN, PublishForward(s, retained)
      PROVE  HandlersOK' /\ UNCHANGED storeVars
  <2>1. PICK posts : End(s, posts)
    BY <1>7 DEF PublishForward
  <2>2. UNCHANGED storeVars
    BY <1>7 DEF PublishForward
  <2> QED
    BY <2>1, <2>2, EndKeeps
<1> QED
  BY <1>1, <1>2, <1>3, <1>4, <1>5, <1>6, <1>7 DEF Handle

LEMMA BrokerStep ==
    ASSUME HandlersOK, [Next]_vars
    PROVE  HandlersOK' /\ [StoreNext]_storeVars
<1>1. ASSUME NEW s \in Session,
             Disconnect(s) \/ WorkerRemove(s) \/ WorkerSend(s)
      PROVE  HandlersOK' /\ [StoreNext]_storeVars
  <2>1. h' = h
    BY <1>1 DEF Disconnect, WorkerRemove, WorkerSend
  <2>2. [StoreNext]_storeVars
    BY <1>1 DEF Disconnect, WorkerRemove, WorkerSend, StoreNext
  <2> QED
    BY <2>1, <2>2 DEF HandlersOK
<1>2. CASE BossWrite \/ BossSendRejected \/ BossNativeRejected \/ BossForward
  <2>1. h' = h /\ UNCHANGED storeVars
    BY <1>2 DEF BossWrite, BossSendRejected, BossNativeRejected, BossForward
  <2> QED
    BY <2>1 DEF HandlersOK
<1>3. CASE BossReady
  <2>1. Carries(Idle)
    BY DEF Carries, Idle
  <2> QED
    BY <1>3, <2>1, GotoKeeps DEF BossReady
<1>4. CASE UNCHANGED vars
  <2>1. h' = h /\ UNCHANGED storeVars
    BY <1>4 DEF vars, brokerVars
  <2> QED
    BY <2>1 DEF HandlersOK
<1> QED
  BY <1>1, <1>2, <1>3, <1>4, RequestKeeps, HandleKeeps DEF Next, Boss

(* The broker's handlers, however they interleave, use the store as        *)
(* StoreSpec allows: the refinement mapping is the identity.               *)
THEOREM BrokerUsesStore == Spec => StoreSpec
<1>1. Init => StoreInit
  BY DEF Init
<1>2. HandlersOK /\ [Next]_vars => HandlersOK' /\ [StoreNext]_storeVars
  BY BrokerStep
<1> QED
  BY <1>1, <1>2, HandlersInit, PTL DEF Spec, StoreSpec

(* In every interleaving of SUBSCRIBE, UNSUBSCRIBE, PUBLISH and closing    *)
(* handlers the store's records of a subscription agree: none is left      *)
(* behind by a session that went while its handler waited.                 *)
THEOREM SubscriptionsAgreeHolds == Spec => []SubscriptionsAgree
BY BrokerUsesStore, StoreAgrees, PTL
-----------------------------------------------------------------------------
(* What is in the boss's port. *)
Subscribed == [type : {"subscribed"}, sub : SubId]
Message == Event \cup Published \cup Subscribed
PortEntry == [how : {"send", "native", "forward", "ready"}, to : Session,
              msg : Message \cup {Ready}]

BossTyped ==
    /\ boss \in Seq(PortEntry)
    /\ \A n \in DOMAIN boss :
          /\ boss[n].how \in {"send", "native"} => boss[n].msg \in Message
          /\ boss[n].how = "forward" => boss[n].msg \in Event
          /\ boss[n].how = "ready" => boss[n].msg = Ready

(* The types of ports, connections and ids; a worker is told to remove a   *)
(* connection when the boss has let it go.                                 *)
PortsTyped ==
    /\ BossTyped
    /\ cmds \in [Session -> Seq(Event \cup {RemoveCmd})]
    /\ wire \in [Session -> Seq(Event \cup Published)]
    /\ acked \in [Session -> SUBSET SubId]
    /\ nextPub \in 1..(MaxPub + 1)
    /\ connected \subseteq known /\ known \subseteq Session /\ open \subseteq known
    /\ \A s \in connected : \A n \in DOMAIN cmds[s] : cmds[s][n] # RemoveCmd

(* What a handler carries to the messages it posts. *)
Bears(r) ==
    /\ r.pc = "subscribed" => r.id \in SubId
    /\ r.pc = "forward" =>
          /\ r.pub \in PubId
          /\ \E k \in Nat : DOMAIN r.matches = 1..k
          /\ \A n \in DOMAIN r.matches :
                r.matches[n][1] \in SubId /\ r.matches[n][2] \in Session
          /\ \A m, n \in DOMAIN r.matches :
                r.matches[m][1] = r.matches[n][1] /\ r.matches[m][2] = r.matches[n][2]
                    => m = n

HandlersBear == \A s \in Session : Bears(h[s])

ReadyAt(n, s) == boss[n].how = "ready" /\ boss[n].to = s
SubscribedAt(n, s) ==
    /\ boss[n].how \in {"send", "native"} /\ boss[n].to = s
    /\ boss[n].msg.type = "subscribed"

(* A handler that ended has one ready event on its way, and its SUBSCRIBED *)
(* is before it.                                                           *)
ReadyOnce ==
    \A s \in Session :
        /\ At(s, "ended") => \E n \in DOMAIN boss : ReadyAt(n, s)
        /\ \A n \in DOMAIN boss : ReadyAt(n, s) =>
              At(s, "ended") /\ \A m \in DOMAIN boss : ReadyAt(m, s) => m = n
        /\ \A n \in DOMAIN boss : SubscribedAt(n, s) =>
              At(s, "ended") /\ \A m \in DOMAIN boss : ReadyAt(m, s) => n < m

(* What an open session was told, or is about to be told, is so. *)
Has(s, i) == i \in entry /\ s \in subscribers[i]
ToldTrue ==
    \A s \in open :
        /\ \A i \in acked[s] : Has(s, i)
        /\ \A n \in DOMAIN boss : SubscribedAt(n, s) => Has(s, boss[n].msg.sub)
        /\ At(s, "subscribed") => Has(s, h[s].id)
        /\ At(s, "unsubscribe") => h[s].id \notin acked[s]

(* The way of a message to session s, last part first: 0 is the            *)
(* connection, 1 the boss's port with s as the connection to write to, 2   *)
(* the port of its worker, 3 the boss's port on the way to that worker.    *)
Line(l, s) == IF l = 0 THEN wire[s] ELSE IF l = 2 THEN cmds[s] ELSE boss
Here(l, n, s) ==
    /\ l = 1 => boss[n].how \in {"send", "native"} /\ boss[n].to = s
    /\ l = 3 => boss[n].how = "forward" /\ boss[n].to = s
Msg(l, n, s) == IF l \in {1, 3} THEN boss[n].msg ELSE Line(l, s)[n]
Earlier(l, m, k, n) == l < k \/ (l = k /\ m < n)

(* What the connection may see in this order. *)
MayPrecede(e, f) ==
    /\ e.type = "event" /\ f.type = "event" =>
          /\ e.by = f.by /\ e.path = f.path => e.pub <= f.pub
          /\ e.sub # f.sub \/ e.pub # f.pub
    /\ e.type = "event" /\ f.type = "published" => e.pub # f.pub

(* All along its way what goes to a session is in order. *)
InLine ==
    \A s \in Session : \A l, k \in 0..3 :
        \A m \in DOMAIN Line(l, s), n \in DOMAIN Line(k, s) :
            Here(l, m, s) /\ Here(k, n, s) /\ Earlier(l, m, k, n)
                => MayPrecede(Msg(l, m, s), Msg(k, n, s))

(* The publication a handler has in hand is nowhere yet, and later than    *)
(* every other of its publisher; only EVENTs built in Dart pass a worker.  *)
PubsFresh ==
    /\ \A s \in Session : \A l \in 0..3 : \A n \in DOMAIN Line(l, s) :
          Here(l, n, s) /\ Msg(l, n, s).type \in {"event", "published"} =>
              /\ Msg(l, n, s).pub < nextPub
              /\ l \in {2, 3} => Msg(l, n, s).path = "dart"
              /\ \A b \in Session : At(b, "forward") =>
                    /\ Msg(l, n, s).pub # h[b].pub
                    /\ Msg(l, n, s).type = "event" /\ Msg(l, n, s).by = b =>
                          Msg(l, n, s).pub < h[b].pub
    /\ \A b \in Session : At(b, "forward") =>
          /\ h[b].pub < nextPub
          /\ \A c \in Session : At(c, "forward") /\ h[c].pub = h[b].pub => c = b

PortsInv == /\ HandlersBear /\ PortsTyped /\ ReadyOnce
            /\ ToldTrue /\ PubsFresh /\ InLine

BrokerInv == StoreInv /\ HandlersOK /\ PortsInv
-----------------------------------------------------------------------------
(* The store commands and the subscriptions a session has. *)
LEMMA AddGives ==
    ASSUME StoreInv, NEW s \in Session, NEW p \in Pattern, AddSubscription(s, p),
           NEW i, i = FindOrCreateSubscription(p)
    PROVE  /\ open' = open /\ s \in open
           /\ i \in SubId
           /\ Has(s, i)'
           /\ \A t \in Session, j \in SubId : Has(t, j) => Has(t, j)'
<1>1. i \in SubId
  BY DEF FindOrCreateSubscription, AddSubscription, StoreInv, StoreTypeOK, SubId, NoEntry
<1>2. /\ s \in open /\ open' = open
      /\ entry' = entry \cup {i}
      /\ subscribers' = [subscribers EXCEPT ![i] = @ \cup {s}]
  BY DEF AddSubscription
<1> QED
  BY <1>1, <1>2 DEF StoreInv, StoreTypeOK, Has

LEMMA RemoveTakesOne ==
    ASSUME StoreInv, NEW s \in Session, NEW i \in SubId, RemoveSubscription(s, i)
    PROVE  /\ open' = open
           /\ \A t \in Session, j \in SubId :
                 Has(t, j) /\ (t # s \/ j # i) => Has(t, j)'
<1>1. open' = open
  BY DEF RemoveSubscription
<1>2. SUFFICES ASSUME NEW t \in Session, NEW j \in SubId, Has(t, j), t # s \/ j # i
               PROVE  Has(t, j)'
  BY <1>1
<1>3. subscribers'[j] = IF j \in {i} \cap entry THEN subscribers[j] \ {s}
                                                ELSE subscribers[j]
  BY DEF RemoveSubscription, Leave
<1>4. entry' = entry \ {k \in {i} \cap entry : subscribers[k] \subseteq {s}}
  BY DEF RemoveSubscription, DropEmpty
<1> QED
  BY <1>2, <1>3, <1>4 DEF Has

LEMMA CloseTakesOwn ==
    ASSUME StoreInv, NEW s \in Session, CloseStoreSession(s)
    PROVE  /\ open' = open \ {s}
           /\ \A t \in Session \ {s}, j \in SubId : Has(t, j) => Has(t, j)'
<1> DEFINE ids == IF s \in open THEN subIds[s] \cap entry ELSE {}
<1>1. /\ open' = open \ {s}
      /\ Leave(s, ids) /\ DropEmpty(s, ids)
  BY DEF CloseStoreSession
<1> HIDE DEF ids
<1>2. SUFFICES ASSUME NEW t \in Session, t # s, NEW j \in SubId, Has(t, j)
               PROVE  Has(t, j)'
  BY <1>1
<1>3. subscribers'[j] = IF j \in ids THEN subscribers[j] \ {s} ELSE subscribers[j]
  BY <1>1 DEF Leave
<1>4. entry' = entry \ {k \in ids : subscribers[k] \subseteq {s}}
  BY <1>1 DEF DropEmpty
<1> QED
  BY <1>2, <1>3, <1>4 DEF Has

LEMMA GotoSets ==
    ASSUME HandlersOK, NEW s \in Session, NEW r, Goto(s, r)
    PROVE  /\ h'[s] = r
           /\ \A t \in Session \ {s} : h'[t] = h[t]
BY DEF Goto, HandlersOK

LEMMA GotoBears ==
    ASSUME HandlersOK, HandlersBear, NEW s \in Session, NEW r, Goto(s, r), Bears(r)
    PROVE  HandlersBear'
<1>1. \A t \in Session : h'[t] = r \/ h'[t] = h[t]
  BY GotoSets
<1> QED
  BY <1>1 DEF HandlersBear

LEMMA EndBears ==
    ASSUME HandlersOK, HandlersBear, NEW s \in Session, NEW posts, End(s, posts)
    PROVE  HandlersBear'
<1>1. Bears([pc |-> "ended"]) /\ Goto(s, [pc |-> "ended"])
  BY DEF End, Bears
<1> QED
  BY <1>1, GotoBears

LEMMA MatchedOnce ==
    ASSUME StoreTypeOK, NEW a, NEW b, a[1] \in SubId, a[2] \in Session,
           b[1] = a[1], b[2] = a[2]
    PROVE  ~MatchedBefore(a, b)
<1>1. PICK i \in SubId : a[1] = i /\ b[1] = i
  OBVIOUS
<1>2. PICK t \in Session : a[2] = t /\ b[2] = t
  OBVIOUS
<1>3. i \in Nat /\ t \in Nat
  BY BrokerAssumption DEF SubId
<1>4. pattern[i] \in Pattern
  BY DEF StoreTypeOK
<1>5. PICK k \in Nat : Rank[pattern[i]] = k
  BY <1>4, BrokerAssumption
<1> QED
  BY <1>1, <1>2, <1>3, <1>5 DEF MatchedBefore

(* _matchSubscriptions lists an entry and a subscriber once. *)
LEMMA MatchBears ==
    ASSUME StoreInv, HandlersOK, HandlersBear, nextPub \in 1..(MaxPub + 1),
           NEW s \in Session, NEW skip \in SUBSET Session, PublishMatch(s, skip)
    PROVE  /\ HandlersBear'
           /\ h'[s].pc = "forward" /\ h'[s].pub = nextPub
<1> DEFINE S == Recipients(h[s].topic, skip)
<1>1. PICK ms \in Listings(S, MatchedBefore) :
        Goto(s, [pc |-> "forward", pub |-> nextPub, ack |-> h[s].ack,
                 custom |-> h[s].custom, matches |-> ms])
  BY DEF PublishMatch
<1> DEFINE r == [pc |-> "forward", pub |-> nextPub, ack |-> h[s].ack,
                 custom |-> h[s].custom, matches |-> ms]
<1>2. S \subseteq SubId \X Session
  BY DEF Recipients, StoreInv, StoreTypeOK
<1>3. IsFiniteSet(S)
  <2>1. IsFiniteSet(SubId)
    BY FS_Interval DEF SubId
  <2> QED
    BY <1>2, <2>1, FS_Product, FS_Subset, BrokerAssumption
<1>4. Cardinality(S) \in Nat
  BY <1>3, FS_CardinalityType
<1>5. /\ ms \in [1..Cardinality(S) -> S]
      /\ \A m, n \in DOMAIN ms : m < n => MatchedBefore(ms[m], ms[n])
  BY DEF Listings
<1> HIDE DEF S
<1>6. \A n \in DOMAIN ms : ms[n][1] \in SubId /\ ms[n][2] \in Session
  BY <1>2, <1>5
<1>7. ASSUME NEW m \in DOMAIN ms, NEW n \in DOMAIN ms, m < n,
             ms[m][1] = ms[n][1], ms[m][2] = ms[n][2]
      PROVE  FALSE
  <2>1. MatchedBefore(ms[m], ms[n])
    BY <1>5, <1>7
  <2> QED
    BY <1>6, <1>7, <2>1, MatchedOnce DEF StoreInv
<1>8. \A m, n \in DOMAIN ms : ms[m][1] = ms[n][1] /\ ms[m][2] = ms[n][2] => m = n
  <2>1. DOMAIN ms \subseteq Nat
    BY <1>4, <1>5
  <2> QED
    BY <1>7, <2>1
<1>9. nextPub \in PubId
  BY BrokerAssumption DEF PublishMatch, PubId
<1>10. Bears(r)
  BY <1>4, <1>5, <1>6, <1>8, <1>9 DEF Bears
<1>11. h'[s] = r /\ r.pc = "forward" /\ r.pub = nextPub
  BY <1>1, GotoSets
<1> QED
  BY <1>1, <1>10, <1>11, GotoBears
-----------------------------------------------------------------------------
(* What a handler of s sends when it ends: a SUBSCRIBED that is true, or   *)
(* the PUBLISHED and the EVENTs, each once, of the publication in hand.    *)
PostsFit(s, posts) ==
    /\ posts \in Seq(PortEntry)
    /\ \A n \in DOMAIN posts :
          LET msg == posts[n].msg IN
          /\ \/ posts[n].how = "forward" /\ msg \in Event /\ msg.path = "dart"
             \/ posts[n].how = "native" /\ msg \in Event /\ msg.path = "native"
             \/ posts[n].how = "send" /\ msg \in Published \cup Subscribed
          /\ msg.type = "subscribed" =>
                posts[n].to = s /\ (s \in open => Has(s, msg.sub))
          /\ msg.type \in {"event", "published"} => At(s, "forward") /\ msg.pub = h[s].pub
          /\ msg.type = "event" => msg.by = s
    /\ \A m, n \in DOMAIN posts :
          posts[m].msg.type = "event" =>
              /\ m < n => posts[n].msg.type # "published"
              /\ /\ posts[n].msg.type = "event" /\ posts[m].to = posts[n].to
                 /\ posts[m].msg.sub = posts[n].msg.sub
                 => m = n

(* The entries of the boss's port after each kind of change. *)
LEMMA PopShifts ==
    ASSUME boss \in Seq(PortEntry), boss # <<>>, boss' = Tail(boss)
    PROVE  /\ boss' \in Seq(PortEntry)
           /\ Len(boss) \in Nat \ {0} /\ Len(boss') = Len(boss) - 1
           /\ DOMAIN boss = 1..Len(boss) /\ DOMAIN boss' = 1..(Len(boss) - 1)
           /\ Head(boss) = boss[1] /\ boss[1] \in PortEntry
           /\ \A n \in 1..(Len(boss) - 1) : boss'[n] = boss[n + 1]
OBVIOUS

LEMMA EndAppends ==
    ASSUME boss \in Seq(PortEntry), NEW s \in Session, NEW posts \in Seq(PortEntry),
           End(s, posts)
    PROVE  /\ boss' \in Seq(PortEntry)
           /\ Len(boss) \in Nat /\ Len(posts) \in Nat
           /\ DOMAIN boss = 1..Len(boss) /\ DOMAIN posts = 1..Len(posts)
           /\ DOMAIN boss' = 1..(Len(boss) + Len(posts) + 1)
           /\ \A n \in 1..Len(boss) : boss'[n] = boss[n]
           /\ \A n \in 1..Len(posts) : boss'[Len(boss) + n] = posts[n]
           /\ boss'[Len(boss) + Len(posts) + 1] = [how |-> "ready", to |-> s, msg |-> Ready]
<1> DEFINE e == [how |-> "ready", to |-> s, msg |-> Ready]
<1>1. e \in PortEntry
  BY DEF PortEntry
<1>2. boss' = boss \o posts \o <<e>>
  BY DEF End, Post
<1> HIDE DEF e
<1>3. boss \o posts \in Seq(PortEntry) /\ <<e>> \in Seq(PortEntry)
  BY <1>1
<1>4. /\ boss' \in Seq(PortEntry)
      /\ Len(boss') = Len(boss) + Len(posts) + 1
  BY <1>2, <1>3
<1>5. \A n \in 1..Len(boss) : boss'[n] = boss[n]
  BY <1>2, <1>3
<1>6. \A n \in 1..Len(posts) : boss'[Len(boss) + n] = posts[n]
  BY <1>2, <1>3
<1>7. boss'[Len(boss) + Len(posts) + 1] = e
  BY <1>2, <1>3
<1> QED
  BY <1>4, <1>5, <1>6, <1>7 DEF e

LEMMA SendAppends ==
    ASSUME boss \in Seq(PortEntry), NEW s \in Session, NEW msg \in Message,
           boss' = boss \o Post("send", s, msg)
    PROVE  /\ boss' \in Seq(PortEntry)
           /\ Len(boss) \in Nat
           /\ DOMAIN boss = 1..Len(boss) /\ DOMAIN boss' = 1..(Len(boss) + 1)
           /\ \A n \in 1..Len(boss) : boss'[n] = boss[n]
           /\ boss'[Len(boss) + 1] = [how |-> "send", to |-> s, msg |-> msg]
<1> DEFINE e == [how |-> "send", to |-> s, msg |-> msg]
<1>1. e \in PortEntry
  BY DEF PortEntry
<1>2. boss' = boss \o <<e>>
  BY DEF Post
<1> HIDE DEF e
<1>3. <<e>> \in Seq(PortEntry)
  BY <1>1
<1>4. boss' \in Seq(PortEntry) /\ Len(boss') = Len(boss) + 1
  <2>1. boss \o <<e>> \in Seq(PortEntry)
    BY <1>3
  <2>2. Len(boss \o <<e>>) = Len(boss) + Len(<<e>>)
    BY <1>3
  <2> QED
    BY <1>2, <2>1, <2>2
<1>5. \A n \in 1..Len(boss) : boss'[n] = boss[n]
  BY <1>2, <1>3
<1>6. boss'[Len(boss) + 1] = e
  BY <1>2, <1>3
<1> QED
  BY <1>4, <1>5, <1>6 DEF e
-----------------------------------------------------------------------------
(* Ready events *)
LEMMA ReadyStays ==
    ASSUME ReadyOnce, boss' = boss,
           \A t \in Session : (h'[t].pc = "ended") <=> (h[t].pc = "ended")
    PROVE  ReadyOnce'
BY DEF ReadyOnce, ReadyAt, SubscribedAt, At

LEMMA ReadyPops ==
    ASSUME ReadyOnce, boss \in Seq(PortEntry), boss # <<>>, Head(boss).how # "ready",
           boss' = Tail(boss), h' = h
    PROVE  ReadyOnce'
<1>1. /\ Len(boss) \in Nat \ {0} /\ boss[1].how # "ready"
      /\ DOMAIN boss = 1..Len(boss) /\ DOMAIN boss' = 1..(Len(boss) - 1)
      /\ \A n \in 1..(Len(boss) - 1) : boss'[n] = boss[n + 1]
  BY PopShifts
<1>2. \A t \in Session : \A n \in DOMAIN boss' :
        /\ n + 1 \in DOMAIN boss
        /\ ReadyAt(n, t)' <=> ReadyAt(n + 1, t)
        /\ SubscribedAt(n, t)' <=> SubscribedAt(n + 1, t)
  BY <1>1 DEF ReadyAt, SubscribedAt
<1>3. ASSUME NEW t \in Session, NEW n \in DOMAIN boss, ReadyAt(n, t)
      PROVE  n - 1 \in DOMAIN boss' /\ ReadyAt(n - 1, t)'
  <2>1. n # 1
    BY <1>1, <1>3 DEF ReadyAt
  <2> QED
    BY <1>1, <1>3, <2>1 DEF ReadyAt
<1> SUFFICES ASSUME NEW t \in Session
             PROVE  /\ At(t, "ended")' => \E n \in DOMAIN boss' : ReadyAt(n, t)'
                    /\ \A n \in DOMAIN boss' : ReadyAt(n, t)' =>
                          At(t, "ended")' /\ \A m \in DOMAIN boss' : ReadyAt(m, t)' => m = n
                    /\ \A n \in DOMAIN boss' : SubscribedAt(n, t)' =>
                          At(t, "ended")' /\ \A m \in DOMAIN boss' : ReadyAt(m, t)' => n < m
  BY DEF ReadyOnce
<1>4. At(t, "ended")' <=> At(t, "ended")
  BY DEF At
<1>5. At(t, "ended") => \E n \in DOMAIN boss' : ReadyAt(n, t)'
  BY <1>3 DEF ReadyOnce
<1>6. \A n \in DOMAIN boss' : ReadyAt(n, t)' =>
        At(t, "ended") /\ \A m \in DOMAIN boss' : ReadyAt(m, t)' => m = n
  BY <1>1, <1>2 DEF ReadyOnce
<1>7. \A n \in DOMAIN boss' : SubscribedAt(n, t)' =>
        At(t, "ended") /\ \A m \in DOMAIN boss' : ReadyAt(m, t)' => n < m
  BY <1>1, <1>2 DEF ReadyOnce
<1> QED
  BY <1>4, <1>5, <1>6, <1>7

LEMMA ReadyTaken ==
    ASSUME ReadyOnce, HandlersOK, boss \in Seq(PortEntry), BossReady
    PROVE  ReadyOnce'
<1>1. /\ boss # <<>> /\ boss' = Tail(boss) /\ Goto(Head(boss).to, Idle)
      /\ Head(boss).how = "ready"
  BY DEF BossReady
<1>2. /\ Len(boss) \in Nat \ {0} /\ Head(boss) = boss[1] /\ boss[1] \in PortEntry
      /\ DOMAIN boss = 1..Len(boss) /\ DOMAIN boss' = 1..(Len(boss) - 1)
      /\ \A n \in 1..(Len(boss) - 1) : boss'[n] = boss[n + 1]
  BY <1>1, PopShifts
<1>3. PICK c \in Session : Head(boss).to = c
  BY <1>2 DEF PortEntry
<1>4. h'[c] = Idle /\ \A t \in Session \ {c} : h'[t] = h[t]
  BY <1>1, <1>3, GotoSets
<1>5. \A t \in Session : \A n \in DOMAIN boss' :
        /\ n + 1 \in DOMAIN boss
        /\ ReadyAt(n, t)' <=> ReadyAt(n + 1, t)
        /\ SubscribedAt(n, t)' <=> SubscribedAt(n + 1, t)
  BY <1>2 DEF ReadyAt, SubscribedAt
<1>6. 1 \in DOMAIN boss /\ ReadyAt(1, c)
  BY <1>1, <1>2, <1>3 DEF ReadyAt
<1> SUFFICES ASSUME NEW t \in Session
             PROVE  /\ At(t, "ended")' => \E n \in DOMAIN boss' : ReadyAt(n, t)'
                    /\ \A n \in DOMAIN boss' : ReadyAt(n, t)' =>
                          At(t, "ended")' /\ \A m \in DOMAIN boss' : ReadyAt(m, t)' => m = n
                    /\ \A n \in DOMAIN boss' : SubscribedAt(n, t)' =>
                          At(t, "ended")' /\ \A m \in DOMAIN boss' : ReadyAt(m, t)' => n < m
  BY DEF ReadyOnce
<1>7. CASE t = c
  <2>1. \A n \in DOMAIN boss' : ~ReadyAt(n, t)' /\ ~SubscribedAt(n, t)'
    BY <1>2, <1>5, <1>6, <1>7 DEF ReadyOnce
  <2>2. ~At(t, "ended")'
    BY <1>4, <1>7 DEF At, Idle
  <2> QED
    BY <2>1, <2>2
<1>8. CASE t # c
  <2>1. At(t, "ended")' <=> At(t, "ended")
    BY <1>4, <1>8 DEF At
  <2>2. ASSUME NEW n \in DOMAIN boss, ReadyAt(n, t)
        PROVE  n - 1 \in DOMAIN boss' /\ ReadyAt(n - 1, t)'
    <3>1. n # 1
      BY <1>2, <1>3, <1>8, <2>2 DEF ReadyAt
    <3> QED
      BY <1>2, <2>2, <3>1 DEF ReadyAt
  <2>3. At(t, "ended") => \E n \in DOMAIN boss' : ReadyAt(n, t)'
    BY <2>2 DEF ReadyOnce
  <2>4. \A n \in DOMAIN boss' : ReadyAt(n, t)' =>
          At(t, "ended") /\ \A m \in DOMAIN boss' : ReadyAt(m, t)' => m = n
    BY <1>2, <1>5 DEF ReadyOnce
  <2>5. \A n \in DOMAIN boss' : SubscribedAt(n, t)' =>
          At(t, "ended") /\ \A m \in DOMAIN boss' : ReadyAt(m, t)' => n < m
    BY <1>2, <1>5 DEF ReadyOnce
  <2> QED
    BY <2>1, <2>3, <2>4, <2>5
<1> QED
  BY <1>7, <1>8

LEMMA ReadySends ==
    ASSUME ReadyOnce, boss \in Seq(PortEntry), NEW s \in Session, NEW e \in Event,
           boss' = boss \o Post("send", s, e), h' = h
    PROVE  ReadyOnce'
<1>1. e \in Message /\ e.type = "event"
  BY DEF Event, Message
<1>2. /\ Len(boss) \in Nat
      /\ DOMAIN boss = 1..Len(boss) /\ DOMAIN boss' = 1..(Len(boss) + 1)
      /\ \A n \in 1..Len(boss) : boss'[n] = boss[n]
      /\ boss'[Len(boss) + 1] = [how |-> "send", to |-> s, msg |-> e]
  BY <1>1, SendAppends
<1>3. \A t \in Session : \A n \in DOMAIN boss' :
        /\ ReadyAt(n, t)' <=> n \in DOMAIN boss /\ ReadyAt(n, t)
        /\ SubscribedAt(n, t)' <=> n \in DOMAIN boss /\ SubscribedAt(n, t)
  <2> SUFFICES ASSUME NEW t \in Session, NEW n \in DOMAIN boss'
               PROVE  /\ ReadyAt(n, t)' <=> n \in DOMAIN boss /\ ReadyAt(n, t)
                      /\ SubscribedAt(n, t)' <=> n \in DOMAIN boss /\ SubscribedAt(n, t)
    OBVIOUS
  <2>1. CASE n \in DOMAIN boss
    BY <1>2, <2>1 DEF ReadyAt, SubscribedAt
  <2>2. CASE n = Len(boss) + 1
    BY <1>1, <1>2, <2>2 DEF ReadyAt, SubscribedAt
  <2> QED
    BY <1>2, <2>1, <2>2
<1>4. DOMAIN boss \subseteq DOMAIN boss'
  BY <1>2
<1>5. \A t \in Session : At(t, "ended")' <=> At(t, "ended")
  BY DEF At
<1> QED
  BY <1>3, <1>4, <1>5 DEF ReadyOnce

LEMMA ReadyEnds ==
    ASSUME ReadyOnce, HandlersOK, boss \in Seq(PortEntry), NEW s \in Session,
           NEW posts, PostsFit(s, posts), h[s].pc # "ended", End(s, posts)
    PROVE  ReadyOnce'
<1>1. posts \in Seq(PortEntry)
  BY DEF PostsFit
<1> DEFINE last == Len(boss) + Len(posts) + 1
<1>2. /\ Len(boss) \in Nat /\ Len(posts) \in Nat
      /\ DOMAIN boss = 1..Len(boss) /\ DOMAIN posts = 1..Len(posts)
      /\ DOMAIN boss' = 1..last
      /\ \A n \in 1..Len(boss) : boss'[n] = boss[n]
      /\ \A n \in 1..Len(posts) : boss'[Len(boss) + n] = posts[n]
      /\ boss'[last] = [how |-> "ready", to |-> s, msg |-> Ready]
  BY <1>1, EndAppends
<1>3. h'[s].pc = "ended" /\ \A t \in Session \ {s} : h'[t] = h[t]
  BY GotoSets DEF End
<1>4. \A t \in Session : At(t, "ended")' <=> t = s \/ At(t, "ended")
  BY <1>3 DEF At
<1>5. ~At(s, "ended")
  BY DEF At
<1> HIDE DEF last
<1>6. \A t \in Session : \A n \in DOMAIN boss' :
        /\ ReadyAt(n, t)' <=> \/ n \in DOMAIN boss /\ ReadyAt(n, t)
                              \/ n = last /\ t = s
        /\ SubscribedAt(n, t)' => \/ n \in DOMAIN boss /\ SubscribedAt(n, t)
                                  \/ n # last /\ t = s
  <2> SUFFICES ASSUME NEW t \in Session, NEW n \in DOMAIN boss'
               PROVE  /\ ReadyAt(n, t)' <=> \/ n \in DOMAIN boss /\ ReadyAt(n, t)
                                            \/ n = last /\ t = s
                      /\ SubscribedAt(n, t)' => \/ n \in DOMAIN boss /\ SubscribedAt(n, t)
                                                \/ n # last /\ t = s
    OBVIOUS
  <2>1. CASE n \in DOMAIN boss
    BY <1>2, <2>1 DEF ReadyAt, SubscribedAt, last
  <2>2. CASE n = last
    BY <1>2, <2>2 DEF ReadyAt, SubscribedAt, last
  <2>3. CASE n \notin DOMAIN boss /\ n # last
    <3>1. n - Len(boss) \in DOMAIN posts /\ n = Len(boss) + (n - Len(boss))
      BY <1>2, <2>3 DEF last
    <3>2. PICK k \in DOMAIN posts : boss'[n] = posts[k]
      BY <1>2, <3>1
    <3>3. posts[k].how # "ready" /\ (posts[k].msg.type = "subscribed" => posts[k].to = s)
      BY DEF PostsFit
    <3> QED
      BY <2>3, <3>2, <3>3 DEF ReadyAt, SubscribedAt
  <2> QED
    BY <2>1, <2>2, <2>3
<1>7. /\ last \in DOMAIN boss' /\ last \notin DOMAIN boss
      /\ DOMAIN boss \subseteq DOMAIN boss'
      /\ \A n \in DOMAIN boss' : n # last => n < last
  <2>1. /\ Len(boss) \in Nat /\ Len(posts) \in Nat
        /\ DOMAIN boss = 1..Len(boss) /\ DOMAIN boss' = 1..last
    BY <1>2
  <2>2. last \in Nat /\ Len(boss) < last
    BY <2>1 DEF last
  <2> QED
    BY <2>1, <2>2
<1> SUFFICES ASSUME NEW t \in Session
             PROVE  /\ At(t, "ended")' => \E n \in DOMAIN boss' : ReadyAt(n, t)'
                    /\ \A n \in DOMAIN boss' : ReadyAt(n, t)' =>
                          At(t, "ended")' /\ \A m \in DOMAIN boss' : ReadyAt(m, t)' => m = n
                    /\ \A n \in DOMAIN boss' : SubscribedAt(n, t)' =>
                          At(t, "ended")' /\ \A m \in DOMAIN boss' : ReadyAt(m, t)' => n < m
  BY DEF ReadyOnce
<1>8. CASE t = s
  <2>1. \A n \in DOMAIN boss : ~ReadyAt(n, s) /\ ~SubscribedAt(n, s)
    BY <1>5 DEF ReadyOnce
  <2>2. \A n \in DOMAIN boss' : /\ ReadyAt(n, t)' <=> n = last
                                /\ SubscribedAt(n, t)' => n < last
    BY <1>6, <1>7, <1>8, <2>1
  <2> QED
    BY <1>4, <1>7, <1>8, <2>2
<1>9. CASE t # s
  <2>1. \A n \in DOMAIN boss' :
          /\ ReadyAt(n, t)' <=> n \in DOMAIN boss /\ ReadyAt(n, t)
          /\ SubscribedAt(n, t)' => n \in DOMAIN boss /\ SubscribedAt(n, t)
    BY <1>6, <1>9
  <2> QED
    BY <1>4, <1>7, <1>9, <2>1 DEF ReadyOnce
<1> QED
  BY <1>8, <1>9
-----------------------------------------------------------------------------
(* What sessions are told *)
LEMMA ToldKept ==
    ASSUME StoreInv, ToldTrue, acked' = acked, open' \subseteq open,
           \A t \in open' : \A i \in SubId : Has(t, i) => Has(t, i)',
           \A t \in open' : \/ h'[t] = h[t]
                            \/ h'[t].pc \notin {"subscribed", "unsubscribe"},
           \A t \in open' : \A n \in DOMAIN boss' :
               SubscribedAt(n, t)' => Has(t, boss'[n].msg.sub)
    PROVE  ToldTrue'
<1> SUFFICES ASSUME NEW t \in open'
             PROVE  /\ \A i \in acked'[t] : Has(t, i)'
                    /\ \A n \in DOMAIN boss' : SubscribedAt(n, t)' =>
                          boss'[n].msg.sub \in entry' /\ t \in subscribers'[boss'[n].msg.sub]
                    /\ At(t, "subscribed")' => h'[t].id \in entry' /\ t \in subscribers'[h'[t].id]
                    /\ At(t, "unsubscribe")' => h'[t].id \notin acked'[t]
  BY DEF ToldTrue, Has
<1>1. \A i : Has(t, i) => i \in entry' /\ t \in subscribers'[i]
  BY DEF Has, StoreInv, StoreTypeOK
<1>2. t \in open
  OBVIOUS
<1>3. \A i \in acked'[t] : Has(t, i)'
  BY <1>1, <1>2 DEF ToldTrue, Has
<1>4. \A n \in DOMAIN boss' : SubscribedAt(n, t)' =>
        boss'[n].msg.sub \in entry' /\ t \in subscribers'[boss'[n].msg.sub]
  BY <1>1
<1>5. At(t, "subscribed")' => h'[t].id \in entry' /\ t \in subscribers'[h'[t].id]
  BY <1>1, <1>2 DEF ToldTrue, At
<1>6. At(t, "unsubscribe")' => h'[t].id \notin acked'[t]
  BY <1>2 DEF ToldTrue, At
<1> QED
  BY <1>3, <1>4, <1>5, <1>6

LEMMA ToldEnds ==
    ASSUME StoreInv, ToldTrue, HandlersOK, boss \in Seq(PortEntry), NEW s \in Session,
           NEW posts, PostsFit(s, posts), End(s, posts),
           acked' = acked, open' \subseteq open,
           \A t \in open' : \A i \in SubId : Has(t, i) => Has(t, i)'
    PROVE  ToldTrue'
<1>1. posts \in Seq(PortEntry)
  BY DEF PostsFit
<1>2. /\ Len(boss) \in Nat /\ Len(posts) \in Nat
      /\ DOMAIN boss = 1..Len(boss) /\ DOMAIN posts = 1..Len(posts)
      /\ DOMAIN boss' = 1..(Len(boss) + Len(posts) + 1)
      /\ \A n \in 1..Len(boss) : boss'[n] = boss[n]
      /\ \A n \in 1..Len(posts) : boss'[Len(boss) + n] = posts[n]
      /\ boss'[Len(boss) + Len(posts) + 1] = [how |-> "ready", to |-> s, msg |-> Ready]
  BY <1>1, EndAppends
<1>3. h'[s].pc = "ended" /\ \A t \in Session \ {s} : h'[t] = h[t]
  BY GotoSets DEF End
<1>4. ASSUME NEW t \in open', NEW n \in DOMAIN boss', SubscribedAt(n, t)'
      PROVE  Has(t, boss'[n].msg.sub)
  <2>1. CASE n \in DOMAIN boss
    BY <1>2, <1>4, <2>1 DEF SubscribedAt, ToldTrue
  <2>2. CASE n = Len(boss) + Len(posts) + 1
    BY <1>2, <1>4, <2>2 DEF SubscribedAt
  <2>3. CASE n \notin DOMAIN boss /\ n # Len(boss) + Len(posts) + 1
    <3>1. n - Len(boss) \in DOMAIN posts /\ n = Len(boss) + (n - Len(boss))
      BY <1>2, <2>3
    <3>2. PICK k \in DOMAIN posts : boss'[n] = posts[k]
      BY <1>2, <3>1
    <3>3. posts[k].msg.type = "subscribed" =>
            posts[k].to = s /\ (s \in open => Has(s, posts[k].msg.sub))
      BY DEF PostsFit
    <3> QED
      BY <1>4, <3>2, <3>3 DEF SubscribedAt
  <2> QED
    BY <2>1, <2>2, <2>3
<1>5. \A t \in open' : h'[t] = h[t] \/ h'[t].pc \notin {"subscribed", "unsubscribe"}
  BY <1>3 DEF StoreInv, StoreTypeOK
<1> QED
  BY <1>4, <1>5, ToldKept

LEMMA ToldPops ==
    ASSUME StoreInv, ToldTrue, HandlersOK, boss \in Seq(PortEntry), boss # <<>>,
           boss' = Tail(boss), acked' = acked, UNCHANGED storeVars,
           h' = h \/ BossReady
    PROVE  ToldTrue'
<1>1. /\ Len(boss) \in Nat \ {0} /\ Head(boss) = boss[1] /\ boss[1] \in PortEntry
      /\ DOMAIN boss = 1..Len(boss) /\ DOMAIN boss' = 1..(Len(boss) - 1)
      /\ \A n \in 1..(Len(boss) - 1) : boss'[n] = boss[n + 1]
  BY PopShifts
<1>2. open' = open /\ \A t \in open' : \A i \in SubId : Has(t, i) => Has(t, i)'
  BY DEF storeVars, Has
<1>3. \A t \in open' : h'[t] = h[t] \/ h'[t].pc \notin {"subscribed", "unsubscribe"}
  <2>1. CASE h' = h
    BY <2>1
  <2>2. CASE BossReady
    <3>1. Head(boss).to \in Session
      BY <1>1 DEF PortEntry
    <3>2. \A t \in Session : h'[t] = Idle \/ h'[t] = h[t]
      BY <2>2, <3>1, GotoSets DEF BossReady
    <3> QED
      BY <1>2, <3>2 DEF Idle, StoreInv, StoreTypeOK
  <2> QED
    BY <2>1, <2>2
<1>4. \A t \in open' : \A n \in DOMAIN boss' :
         SubscribedAt(n, t)' => Has(t, boss'[n].msg.sub)
  BY <1>1, <1>2 DEF SubscribedAt, ToldTrue
<1> QED
  BY <1>2, <1>3, <1>4, ToldKept

LEMMA ToldWrites ==
    ASSUME StoreInv, ToldTrue, ReadyOnce, HandlersOK, boss \in Seq(PortEntry),
           acked \in [Session -> SUBSET SubId],
           BossWrite, acked' # acked
    PROVE  ToldTrue'
<1>1. /\ boss # <<>> /\ boss' = Tail(boss) /\ h' = h /\ UNCHANGED storeVars
      /\ Head(boss).how \in {"send", "native"}
  BY DEF BossWrite
<1>2. /\ Len(boss) \in Nat \ {0} /\ Head(boss) = boss[1] /\ boss[1] \in PortEntry
      /\ DOMAIN boss = 1..Len(boss) /\ DOMAIN boss' = 1..(Len(boss) - 1)
      /\ \A n \in 1..(Len(boss) - 1) : boss'[n] = boss[n + 1]
  BY <1>1, PopShifts
<1>3. PICK c \in Session : boss[1].to = c
  BY <1>2 DEF PortEntry
<1>4. /\ boss[1].msg.type = "subscribed"
      /\ acked' = [acked EXCEPT ![c] = @ \cup {boss[1].msg.sub}]
  BY <1>2, <1>3 DEF BossWrite
<1>5. 1 \in DOMAIN boss /\ SubscribedAt(1, c)
  BY <1>1, <1>2, <1>3, <1>4 DEF SubscribedAt
<1>6. At(c, "ended")
  BY <1>5 DEF ReadyOnce
<1>7. c \in open => Has(c, boss[1].msg.sub)
  BY <1>5 DEF ToldTrue
<1>8. open' = open /\ \A t, i : Has(t, i)' <=> Has(t, i)
  BY <1>1 DEF storeVars, Has
<1> SUFFICES ASSUME NEW t \in open
             PROVE  /\ \A i \in acked'[t] : Has(t, i)
                    /\ \A n \in DOMAIN boss' : SubscribedAt(n, t)' => Has(t, boss'[n].msg.sub)
                    /\ At(t, "subscribed") => Has(t, h[t].id)
                    /\ At(t, "unsubscribe") => h[t].id \notin acked'[t]
  BY <1>1, <1>8 DEF ToldTrue, Has, At
<1>9. t \in Session
  BY DEF StoreInv, StoreTypeOK
<1>10. acked'[t] = IF t = c THEN acked[t] \cup {boss[1].msg.sub} ELSE acked[t]
  BY <1>4, <1>9
<1>11. \A i \in acked'[t] : Has(t, i)
  BY <1>7, <1>10 DEF ToldTrue
<1>12. \A n \in DOMAIN boss' : SubscribedAt(n, t)' => Has(t, boss'[n].msg.sub)
  BY <1>2 DEF SubscribedAt, ToldTrue
<1>13. At(t, "subscribed") => Has(t, h[t].id)
  BY DEF ToldTrue
<1>14. At(t, "unsubscribe") => h[t].id \notin acked'[t]
  BY <1>6, <1>10 DEF ToldTrue, At
<1> QED
  BY <1>11, <1>12, <1>13, <1>14

LEMMA ToldSends ==
    ASSUME StoreInv, ToldTrue, boss \in Seq(PortEntry), NEW s \in Session, NEW e \in Event,
           boss' = boss \o Post("send", s, e), h' = h, acked' = acked, UNCHANGED storeVars
    PROVE  ToldTrue'
<1>1. e \in Message /\ e.type = "event"
  BY DEF Event, Message
<1>2. /\ Len(boss) \in Nat
      /\ DOMAIN boss = 1..Len(boss) /\ DOMAIN boss' = 1..(Len(boss) + 1)
      /\ \A n \in 1..Len(boss) : boss'[n] = boss[n]
      /\ boss'[Len(boss) + 1] = [how |-> "send", to |-> s, msg |-> e]
  BY <1>1, SendAppends
<1>3. open' = open /\ \A t \in open' : \A i \in SubId : Has(t, i) => Has(t, i)'
  BY DEF storeVars, Has
<1>4. ASSUME NEW t \in open', NEW n \in DOMAIN boss', SubscribedAt(n, t)'
      PROVE  Has(t, boss'[n].msg.sub)
  <2>1. CASE n \in DOMAIN boss
    BY <1>2, <1>3, <1>4, <2>1 DEF SubscribedAt, ToldTrue
  <2>2. CASE n = Len(boss) + 1
    BY <1>1, <1>2, <1>4, <2>2 DEF SubscribedAt
  <2> QED
    BY <1>2, <2>1, <2>2
<1> QED
  BY <1>3, <1>4, ToldKept

(* A step of a handler, or the end of a session, with the port as it was. *)
LEMMA ToldStays ==
    ASSUME StoreInv, ToldTrue, boss' = boss, acked' = acked, open' \subseteq open,
           \A t \in open' : \A i \in SubId : Has(t, i) => Has(t, i)',
           \A t \in open' : \/ h'[t] = h[t]
                            \/ h'[t].pc \notin {"subscribed", "unsubscribe"}
    PROVE  ToldTrue'
<1>1. \A t \in open' : \A n \in DOMAIN boss' :
         SubscribedAt(n, t)' => Has(t, boss'[n].msg.sub)
  BY DEF SubscribedAt, ToldTrue
<1> QED
  BY <1>1, ToldKept

LEMMA ToldAdds ==
    ASSUME StoreInv, ToldTrue, HandlersOK, NEW s \in Session, SubscribeAdd(s)
    PROVE  ToldTrue' /\ HandlersOK' /\ h[s].pc = "subscribe" /\ h'[s].pc = "subscribed"
           /\ h'[s].id \in SubId /\ \A t \in Session \ {s} : h'[t] = h[t]
<1>1. PICK i : i = FindOrCreateSubscription(h[s].pattern)
  OBVIOUS
<1>2. /\ h[s].pc = "subscribe" /\ AddSubscription(s, h[s].pattern)
      /\ Goto(s, [pc |-> "subscribed", id |-> i])
      /\ boss' = boss /\ acked' = acked
  BY <1>1 DEF SubscribeAdd, At
<1>3. h[s].pattern \in Pattern
  BY <1>2 DEF HandlersOK, Carries
<1>4. /\ open' = open /\ s \in open /\ i \in SubId /\ Has(s, i)'
      /\ \A t \in Session, j \in SubId : Has(t, j) => Has(t, j)'
  BY <1>1, <1>2, <1>3, AddGives
<1>5. /\ h'[s] = [pc |-> "subscribed", id |-> i]
      /\ \A t \in Session \ {s} : h'[t] = h[t]
  BY <1>2, GotoSets
<1>6. HandlersOK'
  BY <1>2, GotoKeeps DEF Carries
<1>7. ASSUME NEW t \in open
      PROVE  /\ \A j \in acked'[t] : Has(t, j)'
             /\ \A n \in DOMAIN boss' : SubscribedAt(n, t)' =>
                   boss'[n].msg.sub \in entry' /\ t \in subscribers'[boss'[n].msg.sub]
             /\ At(t, "subscribed")' => h'[t].id \in entry' /\ t \in subscribers'[h'[t].id]
             /\ At(t, "unsubscribe")' => h'[t].id \notin acked'[t]
  <2>1. t \in Session /\ \A j : Has(t, j) => j \in entry' /\ t \in subscribers'[j]
    BY <1>4 DEF StoreInv, StoreTypeOK, Has
  <2>2. \A j \in acked'[t] : Has(t, j)'
    BY <1>2, <2>1 DEF ToldTrue, Has
  <2>3. \A n \in DOMAIN boss' : SubscribedAt(n, t)' =>
          boss'[n].msg.sub \in entry' /\ t \in subscribers'[boss'[n].msg.sub]
    BY <1>2, <2>1 DEF ToldTrue, SubscribedAt
  <2>4. CASE t = s
    BY <1>4, <1>5, <2>2, <2>3, <2>4 DEF At, Has
  <2>5. CASE t # s
    BY <1>2, <1>5, <2>1, <2>2, <2>3, <2>5 DEF At, ToldTrue
  <2> QED
    BY <2>4, <2>5
<1>8. ToldTrue'
  BY <1>4, <1>7 DEF ToldTrue, Has
<1> QED
  BY <1>2, <1>4, <1>5, <1>6, <1>8

LEMMA ToldAsks ==
    ASSUME StoreInv, ToldTrue, HandlersOK, acked \in [Session -> SUBSET SubId],
           NEW s \in Session, NEW i \in SubId, Unsubscribe(s, i)
    PROVE  ToldTrue'
<1>1. /\ h'[s].pc = "unsubscribe" /\ h'[s].id = i
      /\ \A t \in Session \ {s} : h'[t] = h[t]
  BY GotoSets DEF Unsubscribe
<1>2. /\ boss' = boss /\ UNCHANGED storeVars
      /\ \A t \in Session : acked'[t] = IF t = s THEN acked[t] \ {i} ELSE acked[t]
  BY DEF Unsubscribe
<1>3. open' = open /\ \A t, j : Has(t, j)' <=> Has(t, j)
  BY <1>2 DEF storeVars, Has
<1> SUFFICES ASSUME NEW t \in open
             PROVE  /\ \A j \in acked'[t] : Has(t, j)
                    /\ \A n \in DOMAIN boss : SubscribedAt(n, t) => Has(t, boss[n].msg.sub)
                    /\ h'[t].pc = "subscribed" => Has(t, h'[t].id)
                    /\ h'[t].pc = "unsubscribe" => h'[t].id \notin acked'[t]
  BY <1>2, <1>3 DEF ToldTrue, Has, At, SubscribedAt
<1>4. t \in Session
  BY DEF StoreInv, StoreTypeOK
<1> QED
  BY <1>1, <1>2, <1>4 DEF ToldTrue, At

LEMMA ToldRemoves ==
    ASSUME StoreInv, ToldTrue, ReadyOnce, HandlersOK, NEW s \in Session,
           UnsubscribeRemove(s)
    PROVE  ToldTrue'
<1>1. /\ h[s].pc = "unsubscribe" /\ RemoveSubscription(s, h[s].id)
      /\ Goto(s, [pc |-> "unsubscribed"])
      /\ boss' = boss /\ acked' = acked
  BY DEF UnsubscribeRemove, At
<1>2. h[s].id \in SubId
  BY <1>1 DEF HandlersOK, Carries
<1>3. /\ open' = open
      /\ \A t \in Session, j \in SubId :
            Has(t, j) /\ (t # s \/ j # h[s].id) => Has(t, j)'
  BY <1>1, <1>2, RemoveTakesOne
<1>4. h'[s].pc = "unsubscribed" /\ \A t \in Session \ {s} : h'[t] = h[t]
  BY <1>1, GotoSets
<1>5. ASSUME NEW t \in open
      PROVE  /\ \A j \in acked'[t] : Has(t, j)'
             /\ \A n \in DOMAIN boss' : SubscribedAt(n, t)' =>
                   boss'[n].msg.sub \in entry' /\ t \in subscribers'[boss'[n].msg.sub]
             /\ At(t, "subscribed")' => h'[t].id \in entry' /\ t \in subscribers'[h'[t].id]
             /\ At(t, "unsubscribe")' => h'[t].id \notin acked'[t]
  <2>1. /\ t \in Session
        /\ \A j : Has(t, j) /\ (t # s \/ j # h[s].id) =>
              j \in entry' /\ t \in subscribers'[j]
    BY <1>3 DEF StoreInv, StoreTypeOK, Has
  <2>2. CASE t = s
    <3>1. h[s].id \notin acked[s]
      BY <1>1, <2>2 DEF ToldTrue, At
    <3>2. \A n \in DOMAIN boss' : ~SubscribedAt(n, t)'
      BY <1>1, <2>2 DEF ReadyOnce, SubscribedAt, At
    <3>3. \A j \in acked'[t] : Has(t, j)'
      BY <1>1, <2>1, <2>2, <3>1 DEF ToldTrue, Has
    <3> QED
      BY <1>4, <2>2, <3>2, <3>3 DEF At
  <2>3. CASE t # s
    <3>1. \A j \in acked'[t] : Has(t, j)'
      BY <1>1, <2>1, <2>3 DEF ToldTrue, Has
    <3>2. \A n \in DOMAIN boss' : SubscribedAt(n, t)' =>
            boss'[n].msg.sub \in entry' /\ t \in subscribers'[boss'[n].msg.sub]
      BY <1>1, <2>1, <2>3 DEF ToldTrue, SubscribedAt
    <3> QED
      BY <1>1, <1>4, <2>1, <2>3, <3>1, <3>2 DEF At, ToldTrue
  <2> QED
    BY <2>2, <2>3
<1> QED
  BY <1>3, <1>5 DEF ToldTrue, Has
-----------------------------------------------------------------------------
(* Types *)
LEMMA TypedPops ==
    ASSUME BossTyped, boss # <<>>, boss' = Tail(boss)
    PROVE  /\ BossTyped'
           /\ Head(boss).to \in Session
           /\ Head(boss).how \in {"send", "native"} => Head(boss).msg \in Message
           /\ Head(boss).how = "forward" => Head(boss).msg \in Event
           /\ Head(boss).how = "ready" => Head(boss).msg = Ready
<1>1. boss \in Seq(PortEntry)
  BY DEF BossTyped
<1>2. /\ boss' \in Seq(PortEntry)
      /\ Len(boss) \in Nat \ {0} /\ Head(boss) = boss[1] /\ boss[1] \in PortEntry
      /\ DOMAIN boss = 1..Len(boss) /\ DOMAIN boss' = 1..(Len(boss) - 1)
      /\ \A n \in 1..(Len(boss) - 1) : boss'[n] = boss[n + 1]
  BY <1>1, PopShifts
<1>3. BossTyped'
  BY <1>2 DEF BossTyped
<1>4. Head(boss).to \in Session
  BY <1>2 DEF PortEntry
<1> QED
  BY <1>2, <1>3, <1>4 DEF BossTyped

LEMMA TypedEnds ==
    ASSUME BossTyped, NEW s \in Session, NEW posts, PostsFit(s, posts), End(s, posts)
    PROVE  BossTyped'
<1>1. posts \in Seq(PortEntry) /\ boss \in Seq(PortEntry)
  BY DEF PostsFit, BossTyped
<1>2. /\ boss' \in Seq(PortEntry)
      /\ Len(boss) \in Nat /\ Len(posts) \in Nat
      /\ DOMAIN boss = 1..Len(boss) /\ DOMAIN posts = 1..Len(posts)
      /\ DOMAIN boss' = 1..(Len(boss) + Len(posts) + 1)
      /\ \A n \in 1..Len(boss) : boss'[n] = boss[n]
      /\ \A n \in 1..Len(posts) : boss'[Len(boss) + n] = posts[n]
      /\ boss'[Len(boss) + Len(posts) + 1] = [how |-> "ready", to |-> s, msg |-> Ready]
  BY <1>1, EndAppends
<1>3. ASSUME NEW n \in DOMAIN boss'
      PROVE  /\ boss'[n].how \in {"send", "native"} => boss'[n].msg \in Message
             /\ boss'[n].how = "forward" => boss'[n].msg \in Event
             /\ boss'[n].how = "ready" => boss'[n].msg = Ready
  <2>1. CASE n \in DOMAIN boss
    BY <1>2, <2>1 DEF BossTyped
  <2>2. CASE n = Len(boss) + Len(posts) + 1
    BY <1>2, <2>2
  <2>3. CASE n \notin DOMAIN boss /\ n # Len(boss) + Len(posts) + 1
    <3>1. n - Len(boss) \in DOMAIN posts /\ n = Len(boss) + (n - Len(boss))
      BY <1>2, <2>3
    <3>2. PICK k \in DOMAIN posts : boss'[n] = posts[k]
      BY <1>2, <3>1
    <3> QED
      BY <3>2 DEF PostsFit, Message
  <2> QED
    BY <2>1, <2>2, <2>3
<1> QED
  BY <1>2, <1>3 DEF BossTyped

LEMMA TypedSends ==
    ASSUME BossTyped, NEW s \in Session, NEW e \in Event, boss' = boss \o Post("send", s, e)
    PROVE  BossTyped'
<1>1. e \in Message /\ boss \in Seq(PortEntry)
  BY DEF Message, BossTyped
<1>2. /\ boss' \in Seq(PortEntry)
      /\ Len(boss) \in Nat
      /\ DOMAIN boss = 1..Len(boss) /\ DOMAIN boss' = 1..(Len(boss) + 1)
      /\ \A n \in 1..Len(boss) : boss'[n] = boss[n]
      /\ boss'[Len(boss) + 1] = [how |-> "send", to |-> s, msg |-> e]
  BY <1>1, SendAppends
<1>3. ASSUME NEW n \in DOMAIN boss'
      PROVE  /\ boss'[n].how \in {"send", "native"} => boss'[n].msg \in Message
             /\ boss'[n].how = "forward" => boss'[n].msg \in Event
             /\ boss'[n].how = "ready" => boss'[n].msg = Ready
  <2>1. CASE n \in DOMAIN boss
    BY <1>2, <2>1 DEF BossTyped
  <2>2. CASE n = Len(boss) + 1
    BY <1>1, <1>2, <2>2
  <2> QED
    BY <1>2, <2>1, <2>2
<1> QED
  BY <1>2, <1>3 DEF BossTyped

LEMMA NothingFits ==
    ASSUME NEW s PROVE PostsFit(s, <<>>)
BY DEF PostsFit

LEMMA SubscribedFits ==
    ASSUME HandlersBear, ToldTrue, NEW s \in Session, At(s, "subscribed")
    PROVE  PostsFit(s, Post("send", s, [type |-> "subscribed", sub |-> h[s].id]))
<1> DEFINE msg == [type |-> "subscribed", sub |-> h[s].id]
           post == [how |-> "send", to |-> s, msg |-> msg]
<1>1. h[s].id \in SubId
  BY DEF HandlersBear, Bears, At
<1>2. msg \in Subscribed /\ msg.type = "subscribed" /\ msg.sub = h[s].id
  BY <1>1 DEF Subscribed
<1>3. s \in open => Has(s, h[s].id)
  BY DEF ToldTrue
<1> HIDE DEF msg
<1>4. post \in PortEntry
  BY <1>2 DEF PortEntry, Message
<1>5. <<post>> \in Seq(PortEntry) /\ DOMAIN <<post>> = {1} /\ <<post>>[1] = post
  BY <1>4
<1>6. post.how = "send" /\ post.to = s /\ post.msg = msg
  OBVIOUS
<1> HIDE DEF post
<1>7. PostsFit(s, <<post>>)
  BY <1>2, <1>3, <1>5, <1>6 DEF PostsFit
<1> QED
  BY <1>7 DEF post, msg, Post

(* The EVENT for a match, whichever way it goes. *)
LEMMA EventFits ==
    ASSUME NEW s \in Session, HandlersBear, At(s, "forward"),
           NEW j \in DOMAIN h[s].matches, NEW native \in BOOLEAN,
           NEW e, e = EventPost(s, j, native)
    PROVE  /\ e \in PortEntry /\ e.to = h[s].matches[j][2]
           /\ \/ e.how = "forward" /\ e.msg.path = "dart"
              \/ e.how = "native" /\ e.msg.path = "native"
           /\ e.msg \in Event /\ e.msg.type = "event" /\ e.msg.by = s
           /\ e.msg.sub = h[s].matches[j][1] /\ e.msg.pub = h[s].pub
<1>1. /\ h[s].pub \in PubId
      /\ h[s].matches[j][1] \in SubId /\ h[s].matches[j][2] \in Session
  BY DEF HandlersBear, Bears, At
<1> DEFINE msg == [type |-> "event", sub |-> h[s].matches[j][1], pub |-> h[s].pub,
                   by |-> s, path |-> IF native THEN "native" ELSE "dart"]
<1>2. /\ msg \in Event /\ msg.type = "event" /\ msg.by = s
      /\ msg.sub = h[s].matches[j][1] /\ msg.pub = h[s].pub
      /\ msg.path = IF native THEN "native" ELSE "dart"
  BY <1>1 DEF Event
<1>3. e = [how |-> IF native THEN "native" ELSE "forward",
           to |-> h[s].matches[j][2], msg |-> msg]
  BY DEF EventPost, Post
<1> HIDE DEF msg
<1>4. /\ e.how = IF native THEN "native" ELSE "forward"
      /\ e.to = h[s].matches[j][2] /\ e.msg = msg
  BY <1>3
<1>5. e \in PortEntry
  BY <1>1, <1>2, <1>3 DEF PortEntry, Message
<1> QED
  BY <1>2, <1>4, <1>5

LEMMA AcknowledgementFits ==
    ASSUME NEW s \in Session, HandlersBear, At(s, "forward"), NEW ack,
           ack = Acknowledgement(s)
    PROVE  /\ ack \in Seq(PortEntry) /\ Len(ack) \in 0..1 /\ DOMAIN ack = 1..Len(ack)
           /\ \A n \in DOMAIN ack :
                 /\ ack[n].how = "send" /\ ack[n].msg \in Published
                 /\ ack[n].msg.type = "published" /\ ack[n].msg.pub = h[s].pub
<1> DEFINE msg == [type |-> "published", pub |-> h[s].pub]
           post == [how |-> "send", to |-> s, msg |-> msg]
<1>1. msg \in Published /\ msg.type = "published" /\ msg.pub = h[s].pub
  BY DEF HandlersBear, Bears, At, Published
<1>2. ack = <<>> \/ ack = <<post>>
  BY DEF Acknowledgement, Post
<1> HIDE DEF msg
<1>3. post \in PortEntry /\ post.how = "send" /\ post.msg = msg
  BY <1>1 DEF PortEntry, Message
<1> HIDE DEF post
<1>4. CASE ack = <<>>
  BY <1>4
<1>5. CASE ack = <<post>>
  <2>1. ack \in Seq(PortEntry) /\ Len(ack) = 1 /\ DOMAIN ack = 1..1 /\ ack[1] = post
    BY <1>3, <1>5
  <2>2. \A n \in DOMAIN ack : n = 1
    BY <2>1
  <2> QED
    BY <1>1, <1>3, <2>1, <2>2
<1> QED
  BY <1>2, <1>4, <1>5

LEMMA PublicationFits ==
    ASSUME HandlersBear, NEW s \in Session, NEW retained \in BOOLEAN,
           PublishForward(s, retained)
    PROVE  \E posts :
              /\ End(s, posts) /\ PostsFit(s, posts)
              /\ \A j \in DOMAIN h[s].matches : \E n \in DOMAIN posts :
                    /\ posts[n].to = h[s].matches[j][2] /\ posts[n].msg.type = "event"
                    /\ posts[n].msg.sub = h[s].matches[j][1]
                    /\ posts[n].msg.pub = h[s].pub
<1> DEFINE before(m, n) ==
              \/ IsNative(s, m) = IsNative(s, n) /\ m < n
              \/ IsNative(s, m) # IsNative(s, n) /\ IsNative(s, m) = retained
           ev(q) == [n \in DOMAIN q |-> EventPost(s, q[n], retained /\ IsNative(s, q[n]))]
<1>1. At(s, "forward")
  BY DEF PublishForward
<1>2. PICK q : /\ q \in Listings(DOMAIN h[s].matches, before)
               /\ End(s, Acknowledgement(s) \o ev(q))
  BY DEF PublishForward
<1>3. PICK k \in Nat : DOMAIN h[s].matches = 1..k
  BY <1>1 DEF HandlersBear, Bears, At
<1>4. Cardinality(DOMAIN h[s].matches) = k
  <2>1. Cardinality(1..k) = IF 1 > k THEN 0 ELSE k - 1 + 1
    BY FS_Interval
  <2> QED
    BY <1>3, <2>1
<1>5. /\ q \in [1..k -> 1..k]
      /\ \A j \in 1..k : \E n \in 1..k : q[n] = j
      /\ \A m, n \in 1..k : m < n => before(q[m], q[n])
  BY <1>2, <1>3, <1>4 DEF Listings, Range
<1>6. \A m, n \in 1..k : q[m] = q[n] => m = n
  <2>1. ASSUME NEW m \in 1..k, NEW n \in 1..k, m < n, q[m] = q[n]
        PROVE  FALSE
    <3>1. PICK j \in 1..k : q[m] = j /\ q[n] = j
      BY <1>5, <2>1
    <3>2. before(q[m], q[n])
      BY <1>5, <2>1
    <3>3. before(j, j)
      BY <3>1, <3>2
    <3>4. ~(j < j)
      OBVIOUS
    <3> QED
      BY <3>3, <3>4
  <2>2. \A m, n \in 1..k : m < n \/ n < m \/ m = n
    OBVIOUS
  <2> QED
    BY <2>1, <2>2
<1>7. PICK ack : ack = Acknowledgement(s)
  OBVIOUS
<1>8. PICK f : f = ev(q)
  OBVIOUS
<1>9. /\ f = [n \in 1..k |-> f[n]]
      /\ \A n \in 1..k : f[n] = EventPost(s, q[n], retained /\ IsNative(s, q[n]))
  BY <1>5, <1>8
<1>10. ASSUME NEW n \in 1..k
       PROVE  /\ f[n] \in PortEntry /\ f[n].to = h[s].matches[q[n]][2]
              /\ \/ f[n].how = "forward" /\ f[n].msg.path = "dart"
                 \/ f[n].how = "native" /\ f[n].msg.path = "native"
              /\ f[n].msg \in Event /\ f[n].msg.type = "event" /\ f[n].msg.by = s
              /\ f[n].msg.sub = h[s].matches[q[n]][1] /\ f[n].msg.pub = h[s].pub
  <2>1. q[n] \in DOMAIN h[s].matches
    BY <1>3, <1>5
  <2>2. PICK native \in BOOLEAN : native = (retained /\ IsNative(s, q[n]))
    OBVIOUS
  <2>3. f[n] = EventPost(s, q[n], native)
    BY <1>9, <2>2
  <2>4. PICK e : e = f[n]
    OBVIOUS
  <2>5. /\ e \in PortEntry /\ e.to = h[s].matches[q[n]][2]
        /\ \/ e.how = "forward" /\ e.msg.path = "dart"
           \/ e.how = "native" /\ e.msg.path = "native"
        /\ e.msg \in Event /\ e.msg.type = "event" /\ e.msg.by = s
        /\ e.msg.sub = h[s].matches[q[n]][1] /\ e.msg.pub = h[s].pub
    BY <1>1, <2>1, <2>3, <2>4, EventFits
  <2> QED
    BY <2>4, <2>5
<1> HIDE DEF ev, before
<1>11. f \in Seq(PortEntry) /\ Len(f) = k
  <2>1. \A n \in 1..k : f[n] \in PortEntry
    BY <1>10
  <2> QED
    BY <1>9, <2>1
<1>12. /\ ack \in Seq(PortEntry) /\ Len(ack) \in 0..1 /\ DOMAIN ack = 1..Len(ack)
       /\ \A n \in DOMAIN ack :
             /\ ack[n].how = "send" /\ ack[n].msg \in Published
             /\ ack[n].msg.type = "published" /\ ack[n].msg.pub = h[s].pub
  BY <1>1, <1>7, AcknowledgementFits
<1>13. PICK posts : posts = ack \o f
  OBVIOUS
<1>14. /\ posts \in Seq(PortEntry) /\ DOMAIN posts = 1..(Len(ack) + k)
       /\ \A n \in DOMAIN ack : posts[n] = ack[n]
       /\ \A n \in 1..k : posts[Len(ack) + n] = f[n]
  BY <1>11, <1>12, <1>13
<1>15. \A n \in DOMAIN posts :
         \/ n \in DOMAIN ack /\ posts[n] = ack[n]
         \/ n > Len(ack) /\ n - Len(ack) \in 1..k /\ posts[n] = f[n - Len(ack)]
  <2> SUFFICES ASSUME NEW n \in DOMAIN posts, n \notin DOMAIN ack
               PROVE  n > Len(ack) /\ n - Len(ack) \in 1..k /\ posts[n] = f[n - Len(ack)]
    BY <1>14
  <2>1. n > Len(ack) /\ n - Len(ack) \in 1..k /\ n = Len(ack) + (n - Len(ack))
    BY <1>12, <1>14
  <2> QED
    BY <1>14, <2>1
<1>16. \A m, n \in 1..k : f[m].to = f[n].to /\ f[m].msg.sub = f[n].msg.sub => m = n
  <2> SUFFICES ASSUME NEW m \in 1..k, NEW n \in 1..k,
                      f[m].to = f[n].to, f[m].msg.sub = f[n].msg.sub
               PROVE  m = n
    OBVIOUS
  <2>1. q[m] \in DOMAIN h[s].matches /\ q[n] \in DOMAIN h[s].matches
    BY <1>3, <1>5
  <2>2. /\ h[s].matches[q[m]][1] = h[s].matches[q[n]][1]
        /\ h[s].matches[q[m]][2] = h[s].matches[q[n]][2]
    BY <1>10
  <2>3. q[m] = q[n]
    BY <1>1, <2>1, <2>2 DEF HandlersBear, Bears, At
  <2> QED
    BY <1>6, <2>3
<1>17. PostsFit(s, posts)
  <2>1. ASSUME NEW n \in DOMAIN posts
        PROVE  LET msg == posts[n].msg IN
               /\ \/ posts[n].how = "forward" /\ msg \in Event /\ msg.path = "dart"
                  \/ posts[n].how = "native" /\ msg \in Event /\ msg.path = "native"
                  \/ posts[n].how = "send" /\ msg \in Published \cup Subscribed
               /\ msg.type = "subscribed" =>
                     posts[n].to = s /\ (s \in open => Has(s, msg.sub))
               /\ msg.type \in {"event", "published"} =>
                     At(s, "forward") /\ msg.pub = h[s].pub
               /\ msg.type = "event" => msg.by = s
    <3>1. CASE n \in DOMAIN ack /\ posts[n] = ack[n]
      BY <1>1, <1>12, <3>1
    <3>2. CASE n - Len(ack) \in 1..k /\ posts[n] = f[n - Len(ack)]
      <4>1. PICK i \in 1..k : posts[n] = f[i]
        BY <3>2
      <4> QED
        BY <1>1, <1>10, <4>1
    <3> QED
      BY <1>15, <3>1, <3>2
  <2>2. ASSUME NEW m \in DOMAIN posts, NEW n \in DOMAIN posts,
               posts[m].msg.type = "event"
        PROVE  /\ m < n => posts[n].msg.type # "published"
               /\ /\ posts[n].msg.type = "event" /\ posts[m].to = posts[n].to
                  /\ posts[m].msg.sub = posts[n].msg.sub
                  => m = n
    <3>1. m > Len(ack) /\ m - Len(ack) \in 1..k /\ posts[m] = f[m - Len(ack)]
      BY <1>12, <1>15, <2>2
    <3>2. CASE n \in DOMAIN ack
      <4>1. posts[n].msg.type = "published" /\ n < m
        BY <1>12, <1>14, <3>1, <3>2
      <4> QED
        BY <1>12, <1>14, <4>1
    <3>3. CASE n \notin DOMAIN ack
      <4>1. n - Len(ack) \in 1..k /\ posts[n] = f[n - Len(ack)]
        BY <1>15, <3>3
      <4>2. PICK i \in 1..k, j \in 1..k : /\ i = m - Len(ack) /\ posts[m] = f[i]
                                          /\ j = n - Len(ack) /\ posts[n] = f[j]
        BY <3>1, <4>1
      <4>3. posts[n].msg.type = "event"
        BY <1>10, <4>2
      <4>4. posts[m].to = posts[n].to /\ posts[m].msg.sub = posts[n].msg.sub => i = j
        BY <1>16, <4>2
      <4>5. i = j => m = n
        BY <1>12, <1>14, <4>2
      <4> QED
        BY <4>3, <4>4, <4>5
    <3> QED
      BY <3>2, <3>3
  <2> QED
    BY <1>14, <2>1, <2>2 DEF PostsFit
<1>18. ASSUME NEW j \in DOMAIN h[s].matches
       PROVE  \E n \in DOMAIN posts :
                 /\ posts[n].to = h[s].matches[j][2] /\ posts[n].msg.type = "event"
                 /\ posts[n].msg.sub = h[s].matches[j][1]
                 /\ posts[n].msg.pub = h[s].pub
  <2>1. PICK i \in 1..k : q[i] = j
    BY <1>3, <1>5
  <2>2. Len(ack) + i \in DOMAIN posts /\ posts[Len(ack) + i] = f[i]
    BY <1>12, <1>14
  <2> QED
    BY <1>10, <2>1, <2>2
<1> QED
  BY <1>2, <1>7, <1>8, <1>13, <1>17, <1>18
-----------------------------------------------------------------------------
(* The order along the way: a step that moves messages on, or drops some,  *)
(* keeps it if each message comes from an earlier place and no two of a    *)
(* session overtake each other.                                            *)
LEMMA LineFollows ==
    ASSUME InLine,
           \A t \in Session : \A l, k \in 0..3 :
              \A m \in DOMAIN Line(l, t)', n \in DOMAIN Line(k, t)' :
                 Here(l, m, t)' /\ Here(k, n, t)' /\ Earlier(l, m, k, n) =>
                    \/ Msg(l, m, t)' = RemoveCmd \/ Msg(k, n, t)' = RemoveCmd
                    \/ \E a, c \in 0..3 :
                          \E b \in DOMAIN Line(a, t), d \in DOMAIN Line(c, t) :
                             /\ Here(a, b, t) /\ Here(c, d, t) /\ Earlier(a, b, c, d)
                             /\ Msg(l, m, t)' = Msg(a, b, t)
                             /\ Msg(k, n, t)' = Msg(c, d, t)
    PROVE  InLine'
<1> SUFFICES ASSUME NEW t \in Session, NEW l \in 0..3, NEW k \in 0..3,
                    NEW m \in DOMAIN Line(l, t)', NEW n \in DOMAIN Line(k, t)',
                    Here(l, m, t)', Here(k, n, t)', Earlier(l, m, k, n)
             PROVE  MayPrecede(Msg(l, m, t)', Msg(k, n, t)')
  BY DEF InLine, Earlier, MayPrecede
<1>1. CASE Msg(l, m, t)' = RemoveCmd \/ Msg(k, n, t)' = RemoveCmd
  BY <1>1 DEF RemoveCmd, MayPrecede
<1>2. CASE \E a, c \in 0..3 :
              \E b \in DOMAIN Line(a, t), d \in DOMAIN Line(c, t) :
                 /\ Here(a, b, t) /\ Here(c, d, t) /\ Earlier(a, b, c, d)
                 /\ Msg(l, m, t)' = Msg(a, b, t)
                 /\ Msg(k, n, t)' = Msg(c, d, t)
  BY <1>2 DEF InLine
<1> QED
  BY <1>1, <1>2

LEMMA FreshFollows ==
    ASSUME PubsFresh, nextPub' = nextPub,
           \A b \in Session : h'[b].pc = "forward" => h'[b] = h[b],
           \A t \in Session : \A l \in 0..3 : \A n \in DOMAIN Line(l, t)' :
              Here(l, n, t)' =>
                 \/ Msg(l, n, t)' = RemoveCmd
                 \/ \E a \in 0..3 : \E b \in DOMAIN Line(a, t) :
                       /\ Here(a, b, t) /\ Msg(l, n, t)' = Msg(a, b, t)
                       /\ l \in {2, 3} => a \in {2, 3}
    PROVE  PubsFresh'
<1>1. ASSUME NEW t \in Session, NEW l \in 0..3, NEW n \in DOMAIN Line(l, t)',
             Here(l, n, t)', Msg(l, n, t)'.type \in {"event", "published"}
      PROVE  /\ Msg(l, n, t)'.pub < nextPub
             /\ l \in {2, 3} => Msg(l, n, t)'.path = "dart"
             /\ \A c \in Session : h'[c].pc = "forward" =>
                   /\ Msg(l, n, t)'.pub # h'[c].pub
                   /\ Msg(l, n, t)'.type = "event" /\ Msg(l, n, t)'.by = c =>
                         Msg(l, n, t)'.pub < h'[c].pub
  <2>1. Msg(l, n, t)' # RemoveCmd
    BY <1>1 DEF RemoveCmd
  <2>2. PICK a \in 0..3 : \E b \in DOMAIN Line(a, t) :
           /\ Here(a, b, t) /\ Msg(l, n, t)' = Msg(a, b, t)
           /\ l \in {2, 3} => a \in {2, 3}
    BY <1>1, <2>1
  <2>3. PICK b \in DOMAIN Line(a, t) :
           /\ Here(a, b, t) /\ Msg(l, n, t)' = Msg(a, b, t)
           /\ l \in {2, 3} => a \in {2, 3}
    BY <2>2
  <2>4. /\ Msg(a, b, t).pub < nextPub
        /\ a \in {2, 3} => Msg(a, b, t).path = "dart"
        /\ \A c \in Session : h[c].pc = "forward" =>
              /\ Msg(a, b, t).pub # h[c].pub
              /\ Msg(a, b, t).type = "event" /\ Msg(a, b, t).by = c =>
                    Msg(a, b, t).pub < h[c].pub
    BY <1>1, <2>3 DEF PubsFresh, At
  <2> QED
    BY <2>3, <2>4
<1>2. \A b \in Session : h'[b].pc = "forward" =>
         /\ h'[b].pub < nextPub
         /\ \A c \in Session : h'[c].pc = "forward" /\ h'[c].pub = h'[b].pub => c = b
  BY DEF PubsFresh, At
<1> QED
  BY <1>1, <1>2 DEF PubsFresh, At

(* The boss takes an entry of its port: the message reaches the connection *)
(* or is dropped.                                                          *)
LEMMA WriteFollows ==
    ASSUME InLine, PubsFresh, PortsTyped, boss # <<>>, boss' = Tail(boss), cmds' = cmds,
           NEW c \in Session,
           \/ wire' = wire
           \/ /\ wire' = [wire EXCEPT ![c] = Append(@, boss[1].msg)]
              /\ boss[1].how \in {"send", "native"} /\ boss[1].to = c,
           nextPub' = nextPub,
           \A b \in Session : h'[b].pc = "forward" => h'[b] = h[b]
    PROVE  InLine' /\ PubsFresh'
<1>1. /\ Len(boss) \in Nat \ {0}
      /\ DOMAIN boss = 1..Len(boss) /\ DOMAIN boss' = 1..(Len(boss) - 1)
      /\ \A n \in 1..(Len(boss) - 1) : boss'[n] = boss[n + 1]
  BY PopShifts DEF PortsTyped, BossTyped
<1> DEFINE w(t) == Len(wire[t])
<1>2. ASSUME NEW t \in Session
      PROVE  /\ w(t) \in Nat /\ DOMAIN wire[t] = 1..w(t)
             /\ \A n \in 1..w(t) : n \in DOMAIN wire'[t] /\ wire'[t][n] = wire[t][n]
             /\ \A n \in DOMAIN wire'[t] :
                   \/ n \in 1..w(t)
                   \/ /\ n = w(t) + 1 /\ wire'[t][n] = boss[1].msg
                      /\ boss[1].how \in {"send", "native"} /\ boss[1].to = t
  <2>1. wire[t] \in Seq(Event \cup Published)
    BY DEF PortsTyped
  <2>2. wire'[t] = wire[t] \/ /\ wire'[t] = Append(wire[t], boss[1].msg)
                              /\ boss[1].how \in {"send", "native"} /\ boss[1].to = t
    BY DEF PortsTyped
  <2> QED
    BY <2>1, <2>2
<1> HIDE DEF w
<1> DEFINE sl(t, l, n) == IF l = 0 /\ n = w(t) + 1 THEN 1 ELSE l
           sn(t, l, n) == IF l = 0 /\ n = w(t) + 1 THEN 1
                          ELSE IF l \in {1, 3} THEN n + 1 ELSE n
<1>3. ASSUME NEW t \in Session, NEW l \in 0..3, NEW n \in DOMAIN Line(l, t)',
             Here(l, n, t)'
      PROVE  /\ sl(t, l, n) \in 0..3 /\ sn(t, l, n) \in DOMAIN Line(sl(t, l, n), t)
             /\ Here(sl(t, l, n), sn(t, l, n), t)
             /\ Msg(l, n, t)' = Msg(sl(t, l, n), sn(t, l, n), t)
             /\ l \in {2, 3} => sl(t, l, n) \in {2, 3}
             /\ l = 0 => n \in 1..(w(t) + 1)
             /\ l \in {1, 3} => n \in Nat
  <2>1. CASE l = 0
    BY <1>1, <1>2, <1>3, <2>1 DEF Line, Here, Msg
  <2>2. CASE l = 2
    BY <1>3, <2>2 DEF Line, Here, Msg
  <2>3. CASE l \in {1, 3}
    BY <1>1, <1>3, <2>3 DEF Line, Here, Msg
  <2> QED
    BY <2>1, <2>2, <2>3
<1>4. ASSUME NEW t \in Session, NEW l \in 0..3, NEW k \in 0..3,
             NEW m \in DOMAIN Line(l, t)', NEW n \in DOMAIN Line(k, t)',
             Here(l, m, t)', Here(k, n, t)', Earlier(l, m, k, n)
      PROVE  Earlier(sl(t, l, m), sn(t, l, m), sl(t, k, n), sn(t, k, n))
  <2>1. /\ l = 0 => m \in 1..(w(t) + 1)
        /\ l \in {1, 3} => m \in Nat
        /\ k = 0 => n \in 1..(w(t) + 1)
        /\ k \in {1, 3} => n \in Nat
        /\ w(t) \in Nat
    BY <1>2, <1>3, <1>4
  <2>2. k \in {1, 3} => n >= 1
    BY <1>1, <1>4 DEF Line
  <2>3. CASE l < k
    <3>1. sl(t, k, n) = k /\ (k \in {1, 3} => sn(t, k, n) = n + 1)
      BY <2>3
    <3>2. CASE l = 0 /\ m = w(t) + 1
      BY <2>1, <2>2, <2>3, <3>1, <3>2 DEF Earlier
    <3>3. CASE ~(l = 0 /\ m = w(t) + 1)
      BY <2>3, <3>1, <3>3 DEF Earlier
    <3> QED
      BY <3>2, <3>3
  <2>4. CASE l = k /\ m < n
    <3>1. CASE l = 0
      <4>1. m # w(t) + 1
        BY <2>1, <2>4, <3>1
      <4>2. sl(t, l, m) = 0 /\ sn(t, l, m) = m
        BY <3>1, <4>1
      <4>3. sl(t, k, n) = 1 \/ (sl(t, k, n) = 0 /\ sn(t, k, n) = n)
        BY <2>4, <3>1
      <4> HIDE DEF sl, sn
      <4>4. CASE sl(t, k, n) = 1
        BY <4>2, <4>4 DEF Earlier
      <4>5. CASE sl(t, k, n) = 0 /\ sn(t, k, n) = n
        BY <2>4, <4>2, <4>5 DEF Earlier
      <4> QED
        BY <4>3, <4>4, <4>5
    <3>2. CASE l = 2
      BY <2>4, <3>2 DEF Earlier
    <3>3. CASE l \in {1, 3}
      BY <2>1, <2>4, <3>3 DEF Earlier
    <3> QED
      BY <3>1, <3>2, <3>3
  <2> QED
    BY <1>4, <2>3, <2>4 DEF Earlier
<1> HIDE DEF sl, sn
<1>5. InLine'
  BY <1>3, <1>4, LineFollows
<1>6. PubsFresh'
  BY <1>3, FreshFollows
<1> QED
  BY <1>5, <1>6

(* The boss takes an entry of its port: the EVENT reaches the port of the  *)
(* worker, or the worker is told to remove the connection.                 *)
LEMMA ForwardFollows ==
    ASSUME InLine, PubsFresh, PortsTyped, boss # <<>>, boss' = Tail(boss), wire' = wire,
           NEW c \in Session,
           \/ cmds' = cmds
           \/ /\ cmds' = [cmds EXCEPT ![c] = Append(@, boss[1].msg)]
              /\ boss[1].how = "forward" /\ boss[1].to = c
           \/ cmds' = [cmds EXCEPT ![c] = Append(@, RemoveCmd)],
           nextPub' = nextPub,
           \A b \in Session : h'[b].pc = "forward" => h'[b] = h[b]
    PROVE  InLine' /\ PubsFresh'
<1>1. /\ Len(boss) \in Nat \ {0}
      /\ DOMAIN boss = 1..Len(boss) /\ DOMAIN boss' = 1..(Len(boss) - 1)
      /\ \A n \in 1..(Len(boss) - 1) : boss'[n] = boss[n + 1]
  BY PopShifts DEF PortsTyped, BossTyped
<1> DEFINE w(t) == Len(cmds[t])
<1>2. ASSUME NEW t \in Session
      PROVE  /\ w(t) \in Nat /\ DOMAIN cmds[t] = 1..w(t)
             /\ \A n \in 1..w(t) : n \in DOMAIN cmds'[t] /\ cmds'[t][n] = cmds[t][n]
             /\ \A n \in DOMAIN cmds'[t] :
                   \/ n \in 1..w(t)
                   \/ /\ n = w(t) + 1 /\ cmds'[t][n] = boss[1].msg
                      /\ boss[1].how = "forward" /\ boss[1].to = t
                   \/ n = w(t) + 1 /\ cmds'[t][n] = RemoveCmd
  <2>1. cmds[t] \in Seq(Event \cup {RemoveCmd})
    BY DEF PortsTyped
  <2>2. \/ cmds'[t] = cmds[t]
        \/ /\ cmds'[t] = Append(cmds[t], boss[1].msg)
           /\ boss[1].how = "forward" /\ boss[1].to = t
        \/ cmds'[t] = Append(cmds[t], RemoveCmd)
    BY DEF PortsTyped
  <2> QED
    BY <2>1, <2>2
<1> HIDE DEF w
<1> DEFINE sl(t, l, n) == IF l = 2 /\ n = w(t) + 1 THEN 3 ELSE l
           sn(t, l, n) == IF l = 2 /\ n = w(t) + 1 THEN 1
                          ELSE IF l \in {1, 3} THEN n + 1 ELSE n
<1>3. ASSUME NEW t \in Session, NEW l \in 0..3, NEW n \in DOMAIN Line(l, t)',
             Here(l, n, t)', Msg(l, n, t)' # RemoveCmd
      PROVE  /\ sl(t, l, n) \in 0..3 /\ sn(t, l, n) \in DOMAIN Line(sl(t, l, n), t)
             /\ Here(sl(t, l, n), sn(t, l, n), t)
             /\ Msg(l, n, t)' = Msg(sl(t, l, n), sn(t, l, n), t)
             /\ l \in {2, 3} => sl(t, l, n) \in {2, 3}
             /\ l = 2 => n \in 1..(w(t) + 1)
             /\ l \in {1, 3} => n \in Nat
  <2>1. CASE l = 2
    BY <1>1, <1>2, <1>3, <2>1 DEF Line, Here, Msg
  <2>2. CASE l = 0
    BY <1>3, <2>2 DEF Line, Here, Msg
  <2>3. CASE l \in {1, 3}
    BY <1>1, <1>3, <2>3 DEF Line, Here, Msg
  <2> QED
    BY <2>1, <2>2, <2>3
<1>4. ASSUME NEW t \in Session, NEW l \in 0..3, NEW k \in 0..3,
             NEW m \in DOMAIN Line(l, t)', NEW n \in DOMAIN Line(k, t)',
             Here(l, m, t)', Here(k, n, t)', Earlier(l, m, k, n),
             Msg(l, m, t)' # RemoveCmd, Msg(k, n, t)' # RemoveCmd
      PROVE  Earlier(sl(t, l, m), sn(t, l, m), sl(t, k, n), sn(t, k, n))
  <2>1. /\ l = 2 => m \in 1..(w(t) + 1)
        /\ l \in {1, 3} => m \in Nat
        /\ k = 2 => n \in 1..(w(t) + 1)
        /\ k \in {1, 3} => n \in Nat
        /\ w(t) \in Nat
    BY <1>2, <1>3, <1>4
  <2>2. k \in {1, 3} => n >= 1
    BY <1>1, <1>4 DEF Line
  <2>3. CASE l < k
    <3>1. CASE l = 2 /\ m = w(t) + 1
      <4>1. k = 3 /\ sl(t, k, n) = 3 /\ sn(t, k, n) = n + 1
        BY <2>3, <3>1
      <4> QED
        BY <2>1, <2>2, <3>1, <4>1 DEF Earlier
    <3>2. CASE ~(l = 2 /\ m = w(t) + 1)
      BY <2>3, <3>2 DEF Earlier
    <3> QED
      BY <3>1, <3>2
  <2>4. CASE l = k /\ m < n
    <3>1. CASE l = 2
      <4>1. m # w(t) + 1
        BY <2>1, <2>4, <3>1
      <4>2. sl(t, l, m) = 2 /\ sn(t, l, m) = m
        BY <3>1, <4>1
      <4>3. sl(t, k, n) = 3 \/ (sl(t, k, n) = 2 /\ sn(t, k, n) = n)
        BY <2>4, <3>1
      <4> HIDE DEF sl, sn
      <4> QED
        BY <2>4, <4>2, <4>3 DEF Earlier
    <3>2. CASE l = 0
      BY <2>4, <3>2 DEF Earlier
    <3>3. CASE l \in {1, 3}
      BY <2>1, <2>4, <3>3 DEF Earlier
    <3> QED
      BY <3>1, <3>2, <3>3
  <2> QED
    BY <1>4, <2>3, <2>4 DEF Earlier
<1> HIDE DEF sl, sn
<1>5. InLine'
  BY <1>3, <1>4, LineFollows
<1>6. PubsFresh'
  BY <1>3, FreshFollows
<1> QED
  BY <1>5, <1>6

(* A worker takes a command: it sends the EVENT on, or drops it. *)
LEMMA WorkerFollows ==
    ASSUME InLine, PubsFresh, PortsTyped, NEW s \in Session, cmds[s] # <<>>,
           cmds' = [cmds EXCEPT ![s] = Tail(@)], wire' = wire,
           \/ boss' = boss
           \/ boss' = boss \o Post("send", s, Head(cmds[s])) /\ Head(cmds[s]) \in Event,
           nextPub' = nextPub, h' = h
    PROVE  InLine' /\ PubsFresh'
<1>1. PICK e : e = Head(cmds[s])
  OBVIOUS
<1>2. /\ Len(boss) \in Nat /\ DOMAIN boss = 1..Len(boss)
      /\ \A n \in DOMAIN boss' :
            \/ n \in 1..Len(boss) /\ boss'[n] = boss[n]
            \/ n = Len(boss) + 1 /\ boss'[n] = [how |-> "send", to |-> s, msg |-> e]
      /\ DOMAIN boss' \subseteq Nat
  <2>1. boss \in Seq(PortEntry)
    BY DEF PortsTyped, BossTyped
  <2>2. CASE boss' = boss
    BY <2>1, <2>2
  <2>3. CASE boss' = boss \o Post("send", s, e) /\ e \in Event
    <3>1. e \in Message
      BY <2>3 DEF Message
    <3>2. /\ Len(boss) \in Nat
          /\ DOMAIN boss = 1..Len(boss) /\ DOMAIN boss' = 1..(Len(boss) + 1)
          /\ \A n \in 1..Len(boss) : boss'[n] = boss[n]
          /\ boss'[Len(boss) + 1] = [how |-> "send", to |-> s, msg |-> e]
      BY <2>1, <2>3, <3>1, SendAppends
    <3> QED
      BY <3>2
  <2> QED
    BY <1>1, <2>2, <2>3
<1>3. /\ Len(cmds[s]) \in Nat \ {0} /\ DOMAIN cmds[s] = 1..Len(cmds[s])
      /\ e = cmds[s][1]
      /\ DOMAIN cmds'[s] = 1..(Len(cmds[s]) - 1)
      /\ \A n \in 1..(Len(cmds[s]) - 1) : cmds'[s][n] = cmds[s][n + 1]
  <2>1. cmds[s] \in Seq(Event \cup {RemoveCmd}) /\ cmds'[s] = Tail(cmds[s])
    BY DEF PortsTyped
  <2>2. PICK q : q = cmds[s]
    OBVIOUS
  <2>3. PICK r : r = cmds'[s]
    OBVIOUS
  <2>4. q \in Seq(Event \cup {RemoveCmd}) /\ q # <<>> /\ r = Tail(q) /\ e = Head(q)
    BY <1>1, <2>1, <2>2, <2>3
  <2>5. /\ Len(q) \in Nat \ {0} /\ DOMAIN q = 1..Len(q) /\ e = q[1]
        /\ DOMAIN r = 1..(Len(q) - 1)
        /\ \A n \in 1..(Len(q) - 1) : r[n] = q[n + 1]
    BY <2>4
  <2> QED
    BY <2>2, <2>3, <2>5
<1>4. \A t \in Session \ {s} : cmds'[t] = cmds[t]
  BY DEF PortsTyped
<1> DEFINE sl(t, l, n) == IF l = 1 /\ n = Len(boss) + 1 THEN 2 ELSE l
           sn(t, l, n) == IF l = 1 /\ n = Len(boss) + 1 THEN 1
                          ELSE IF l = 2 /\ t = s THEN n + 1 ELSE n
<1>5. ASSUME NEW t \in Session, NEW l \in 0..3, NEW n \in DOMAIN Line(l, t)',
             Here(l, n, t)'
      PROVE  /\ sl(t, l, n) \in 0..3 /\ sn(t, l, n) \in DOMAIN Line(sl(t, l, n), t)
             /\ Here(sl(t, l, n), sn(t, l, n), t)
             /\ Msg(l, n, t)' = Msg(sl(t, l, n), sn(t, l, n), t)
             /\ l \in {2, 3} => sl(t, l, n) \in {2, 3}
             /\ l = 1 => n \in 1..(Len(boss) + 1) /\ (n = Len(boss) + 1 => t = s)
             /\ l = 2 /\ t = s => n \in Nat /\ n >= 1
  <2>1. CASE l = 0
    BY <1>5, <2>1 DEF Line, Here, Msg
  <2>2. CASE l = 1
    <3>1. CASE n \in 1..Len(boss) /\ boss'[n] = boss[n]
      BY <1>2, <1>5, <2>2, <3>1 DEF Line, Here, Msg
    <3>2. CASE n = Len(boss) + 1 /\ boss'[n] = [how |-> "send", to |-> s, msg |-> e]
      <4>1. t = s
        BY <1>5, <2>2, <3>2 DEF Here
      <4>2. 1 \in DOMAIN cmds[s]
        BY <1>3
      <4> QED
        BY <1>2, <1>3, <1>5, <2>2, <3>2, <4>1, <4>2 DEF Line, Here, Msg
    <3> QED
      BY <1>2, <1>5, <2>2, <3>1, <3>2 DEF Line
  <2>3. CASE l = 2
    <3>1. CASE t = s
      BY <1>3, <1>5, <2>3, <3>1 DEF Line, Here, Msg
    <3>2. CASE t # s
      BY <1>4, <1>5, <2>3, <3>2 DEF Line, Here, Msg
    <3> QED
      BY <3>1, <3>2
  <2>4. CASE l = 3
    <3>1. n \in 1..Len(boss) /\ boss'[n] = boss[n]
      BY <1>2, <1>5, <2>4 DEF Line, Here
    <3> QED
      BY <1>2, <1>5, <2>4, <3>1 DEF Line, Here, Msg
  <2> QED
    BY <2>1, <2>2, <2>3, <2>4
<1>6. ASSUME NEW t \in Session, NEW l \in 0..3, NEW k \in 0..3,
             NEW m \in DOMAIN Line(l, t)', NEW n \in DOMAIN Line(k, t)',
             Here(l, m, t)', Here(k, n, t)', Earlier(l, m, k, n)
      PROVE  Earlier(sl(t, l, m), sn(t, l, m), sl(t, k, n), sn(t, k, n))
  <2>1. /\ l = 1 => m \in 1..(Len(boss) + 1) /\ (m = Len(boss) + 1 => t = s)
        /\ k = 1 => n \in 1..(Len(boss) + 1)
        /\ l = 2 /\ t = s => m \in Nat
        /\ k = 2 /\ t = s => n \in Nat /\ n >= 1
        /\ Len(boss) \in Nat
    BY <1>2, <1>5, <1>6
  <2>2. CASE l < k
    <3>1. CASE l = 1 /\ m = Len(boss) + 1
      <4>1. sl(t, l, m) = 2 /\ sn(t, l, m) = 1 /\ t = s
        BY <2>1, <3>1
      <4>2. sl(t, k, n) = k /\ (k = 2 => sn(t, k, n) = n + 1)
        BY <2>2, <3>1, <4>1
      <4> QED
        BY <2>1, <2>2, <3>1, <4>1, <4>2 DEF Earlier
    <3>2. CASE ~(l = 1 /\ m = Len(boss) + 1)
      BY <2>2, <3>2 DEF Earlier
    <3> QED
      BY <3>1, <3>2
  <2>3. CASE l = k /\ m < n
    <3>1. CASE l = 1
      <4>1. m # Len(boss) + 1
        BY <2>1, <2>3, <3>1
      <4>2. sl(t, l, m) = 1 /\ sn(t, l, m) = m
        BY <3>1, <4>1
      <4>3. sl(t, k, n) = 2 \/ (sl(t, k, n) = 1 /\ sn(t, k, n) = n)
        BY <2>3, <3>1
      <4> QED
        BY <2>3, <4>2, <4>3 DEF Earlier
    <3>2. CASE l = 2
      BY <2>1, <2>3, <3>2 DEF Earlier
    <3>3. CASE l \in {0, 3}
      BY <2>3, <3>3 DEF Earlier
    <3> QED
      BY <3>1, <3>2, <3>3
  <2> QED
    BY <1>6, <2>2, <2>3 DEF Earlier
<1> HIDE DEF sl, sn
<1>7. InLine'
  BY <1>5, <1>6, LineFollows
<1>8. PubsFresh'
  BY <1>5, FreshFollows
<1> QED
  BY <1>7, <1>8

LEMMA DetachFollows ==
    ASSUME InLine, PubsFresh, PortsTyped, NEW c \in Session,
           cmds' = [cmds EXCEPT ![c] = Append(@, RemoveCmd)],
           boss' = boss, wire' = wire, nextPub' = nextPub, h' = h
    PROVE  InLine' /\ PubsFresh'
<1>1. ASSUME NEW t \in Session
      PROVE  \A n \in DOMAIN cmds'[t] :
                 \/ n \in DOMAIN cmds[t] /\ cmds'[t][n] = cmds[t][n]
                 \/ cmds'[t][n] = RemoveCmd
  <2>1. cmds[t] \in Seq(Event \cup {RemoveCmd})
    BY DEF PortsTyped
  <2>2. cmds'[t] = cmds[t] \/ cmds'[t] = Append(cmds[t], RemoveCmd)
    BY DEF PortsTyped
  <2> QED
    BY <2>1, <2>2
<1>2. ASSUME NEW t \in Session, NEW l \in 0..3, NEW n \in DOMAIN Line(l, t)',
             Here(l, n, t)'
      PROVE  \/ Msg(l, n, t)' = RemoveCmd
             \/ /\ n \in DOMAIN Line(l, t) /\ Here(l, n, t)
                /\ Msg(l, n, t)' = Msg(l, n, t)
  <2>1. CASE l = 2
    BY <1>1, <1>2, <2>1 DEF Line, Here, Msg
  <2>2. CASE l # 2
    BY <1>2, <2>2 DEF Line, Here, Msg
  <2> QED
    BY <2>1, <2>2
<1>3. InLine'
  BY <1>2, LineFollows
<1>4. PubsFresh'
  BY <1>2, FreshFollows
<1> QED
  BY <1>3, <1>4

LEMMA PlacesTyped ==
    ASSUME PortsTyped, NEW t \in Session, NEW l \in 0..3, NEW n \in DOMAIN Line(l, t),
           Here(l, n, t), Msg(l, n, t).type \in {"event", "published"}
    PROVE  Msg(l, n, t).pub \in Nat
<1>1. Msg(l, n, t) \in Message \cup {RemoveCmd}
  <2>1. CASE l = 0
    <3>1. wire[t] \in Seq(Event \cup Published) /\ n \in DOMAIN wire[t]
      BY <2>1 DEF PortsTyped, Line
    <3>2. wire[t][n] \in Event \cup Published
      BY <3>1
    <3> QED
      BY <2>1, <3>2 DEF Msg, Line, Message
  <2>2. CASE l = 2
    <3>1. cmds[t] \in Seq(Event \cup {RemoveCmd}) /\ n \in DOMAIN cmds[t]
      BY <2>2 DEF PortsTyped, Line
    <3>2. cmds[t][n] \in Event \cup {RemoveCmd}
      BY <3>1
    <3> QED
      BY <2>2, <3>2 DEF Msg, Line, Message
  <2>3. CASE l \in {1, 3}
    BY <2>3 DEF PortsTyped, BossTyped, Line, Here, Msg, Message
  <2> QED
    BY <2>1, <2>2, <2>3
<1>2. Msg(l, n, t) \in Event \cup Published
  BY <1>1 DEF Message, Subscribed, RemoveCmd
<1> QED
  BY <1>2 DEF Event, Published, PubId

LEMMA EndFollows ==
    ASSUME InLine, PubsFresh, PortsTyped, HandlersOK, HandlersBear, NEW s \in Session,
           NEW posts, PostsFit(s, posts), End(s, posts),
           cmds' = cmds, wire' = wire, nextPub' = nextPub
    PROVE  InLine' /\ PubsFresh'
<1> DEFINE L == Len(boss)
<1>1. posts \in Seq(PortEntry) /\ boss \in Seq(PortEntry)
  BY DEF PostsFit, PortsTyped, BossTyped
<1>2. /\ L \in Nat /\ Len(posts) \in Nat
      /\ DOMAIN boss = 1..L /\ DOMAIN posts = 1..Len(posts)
      /\ DOMAIN boss' = 1..(L + Len(posts) + 1)
      /\ \A n \in 1..L : boss'[n] = boss[n]
      /\ \A n \in 1..Len(posts) : boss'[L + n] = posts[n]
      /\ boss'[L + Len(posts) + 1] = [how |-> "ready", to |-> s, msg |-> Ready]
  BY <1>1, EndAppends
<1> HIDE DEF L
<1>3. h'[s].pc = "ended" /\ \A t \in Session \ {s} : h'[t] = h[t]
  BY GotoSets DEF End
<1> DEFINE Old(t, l, n) == /\ n \in DOMAIN Line(l, t) /\ Here(l, n, t)
                           /\ Msg(l, n, t)' = Msg(l, n, t)
                           /\ l \in {1, 3} => n \in 1..L
           New(t, l, n) == /\ n - L \in DOMAIN posts /\ n \in Nat /\ n > L
                           /\ posts[n - L].to = t
                           /\ Msg(l, n, t)' = posts[n - L].msg
                           /\ \/ l = 1 /\ posts[n - L].how \in {"send", "native"}
                              \/ l = 3 /\ posts[n - L].how = "forward"
<1>4. ASSUME NEW t \in Session, NEW l \in 0..3, NEW n \in DOMAIN Line(l, t)',
             Here(l, n, t)'
      PROVE  Old(t, l, n) \/ New(t, l, n)
  <2>1. CASE l \in {0, 2}
    BY <1>4, <2>1 DEF Line, Here, Msg
  <2>2. CASE l \in {1, 3}
    <3>1. n \in 1..(L + Len(posts) + 1)
      BY <1>2, <1>4, <2>2 DEF Line
    <3>2. CASE n \in 1..L
      BY <1>2, <1>4, <2>2, <3>2 DEF Line, Here, Msg
    <3>3. CASE n = L + Len(posts) + 1
      BY <1>2, <1>4, <2>2, <3>3 DEF Here
    <3>4. CASE n \notin 1..L /\ n # L + Len(posts) + 1
      <4>1. n - L \in DOMAIN posts /\ n \in Nat /\ n > L /\ n = L + (n - L)
        BY <1>2, <3>1, <3>4
      <4>2. boss'[n] = posts[n - L]
        BY <1>2, <4>1
      <4> QED
        BY <1>4, <2>2, <4>1, <4>2 DEF Here, Msg
    <3> QED
      BY <3>2, <3>3, <3>4
  <2> QED
    BY <2>1, <2>2
<1>5. ASSUME NEW t \in Session, NEW l \in 0..3, NEW n, New(t, l, n),
             NEW f, f = Msg(l, n, t)'
      PROVE  /\ f.type \in {"event", "published"} =>
                   h[s].pc = "forward" /\ f.pub = h[s].pub /\ h[s].pub \in Nat
             /\ f.type = "event" => /\ f.by = s
                                    /\ f.path = IF l = 1 THEN "native" ELSE "dart"
             /\ f.type = "published" => l = 1
  <2>1. PICK j \in DOMAIN posts :
          /\ f = posts[j].msg
          /\ \/ l = 1 /\ posts[j].how \in {"send", "native"}
             \/ l = 3 /\ posts[j].how = "forward"
    BY <1>5
  <2>2. /\ \/ posts[j].how = "forward" /\ f \in Event /\ f.path = "dart"
           \/ posts[j].how = "native" /\ f \in Event /\ f.path = "native"
           \/ posts[j].how = "send" /\ f \in Published \cup Subscribed
        /\ f.type \in {"event", "published"} => At(s, "forward") /\ f.pub = h[s].pub
        /\ f.type = "event" => f.by = s
    BY <2>1 DEF PostsFit
  <2>3. (f \in Event => f.type = "event") /\ (f \in Published \cup Subscribed => f.type # "event")
    BY DEF Event, Published, Subscribed
  <2>4. At(s, "forward") => h[s].pc = "forward" /\ h[s].pub \in Nat
    BY DEF At, HandlersBear, Bears, PubId
  <2> QED
    BY <2>1, <2>2, <2>3, <2>4
<1>6. ASSUME NEW t \in Session, NEW l \in 0..3, NEW n, Old(t, l, n),
             NEW f, f = Msg(l, n, t)', f.type \in {"event", "published"}
      PROVE  /\ f.pub \in Nat /\ f.pub < nextPub
             /\ l \in {2, 3} => f.path = "dart"
             /\ \A b \in Session : h[b].pc = "forward" =>
                   f.pub # h[b].pub /\ (f.type = "event" /\ f.by = b => f.pub < h[b].pub)
  <2>1. n \in DOMAIN Line(l, t) /\ Here(l, n, t) /\ f = Msg(l, n, t)
    BY <1>6
  <2>2. f.pub \in Nat
    BY <1>6, <2>1, PlacesTyped
  <2> QED
    BY <1>6, <2>1, <2>2 DEF PubsFresh, At
<1>7. InLine'
  <2> SUFFICES ASSUME NEW t \in Session, NEW l \in 0..3, NEW k \in 0..3,
                      NEW m \in DOMAIN Line(l, t)', NEW n \in DOMAIN Line(k, t)',
                      Here(l, m, t)', Here(k, n, t)', Earlier(l, m, k, n)
               PROVE  MayPrecede(Msg(l, m, t)', Msg(k, n, t)')
    BY DEF InLine, Earlier, MayPrecede
  <2>1. PICK e : e = Msg(l, m, t)'
    OBVIOUS
  <2>2. PICK f : f = Msg(k, n, t)'
    OBVIOUS
  <2>3. CASE Old(t, l, m) /\ Old(t, k, n)
    BY <2>3 DEF InLine
  <2>4. CASE Old(t, l, m) /\ New(t, k, n)
    <3>1. e.type = "event" /\ f.type \in {"event", "published"} =>
             /\ e.pub \in Nat /\ f.pub \in Nat /\ e.pub # f.pub
             /\ f.type = "event" /\ e.by = f.by => e.pub < f.pub
      BY <1>5, <1>6, <2>1, <2>2, <2>4
    <3> QED
      BY <2>1, <2>2, <3>1 DEF MayPrecede
  <2>5. CASE New(t, l, m) /\ Old(t, k, n)
    <3>1. l = 1 /\ k \in {2, 3}
      <4>1. l # k
        BY <1>2, <2>5 DEF Earlier
      <4> QED
        BY <2>5, <4>1 DEF Earlier
    <3>2. e.type = "event" /\ f.type \in {"event", "published"} =>
             e.pub # f.pub /\ e.path # f.path
      BY <1>5, <1>6, <2>1, <2>2, <2>5, <3>1
    <3> QED
      BY <2>1, <2>2, <3>2 DEF MayPrecede
  <2>6. CASE New(t, l, m) /\ New(t, k, n)
    <3>1. PICK i \in DOMAIN posts, j \in DOMAIN posts :
             /\ i = m - L /\ e = posts[i].msg /\ posts[i].to = t
             /\ j = n - L /\ f = posts[j].msg /\ posts[j].to = t
             /\ \/ l = 1 /\ posts[i].how \in {"send", "native"}
                \/ l = 3 /\ posts[i].how = "forward"
             /\ \/ k = 1 /\ posts[j].how \in {"send", "native"}
                \/ k = 3 /\ posts[j].how = "forward"
             /\ m \in Nat /\ n \in Nat
      BY <2>1, <2>2, <2>6
    <3>2. i = j => m = n
      BY <1>2, <3>1
    <3>3. i # j
      BY <3>1, <3>2 DEF Earlier
    <3>4. e.type = "event" /\ f.type = "event" =>
             e.by = f.by /\ e.pub = f.pub /\ e.pub \in Nat /\ e.sub # f.sub
      <4>1. e.type = "event" /\ f.type = "event" => e.sub # f.sub
        BY <3>1, <3>3 DEF PostsFit
      <4> QED
        BY <1>5, <2>1, <2>2, <2>6, <4>1
    <3>5. ~(e.type = "event" /\ f.type = "published")
      <4> SUFFICES ASSUME e.type = "event", f.type = "published" PROVE FALSE
        OBVIOUS
      <4>1. k = 1
        BY <1>5, <2>2, <2>6
      <4>2. l = 1 /\ m < n
        BY <3>1, <4>1 DEF Earlier
      <4>3. i < j
        BY <1>2, <3>1, <4>2
      <4> QED
        BY <3>1, <4>3 DEF PostsFit
    <3> QED
      BY <2>1, <2>2, <3>4, <3>5 DEF MayPrecede
  <2> QED
    BY <1>4, <2>3, <2>4, <2>5, <2>6
<1>8. PubsFresh'
  <2>1. \A b \in Session : h'[b].pc = "forward" => b # s /\ h'[b] = h[b]
    BY <1>3
  <2>2. ASSUME NEW t \in Session, NEW l \in 0..3, NEW n \in DOMAIN Line(l, t)',
               Here(l, n, t)', Msg(l, n, t)'.type \in {"event", "published"}
        PROVE  /\ Msg(l, n, t)'.pub < nextPub
               /\ l \in {2, 3} => Msg(l, n, t)'.path = "dart"
               /\ \A c \in Session : h'[c].pc = "forward" =>
                     /\ Msg(l, n, t)'.pub # h'[c].pub
                     /\ Msg(l, n, t)'.type = "event" /\ Msg(l, n, t)'.by = c =>
                           Msg(l, n, t)'.pub < h'[c].pub
    <3>1. PICK f : f = Msg(l, n, t)'
      OBVIOUS
    <3>2. CASE Old(t, l, n)
      BY <1>6, <2>1, <2>2, <3>1, <3>2
    <3>3. CASE New(t, l, n)
      <4>1. /\ h[s].pc = "forward" /\ f.pub = h[s].pub
            /\ f.type = "event" => f.by = s
            /\ l \in {2, 3} => f.type = "event" /\ f.path = "dart"
        BY <1>5, <2>2, <3>1, <3>3
      <4>2. /\ h[s].pub < nextPub
            /\ \A c \in Session : h[c].pc = "forward" /\ h[c].pub = h[s].pub => c = s
        BY <4>1 DEF PubsFresh, At
      <4> QED
        BY <2>1, <3>1, <4>1, <4>2
    <3> QED
      BY <1>4, <2>2, <3>2, <3>3
  <2>3. \A b \in Session : h'[b].pc = "forward" =>
           /\ h'[b].pub < nextPub
           /\ \A c \in Session : h'[c].pc = "forward" /\ h'[c].pub = h'[b].pub => c = b
    BY <2>1 DEF PubsFresh, At
  <2> QED
    BY <2>2, <2>3 DEF PubsFresh, At
<1> QED
  BY <1>7, <1>8

(* A step that leaves the ports and connections: no handler has, or the    *)
(* one of s takes, a new publication.                                      *)
LEMMA StayFollows ==
    ASSUME InLine, PubsFresh, boss' = boss, cmds' = cmds, wire' = wire, nextPub' = nextPub,
           \A b \in Session : h'[b].pc = "forward" => h'[b] = h[b]
    PROVE  InLine' /\ PubsFresh'
<1>1. \A t \in Session : \A l \in 0..3 :
         /\ DOMAIN Line(l, t)' = DOMAIN Line(l, t)
         /\ \A n \in DOMAIN Line(l, t) :
               (Here(l, n, t)' <=> Here(l, n, t)) /\ Msg(l, n, t)' = Msg(l, n, t)
  BY DEF Line, Here, Msg
<1>2. InLine'
  BY <1>1, LineFollows
<1>3. PubsFresh'
  BY <1>1, FreshFollows
<1> QED
  BY <1>2, <1>3

LEMMA MatchFollows ==
    ASSUME InLine, PubsFresh, PortsTyped, HandlersOK, HandlersBear, NEW s \in Session,
           boss' = boss, cmds' = cmds, wire' = wire, nextPub' = nextPub + 1,
           h'[s].pc = "forward", h'[s].pub = nextPub,
           \A t \in Session \ {s} : h'[t] = h[t]
    PROVE  InLine' /\ PubsFresh'
<1>1. \A t \in Session : \A l \in 0..3 :
         /\ DOMAIN Line(l, t)' = DOMAIN Line(l, t)
         /\ \A n \in DOMAIN Line(l, t) :
               (Here(l, n, t)' <=> Here(l, n, t)) /\ Msg(l, n, t)' = Msg(l, n, t)
  BY DEF Line, Here, Msg
<1>2. InLine'
  BY <1>1, LineFollows
<1>3. nextPub \in Nat
  BY DEF PortsTyped
<1>4. ASSUME NEW t \in Session, NEW l \in 0..3, NEW n \in DOMAIN Line(l, t),
             Here(l, n, t), Msg(l, n, t).type \in {"event", "published"}
      PROVE  /\ Msg(l, n, t).pub < nextPub + 1
             /\ l \in {2, 3} => Msg(l, n, t).path = "dart"
             /\ \A c \in Session : h'[c].pc = "forward" =>
                   /\ Msg(l, n, t).pub # h'[c].pub
                   /\ Msg(l, n, t).type = "event" /\ Msg(l, n, t).by = c =>
                         Msg(l, n, t).pub < h'[c].pub
  <2>1. PICK f : f = Msg(l, n, t)
    OBVIOUS
  <2>2. f.pub \in Nat
    BY <1>4, <2>1, PlacesTyped
  <2>3. /\ f.pub < nextPub
        /\ l \in {2, 3} => f.path = "dart"
        /\ \A b \in Session : h[b].pc = "forward" =>
              f.pub # h[b].pub /\ (f.type = "event" /\ f.by = b => f.pub < h[b].pub)
    BY <1>4, <2>1 DEF PubsFresh, At
  <2>4. f.pub < nextPub + 1 /\ f.pub # nextPub
    BY <1>3, <2>2, <2>3
  <2> QED
    BY <2>1, <2>3, <2>4
<1>5. \A b \in Session : h'[b].pc = "forward" =>
         /\ h'[b].pub < nextPub + 1
         /\ \A c \in Session : h'[c].pc = "forward" /\ h'[c].pub = h'[b].pub => c = b
  <2>1. \A b \in Session \ {s} : h'[b].pc = "forward" =>
           h'[b].pub \in Nat /\ h'[b].pub < nextPub
    BY DEF HandlersBear, Bears, PubsFresh, At, PubId
  <2>2. \A b \in Session : h'[b].pc = "forward" => h'[b].pub < nextPub + 1
    BY <1>3, <2>1
  <2>3. \A b, c \in Session \ {s} : h'[b].pc = "forward" /\ h'[c].pc = "forward"
           /\ h'[c].pub = h'[b].pub => c = b
    BY DEF PubsFresh, At
  <2>4. \A b \in Session \ {s} : h'[b].pc = "forward" => h'[b].pub # h'[s].pub
    BY <1>3, <2>1
  <2> QED
    BY <2>2, <2>3, <2>4
<1>6. PubsFresh'
  BY <1>1, <1>4, <1>5 DEF PubsFresh, At
<1> QED
  BY <1>2, <1>6
-----------------------------------------------------------------------------
(* The invariant *)
LEMMA BrokerInvInit == Init => BrokerInv
<1> SUFFICES ASSUME Init PROVE BrokerInv
  OBVIOUS
<1> USE DEF Init
<1>1. StoreInv /\ HandlersOK
  BY InvInit, HandlersInit
<1>2. \A s \in Session : h[s] = Idle /\ cmds[s] = <<>> /\ wire[s] = <<>> /\ acked[s] = {}
  OBVIOUS
<1>3. HandlersBear
  BY <1>2 DEF HandlersBear, Bears, Idle
<1>4. PortsTyped
  <2>1. BossTyped
    BY DEF BossTyped
  <2>2. cmds \in [Session -> Seq(Event \cup {RemoveCmd})]
    BY <1>2
  <2>3. wire \in [Session -> Seq(Event \cup Published)]
    BY <1>2
  <2>4. open = Session
    BY DEF StoreInit
  <2> QED
    BY <1>2, <2>1, <2>2, <2>3, <2>4, BrokerAssumption DEF PortsTyped
<1> HIDE DEF Init
<1>5. DOMAIN boss = {} /\ \A s \in Session : h[s].pc = "idle"
  BY <1>2 DEF Init, Idle
<1>6. ReadyOnce
  BY <1>5 DEF ReadyOnce, At
<1>7. ToldTrue
  <2>1. open \subseteq Session
    BY <1>1 DEF StoreInv, StoreTypeOK
  <2> QED
    BY <1>2, <1>5, <2>1 DEF ToldTrue, At
<1>8. \A t \in Session : \A l \in 0..3 : DOMAIN Line(l, t) = {}
  BY <1>2, <1>5 DEF Line
<1>9. InLine
  BY <1>8 DEF InLine
<1>10. PubsFresh
  BY <1>8, <1>5 DEF PubsFresh, At
<1> QED
  BY <1>1, <1>3, <1>4, <1>6, <1>7, <1>9, <1>10 DEF BrokerInv, PortsInv

LEMMA EndKeepsInv ==
    ASSUME BrokerInv, NEW s \in Session, NEW posts, PostsFit(s, posts), End(s, posts),
           h[s].pc # "ended",
           UNCHANGED <<connected, known, cmds, acked, wire, nextPub>>,
           open' \subseteq open,
           \A t \in open' : \A i \in SubId : Has(t, i) => Has(t, i)'
    PROVE  PortsInv'
<1> USE DEF BrokerInv, PortsInv
<1>1. HandlersBear'
  BY EndBears
<1>2. BossTyped'
  BY TypedEnds DEF PortsTyped
<1>3. PortsTyped'
  BY <1>2 DEF PortsTyped
<1>4. boss \in Seq(PortEntry)
  BY DEF PortsTyped, BossTyped
<1>5. ReadyOnce'
  BY <1>4, ReadyEnds
<1>6. ToldTrue'
  BY <1>4, ToldEnds
<1>7. InLine' /\ PubsFresh'
  BY EndFollows
<1> QED
  BY <1>1, <1>3, <1>5, <1>6, <1>7

LEMMA StoreStill ==
    ASSUME UNCHANGED storeVars
    PROVE  open' = open /\ \A t \in open' : \A i \in SubId : Has(t, i) => Has(t, i)'
BY DEF storeVars, Has

(* A step of a handler that sends nothing. *)
LEMMA MoveKeepsInv ==
    ASSUME BrokerInv, NEW s \in Session, NEW r, Goto(s, r), Bears(r),
           h[s].pc # "ended", r.pc \notin {"ended", "forward"},
           UNCHANGED <<connected, known, boss, cmds, wire, nextPub>>,
           open' \subseteq open, acked' \in [Session -> SUBSET SubId], ToldTrue'
    PROVE  PortsInv'
<1> USE DEF BrokerInv, PortsInv
<1>1. HandlersBear'
  BY GotoBears
<1>2. PortsTyped'
  BY DEF PortsTyped, BossTyped
<1>3. h'[s] = r /\ \A t \in Session \ {s} : h'[t] = h[t]
  BY GotoSets
<1>4. ReadyOnce'
  BY <1>3, ReadyStays
<1>5. InLine' /\ PubsFresh'
  BY <1>3, StayFollows
<1> QED
  BY <1>1, <1>2, <1>4, <1>5

LEMMA RequestKeepsInv ==
    ASSUME BrokerInv, NEW s \in Session, Request(s)
    PROVE  PortsInv'
<1>0. StoreInv /\ HandlersOK /\ ToldTrue /\ acked \in [Session -> SUBSET SubId]
  BY DEF BrokerInv, PortsInv, PortsTyped
<1>1. ASSUME NEW p \in Pattern, Subscribe(s, p) PROVE PortsInv'
  <2> DEFINE r == [pc |-> "subscribe", pattern |-> p]
  <2>1. /\ Goto(s, r) /\ h[s].pc = "idle" /\ UNCHANGED storeVars
        /\ UNCHANGED <<connected, known, boss, cmds, acked, wire, nextPub>>
    BY <1>1 DEF Subscribe, Receives, At
  <2>2. Bears(r) /\ r.pc = "subscribe"
    BY DEF Bears
  <2> HIDE DEF r
  <2>3. open' = open /\ \A t \in open' : \A i \in SubId : Has(t, i) => Has(t, i)'
    BY <2>1, StoreStill
  <2>4. \A t \in Session : h'[t] = r \/ h'[t] = h[t]
    BY <1>0, <2>1, GotoSets
  <2>5. ToldTrue'
    BY <1>0, <2>1, <2>2, <2>3, <2>4, ToldStays DEF StoreInv, StoreTypeOK
  <2> QED
    BY <1>0, <2>1, <2>2, <2>3, <2>5, MoveKeepsInv
<1>2. ASSUME NEW i \in SubId, Unsubscribe(s, i) PROVE PortsInv'
  <2> DEFINE r == [pc |-> "unsubscribe", id |-> i,
                   owns |-> i \in entry /\ s \in subscribers[i]]
  <2>1. /\ Goto(s, r) /\ h[s].pc = "idle" /\ UNCHANGED storeVars
        /\ UNCHANGED <<connected, known, boss, cmds, wire, nextPub>>
        /\ acked' = [acked EXCEPT ![s] = @ \ {i}]
    BY <1>2 DEF Unsubscribe, Receives, At
  <2>2. Bears(r) /\ r.pc = "unsubscribe"
    BY DEF Bears
  <2> HIDE DEF r
  <2>3. open' = open
    BY <2>1, StoreStill
  <2>4. ToldTrue'
    BY <1>0, <1>2, ToldAsks
  <2>5. acked' \in [Session -> SUBSET SubId]
    BY <1>0, <2>1
  <2> QED
    BY <2>1, <2>2, <2>3, <2>4, <2>5, MoveKeepsInv
<1>3. ASSUME NEW t \in Topic, NEW ack \in BOOLEAN, NEW custom \in Customs,
             Publish(s, t, ack, custom)
      PROVE  PortsInv'
  <2> DEFINE r == [pc |-> "publish", topic |-> t, ack |-> ack, custom |-> custom]
  <2>1. /\ Goto(s, r) /\ h[s].pc = "idle" /\ UNCHANGED storeVars
        /\ UNCHANGED <<connected, known, boss, cmds, acked, wire, nextPub>>
    BY <1>3 DEF Publish, Receives, At
  <2>2. Bears(r) /\ r.pc = "publish"
    BY DEF Bears
  <2> HIDE DEF r
  <2>3. open' = open /\ \A u \in open' : \A i \in SubId : Has(u, i) => Has(u, i)'
    BY <2>1, StoreStill
  <2>4. \A u \in Session : h'[u] = r \/ h'[u] = h[u]
    BY <1>0, <2>1, GotoSets
  <2>5. ToldTrue'
    BY <1>0, <2>1, <2>2, <2>3, <2>4, ToldStays DEF StoreInv, StoreTypeOK
  <2> QED
    BY <1>0, <2>1, <2>2, <2>3, <2>5, MoveKeepsInv
<1>4. CASE Goodbye(s)
  <2>1. /\ CloseStoreSession(s) /\ End(s, <<>>) /\ h[s].pc = "idle"
        /\ UNCHANGED <<connected, known, cmds, acked, wire, nextPub>>
    BY <1>4 DEF Goodbye, Receives, At
  <2>2. /\ open' = open \ {s}
        /\ \A t \in Session \ {s}, j \in SubId : Has(t, j) => Has(t, j)'
    BY <1>0, <2>1, CloseTakesOwn
  <2>3. open' \subseteq open /\ \A t \in open' : \A i \in SubId : Has(t, i) => Has(t, i)'
    BY <1>0, <2>2 DEF StoreInv, StoreTypeOK
  <2> QED
    BY <2>1, <2>3, NothingFits, EndKeepsInv
<1> QED
  BY <1>1, <1>2, <1>3, <1>4 DEF Request

LEMMA HandleKeepsInv ==
    ASSUME BrokerInv, NEW s \in Session, Handle(s)
    PROVE  PortsInv'
<1>0. /\ StoreInv /\ HandlersOK /\ HandlersBear /\ ToldTrue /\ ReadyOnce /\ PortsTyped
      /\ InLine /\ PubsFresh
      /\ acked \in [Session -> SUBSET SubId] /\ nextPub \in 1..(MaxPub + 1)
  BY DEF BrokerInv, PortsInv, PortsTyped
<1>1. CASE Refused(s)
  <2>1. /\ End(s, <<>>) /\ h[s].pc # "ended" /\ UNCHANGED storeVars
        /\ UNCHANGED <<connected, known, cmds, acked, wire, nextPub>>
    BY <1>1 DEF Refused
  <2> QED
    BY <2>1, StoreStill, NothingFits, EndKeepsInv
<1>2. CASE SubscribeAdd(s)
  <2>1. /\ ToldTrue' /\ HandlersOK' /\ h[s].pc = "subscribe"
        /\ h'[s].pc = "subscribed" /\ h'[s].id \in SubId
        /\ \A t \in Session \ {s} : h'[t] = h[t]
    BY <1>0, <1>2, ToldAdds
  <2>2. /\ UNCHANGED <<connected, known, boss, cmds, acked, wire, nextPub>>
        /\ open' = open
    BY <1>2 DEF SubscribeAdd, AddSubscription
  <2>3. HandlersBear'
    BY <1>0, <2>1 DEF HandlersBear, Bears
  <2>4. PortsTyped'
    BY <1>0, <2>2 DEF PortsTyped, BossTyped
  <2>5. ReadyOnce'
    BY <1>0, <2>1, <2>2, ReadyStays
  <2>6. InLine' /\ PubsFresh'
    BY <1>0, <2>1, <2>2, StayFollows
  <2> QED
    BY <2>1, <2>3, <2>4, <2>5, <2>6 DEF PortsInv
<1>3. CASE SubscribeReply(s)
  <2> DEFINE posts == Post("send", s, [type |-> "subscribed", sub |-> h[s].id])
  <2>1. /\ End(s, posts) /\ h[s].pc = "subscribed" /\ UNCHANGED storeVars
        /\ At(s, "subscribed")
        /\ UNCHANGED <<connected, known, cmds, acked, wire, nextPub>>
    BY <1>3 DEF SubscribeReply, At
  <2>2. PostsFit(s, posts)
    BY <1>0, <2>1, SubscribedFits
  <2> HIDE DEF posts
  <2> QED
    BY <2>1, <2>2, StoreStill, EndKeepsInv
<1>4. CASE UnsubscribeRemove(s)
  <2> DEFINE r == [pc |-> "unsubscribed"]
  <2>1. /\ Goto(s, r) /\ h[s].pc = "unsubscribe"
        /\ UNCHANGED <<connected, known, boss, cmds, acked, wire, nextPub>>
        /\ open' = open
    BY <1>4 DEF UnsubscribeRemove, At, RemoveSubscription
  <2>2. Bears(r) /\ r.pc = "unsubscribed"
    BY DEF Bears
  <2> HIDE DEF r
  <2>3. ToldTrue'
    BY <1>0, <1>4, ToldRemoves
  <2> QED
    BY <1>0, <2>1, <2>2, <2>3, MoveKeepsInv
<1>5. CASE UnsubscribeReply(s)
  <2>1. /\ End(s, <<>>) /\ h[s].pc # "ended" /\ UNCHANGED storeVars
        /\ UNCHANGED <<connected, known, cmds, acked, wire, nextPub>>
    BY <1>5 DEF UnsubscribeReply, At
  <2> QED
    BY <2>1, StoreStill, NothingFits, EndKeepsInv
<1>6. ASSUME NEW skip \in SUBSET Session, PublishMatch(s, skip) PROVE PortsInv'
  <2>1. /\ UNCHANGED <<connected, known, boss, cmds, acked, wire>> /\ UNCHANGED storeVars
        /\ nextPub' = nextPub + 1 /\ nextPub <= MaxPub /\ h[s].pc = "publish"
    BY <1>6 DEF PublishMatch, At
  <2>2. HandlersBear' /\ h'[s].pc = "forward" /\ h'[s].pub = nextPub
    BY <1>0, <1>6, MatchBears
  <2>3. PICK r : Goto(s, r)
    BY <1>6 DEF PublishMatch
  <2>4. \A t \in Session \ {s} : h'[t] = h[t]
    BY <1>0, <2>3, GotoSets
  <2>5. open' = open /\ \A t \in open' : \A i \in SubId : Has(t, i) => Has(t, i)'
    BY <2>1, StoreStill
  <2>6. PortsTyped'
    <3>1. nextPub' \in 1..(MaxPub + 1)
      BY <1>0, <2>1, BrokerAssumption
    <3> QED
      BY <1>0, <2>1, <2>5, <3>1 DEF PortsTyped, BossTyped
  <2>7. ReadyOnce'
    BY <1>0, <2>1, <2>2, <2>4, ReadyStays
  <2>8. ToldTrue'
    BY <1>0, <2>1, <2>2, <2>4, <2>5, ToldStays DEF StoreInv, StoreTypeOK
  <2>9. InLine' /\ PubsFresh'
    BY <1>0, <2>1, <2>2, <2>4, MatchFollows
  <2> QED
    BY <2>2, <2>6, <2>7, <2>8, <2>9 DEF PortsInv
<1>7. ASSUME NEW retained \in BOOLEAN, PublishForward(s, retained) PROVE PortsInv'
  <2>1. /\ UNCHANGED storeVars /\ h[s].pc = "forward"
        /\ UNCHANGED <<connected, known, cmds, acked, wire, nextPub>>
    BY <1>7 DEF PublishForward, At
  <2>2. PICK posts : End(s, posts) /\ PostsFit(s, posts)
    BY <1>0, <1>7, PublicationFits
  <2> QED
    BY <2>1, <2>2, StoreStill, EndKeepsInv
<1> QED
  BY <1>1, <1>2, <1>3, <1>4, <1>5, <1>6, <1>7 DEF Handle

LEMMA WorkerKeepsInv ==
    ASSUME BrokerInv, NEW s \in Session,
           Disconnect(s) \/ WorkerRemove(s) \/ WorkerSend(s)
    PROVE  PortsInv'
<1>0. /\ StoreInv /\ HandlersOK /\ HandlersBear /\ ToldTrue /\ ReadyOnce /\ PortsTyped
      /\ InLine /\ PubsFresh
      /\ BossTyped /\ boss \in Seq(PortEntry)
      /\ cmds \in [Session -> Seq(Event \cup {RemoveCmd})]
      /\ cmds[s] \in Seq(Event \cup {RemoveCmd})
  BY DEF BrokerInv, PortsInv, PortsTyped, BossTyped
<1>1. /\ h' = h /\ acked' = acked /\ wire' = wire /\ nextPub' = nextPub
  BY DEF Disconnect, WorkerRemove, WorkerSend
<1>2. HandlersBear'
  BY <1>0, <1>1 DEF HandlersBear
<1>3. CASE Disconnect(s)
  <2>1. /\ s \in connected /\ connected' = connected \ {s}
        /\ cmds' = [cmds EXCEPT ![s] = Append(@, RemoveCmd)]
        /\ UNCHANGED storeVars /\ known' = known /\ boss' = boss
    BY <1>3 DEF Disconnect, Detach
  <2>2. open' = open /\ \A t \in open' : \A i \in SubId : Has(t, i) => Has(t, i)'
    BY <2>1, StoreStill
  <2>3. cmds' \in [Session -> Seq(Event \cup {RemoveCmd})]
    <3>1. Append(cmds[s], RemoveCmd) \in Seq(Event \cup {RemoveCmd})
      BY <1>0
    <3> QED
      BY <1>0, <2>1, <3>1
  <2>4. \A t \in connected' : cmds'[t] = cmds[t]
    BY <1>0, <2>1 DEF PortsTyped
  <2>5. PortsTyped'
    BY <1>0, <1>1, <2>1, <2>2, <2>3, <2>4 DEF PortsTyped, BossTyped
  <2>6. ReadyOnce'
    BY <1>0, <1>1, <2>1, ReadyStays
  <2>7. ToldTrue'
    BY <1>0, <1>1, <2>1, <2>2, ToldStays
  <2>8. InLine' /\ PubsFresh'
    BY <1>0, <1>1, <2>1, DetachFollows
  <2> QED
    BY <1>2, <2>5, <2>6, <2>7, <2>8 DEF PortsInv
<1>4. CASE WorkerRemove(s)
  <2>1. /\ cmds[s] # <<>> /\ Head(cmds[s]) = RemoveCmd
        /\ cmds' = [cmds EXCEPT ![s] = Tail(@)]
        /\ known' = known \ {s} /\ CloseStoreSession(s)
        /\ connected' = connected /\ boss' = boss
    BY <1>4 DEF WorkerRemove
  <2>2. /\ open' = open \ {s}
        /\ \A t \in Session \ {s}, j \in SubId : Has(t, j) => Has(t, j)'
    BY <1>0, <2>1, CloseTakesOwn
  <2>3. open' \subseteq open /\ \A t \in open' : \A i \in SubId : Has(t, i) => Has(t, i)'
    BY <1>0, <2>2 DEF StoreInv, StoreTypeOK
  <2>4. cmds' \in [Session -> Seq(Event \cup {RemoveCmd})]
    <3>1. Tail(cmds[s]) \in Seq(Event \cup {RemoveCmd})
      BY <1>0, <2>1
    <3> QED
      BY <1>0, <2>1, <3>1
  <2>5. s \notin connected
    <3>1. 1 \in DOMAIN cmds[s] /\ cmds[s][1] = RemoveCmd
      BY <1>0, <2>1
    <3> QED
      BY <1>0, <3>1 DEF PortsTyped
  <2>6. \A t \in connected' : cmds'[t] = cmds[t]
    BY <1>0, <2>1, <2>5 DEF PortsTyped
  <2>7. PortsTyped'
    BY <1>0, <1>1, <2>1, <2>2, <2>4, <2>5, <2>6 DEF PortsTyped, BossTyped
  <2>8. ReadyOnce'
    BY <1>0, <1>1, <2>1, ReadyStays
  <2>9. ToldTrue'
    BY <1>0, <1>1, <2>1, <2>3, ToldStays
  <2>10. InLine' /\ PubsFresh'
    BY <1>0, <1>1, <2>1, WorkerFollows
  <2> QED
    BY <1>2, <2>7, <2>8, <2>9, <2>10 DEF PortsInv
<1>5. CASE WorkerSend(s)
  <2>1. /\ cmds[s] # <<>> /\ Head(cmds[s]) # RemoveCmd
        /\ cmds' = [cmds EXCEPT ![s] = Tail(@)]
        /\ boss' = boss \/ boss' = boss \o Post("send", s, Head(cmds[s]))
        /\ UNCHANGED storeVars /\ UNCHANGED <<connected, known>>
    BY <1>5 DEF WorkerSend
  <2>2. open' = open /\ \A t \in open' : \A i \in SubId : Has(t, i) => Has(t, i)'
    BY <2>1, StoreStill
  <2>3. Head(cmds[s]) \in Event /\ Tail(cmds[s]) \in Seq(Event \cup {RemoveCmd})
    <3>1. Head(cmds[s]) \in Event \cup {RemoveCmd}
      BY <1>0, <2>1
    <3>2. Tail(cmds[s]) \in Seq(Event \cup {RemoveCmd})
      BY <1>0, <2>1
    <3> QED
      BY <2>1, <3>1, <3>2
  <2>4. cmds' \in [Session -> Seq(Event \cup {RemoveCmd})]
    BY <1>0, <2>1, <2>3
  <2>5. \A t \in connected : \A n \in DOMAIN cmds'[t] : cmds'[t][n] # RemoveCmd
    <3> SUFFICES ASSUME NEW t \in connected, NEW n \in DOMAIN cmds'[t]
                 PROVE  cmds'[t][n] # RemoveCmd
      OBVIOUS
    <3>1. t \in Session /\ \A k \in DOMAIN cmds[t] : cmds[t][k] # RemoveCmd
      BY <1>0 DEF PortsTyped
    <3>2. CASE t = s
      <4>1. PICK q : q = cmds[s]
        OBVIOUS
      <4>2. q \in Seq(Event \cup {RemoveCmd}) /\ q # <<>> /\ cmds'[t] = Tail(q)
        BY <1>0, <2>1, <3>2, <4>1
      <4>3. \A k \in DOMAIN Tail(q) : k + 1 \in DOMAIN q /\ Tail(q)[k] = q[k + 1]
        BY <4>2
      <4> QED
        BY <3>1, <3>2, <4>1, <4>2, <4>3
    <3>3. CASE t # s
      BY <1>0, <2>1, <3>1, <3>3
    <3> QED
      BY <3>2, <3>3
  <2>6. BossTyped'
    <3>1. CASE boss' = boss
      BY <1>0, <3>1 DEF BossTyped
    <3>2. CASE boss' = boss \o Post("send", s, Head(cmds[s]))
      BY <1>0, <2>3, <3>2, TypedSends
    <3> QED
      BY <2>1, <3>1, <3>2
  <2>7. PortsTyped'
    BY <1>0, <1>1, <2>1, <2>2, <2>4, <2>5, <2>6 DEF PortsTyped
  <2>8. ReadyOnce'
    BY <1>0, <1>1, <2>1, <2>3, ReadyStays, ReadySends
  <2>9. ToldTrue'
    <3>1. CASE boss' = boss
      BY <1>0, <1>1, <2>2, <3>1, ToldStays
    <3>2. CASE boss' = boss \o Post("send", s, Head(cmds[s]))
      BY <1>0, <1>1, <2>1, <2>3, <3>2, ToldSends
    <3> QED
      BY <2>1, <3>1, <3>2
  <2>10. InLine' /\ PubsFresh'
    BY <1>0, <1>1, <2>1, <2>3, WorkerFollows
  <2> QED
    BY <1>2, <2>7, <2>8, <2>9, <2>10 DEF PortsInv
<1> QED
  BY <1>3, <1>4, <1>5

LEMMA BossKeepsInv ==
    ASSUME BrokerInv, Boss
    PROVE  PortsInv'
<1>0. /\ StoreInv /\ HandlersOK /\ HandlersBear /\ ToldTrue /\ ReadyOnce /\ PortsTyped
      /\ InLine /\ PubsFresh
      /\ BossTyped /\ boss \in Seq(PortEntry)
      /\ cmds \in [Session -> Seq(Event \cup {RemoveCmd})]
      /\ wire \in [Session -> Seq(Event \cup Published)]
      /\ acked \in [Session -> SUBSET SubId]
  BY DEF BrokerInv, PortsInv, PortsTyped, BossTyped
<1>1. /\ boss # <<>> /\ boss' = Tail(boss) /\ UNCHANGED storeVars
      /\ UNCHANGED <<known, nextPub>>
  BY DEF Boss, BossWrite, BossSendRejected, BossNativeRejected, BossForward, BossReady
<1>2. PICK c \in Session : Head(boss).to = c
  BY <1>0, <1>1, TypedPops
<1>3. PICK msg : Head(boss).msg = msg
  OBVIOUS
<1>4. /\ Head(boss) = boss[1]
      /\ BossTyped'
      /\ Head(boss).how \in {"send", "native"} => msg \in Message
      /\ Head(boss).how = "forward" => msg \in Event
  BY <1>0, <1>1, <1>3, TypedPops, PopShifts
<1>5. open' = open
  BY <1>1, StoreStill
<1>6. CASE BossWrite
  <2>1. /\ Head(boss).how \in {"send", "native"}
        /\ UNCHANGED <<connected, h, cmds>>
        /\ acked' = IF msg.type = "subscribed" /\ c \in connected
                    THEN [acked EXCEPT ![c] = @ \cup {msg.sub}] ELSE acked
        /\ wire' = IF msg.type # "subscribed" /\ c \in connected
                   THEN [wire EXCEPT ![c] = Append(@, msg)] ELSE wire
    BY <1>2, <1>3, <1>6 DEF BossWrite
  <2>2. /\ msg.type = "subscribed" => msg.sub \in SubId
        /\ msg.type # "subscribed" => msg \in Event \cup Published
    <3>1. msg \in Event \cup Published \cup Subscribed
      BY <1>4, <2>1 DEF Message
    <3>2. /\ msg \in Subscribed => msg.type = "subscribed" /\ msg.sub \in SubId
          /\ msg \in Event \cup Published => msg.type # "subscribed"
      BY DEF Event, Published, Subscribed
    <3> QED
      BY <3>1, <3>2
  <2>3. acked' \in [Session -> SUBSET SubId]
    BY <1>0, <2>1, <2>2
  <2>4. wire' \in [Session -> Seq(Event \cup Published)]
    <3>1. msg.type # "subscribed" => Append(wire[c], msg) \in Seq(Event \cup Published)
      BY <1>0, <2>2
    <3> QED
      BY <1>0, <2>1, <3>1
  <2>5. PortsTyped'
    BY <1>0, <1>1, <1>4, <1>5, <2>1, <2>3, <2>4 DEF PortsTyped
  <2>6. HandlersBear'
    BY <1>0, <2>1 DEF HandlersBear
  <2>7. ReadyOnce'
    BY <1>0, <1>1, <2>1, ReadyPops
  <2>8. ToldTrue'
    <3>1. CASE acked' = acked
      BY <1>0, <1>1, <2>1, <3>1, ToldPops
    <3>2. CASE acked' # acked
      BY <1>0, <1>6, <3>2, ToldWrites
    <3> QED
      BY <3>1, <3>2
  <2>9. InLine' /\ PubsFresh'
    <3>1. \/ wire' = wire
          \/ /\ wire' = [wire EXCEPT ![c] = Append(@, boss[1].msg)]
             /\ boss[1].how \in {"send", "native"} /\ boss[1].to = c
      BY <1>2, <1>3, <1>4, <2>1
    <3> QED
      BY <1>0, <1>1, <2>1, <3>1, WriteFollows
  <2> QED
    BY <2>5, <2>6, <2>7, <2>8, <2>9 DEF PortsInv
<1>7. CASE BossNativeRejected \/ BossReady
  <2>1. /\ UNCHANGED <<connected, cmds, acked, wire>>
        /\ (h' = h /\ Head(boss).how # "ready") \/ BossReady
    BY <1>7 DEF BossNativeRejected, BossReady
  <2>2. PortsTyped'
    BY <1>0, <1>1, <1>4, <1>5, <2>1 DEF PortsTyped
  <2>3. \A t \in Session : h'[t] = h[t] \/ h'[t] = Idle
    <3>1. CASE h' = h
      BY <3>1
    <3>2. CASE BossReady
      BY <1>0, <1>2, <3>2, GotoSets DEF BossReady
    <3> QED
      BY <2>1, <3>1, <3>2
  <2>4. HandlersBear'
    <3>1. Bears(Idle)
      BY DEF Bears, Idle
    <3> QED
      BY <1>0, <2>3, <3>1 DEF HandlersBear
  <2>5. ReadyOnce'
    BY <1>0, <1>1, <2>1, ReadyPops, ReadyTaken
  <2>6. ToldTrue'
    BY <1>0, <1>1, <2>1, ToldPops
  <2>7. \A b \in Session : h'[b].pc = "forward" => h'[b] = h[b]
    BY <2>3 DEF Idle
  <2>8. InLine' /\ PubsFresh'
    BY <1>0, <1>1, <2>1, <2>7, WriteFollows
  <2> QED
    BY <2>2, <2>4, <2>5, <2>6, <2>8 DEF PortsInv
<1>8. CASE BossSendRejected \/ BossForward
  <2>1. /\ UNCHANGED <<acked, wire, h>> /\ Head(boss).how # "ready"
        /\ \/ connected' = connected /\ cmds' = cmds
           \/ /\ connected' = connected
              /\ cmds' = [cmds EXCEPT ![c] = Append(@, msg)] /\ Head(boss).how = "forward"
           \/ /\ connected' = connected \ {c}
              /\ cmds' = [cmds EXCEPT ![c] = Append(@, RemoveCmd)]
    BY <1>2, <1>3, <1>8 DEF BossSendRejected, BossForward, Detach
  <2>2. HandlersBear'
    BY <1>0, <2>1 DEF HandlersBear
  <2>3. cmds' \in [Session -> Seq(Event \cup {RemoveCmd})]
    <3>1. /\ Append(cmds[c], RemoveCmd) \in Seq(Event \cup {RemoveCmd})
          /\ msg \in Event => Append(cmds[c], msg) \in Seq(Event \cup {RemoveCmd})
      BY <1>0
    <3> QED
      BY <1>0, <1>4, <2>1, <3>1
  <2>4. \A t \in connected' : \A n \in DOMAIN cmds'[t] : cmds'[t][n] # RemoveCmd
    <3> SUFFICES ASSUME NEW t \in connected', NEW n \in DOMAIN cmds'[t]
                 PROVE  cmds'[t][n] # RemoveCmd
      OBVIOUS
    <3>1. t \in Session /\ \A k \in DOMAIN cmds[t] : cmds[t][k] # RemoveCmd
      BY <1>0, <2>1 DEF PortsTyped
    <3>2. CASE cmds'[t] = cmds[t]
      BY <3>1, <3>2
    <3>3. CASE cmds'[t] # cmds[t]
      <4>1. cmds'[t] = Append(cmds[t], msg) /\ msg \in Event
        BY <1>0, <1>4, <2>1, <3>1, <3>3
      <4>2. msg # RemoveCmd
        BY <4>1 DEF Event, RemoveCmd
      <4>3. cmds[t] \in Seq(Event \cup {RemoveCmd})
        BY <1>0, <3>1
      <4>4. (n \in DOMAIN cmds[t] /\ cmds'[t][n] = cmds[t][n]) \/ cmds'[t][n] = msg
        BY <4>1, <4>3
      <4> QED
        BY <3>1, <4>2, <4>4
    <3> QED
      BY <3>2, <3>3
  <2>5. PortsTyped'
    BY <1>0, <1>1, <1>4, <1>5, <2>1, <2>3, <2>4 DEF PortsTyped
  <2>6. ReadyOnce'
    BY <1>0, <1>1, <2>1, ReadyPops
  <2>7. ToldTrue'
    BY <1>0, <1>1, <2>1, ToldPops
  <2>8. InLine' /\ PubsFresh'
    <3>1. \/ cmds' = cmds
          \/ /\ cmds' = [cmds EXCEPT ![c] = Append(@, boss[1].msg)]
             /\ boss[1].how = "forward" /\ boss[1].to = c
          \/ cmds' = [cmds EXCEPT ![c] = Append(@, RemoveCmd)]
      BY <1>2, <1>3, <1>4, <2>1
    <3> QED
      BY <1>0, <1>1, <2>1, <3>1, ForwardFollows
  <2> QED
    BY <2>2, <2>5, <2>6, <2>7, <2>8 DEF PortsInv
<1> QED
  BY <1>6, <1>7, <1>8 DEF Boss

LEMMA BrokerInvStep ==
    ASSUME BrokerInv, [Next]_vars
    PROVE  BrokerInv'
<1>1. HandlersOK' /\ [StoreNext]_storeVars
  BY BrokerStep DEF BrokerInv
<1>2. StoreInv'
  BY <1>1, StoreKeeps DEF BrokerInv
<1>3. CASE Next
  <2>1. PortsInv'
    BY <1>3, RequestKeepsInv, HandleKeepsInv, WorkerKeepsInv, BossKeepsInv DEF Next
  <2> QED
    BY <1>1, <1>2, <2>1 DEF BrokerInv
<1>4. CASE UNCHANGED vars
  <2>1. /\ open' = open /\ entry' = entry /\ subscribers' = subscribers
        /\ connected' = connected /\ known' = known /\ h' = h /\ boss' = boss
        /\ cmds' = cmds /\ acked' = acked /\ wire' = wire /\ nextPub' = nextPub
    BY <1>4 DEF vars, storeVars, brokerVars
  <2>2. HandlersBear' /\ PortsTyped'
    BY <2>1 DEF BrokerInv, PortsInv, HandlersBear, PortsTyped, BossTyped
  <2>3. ReadyOnce'
    BY <2>1, ReadyStays DEF BrokerInv, PortsInv
  <2>4. ToldTrue'
    BY <2>1 DEF BrokerInv, PortsInv, ToldTrue, Has, SubscribedAt, At
  <2>5. InLine' /\ PubsFresh'
    BY <2>1, StayFollows DEF BrokerInv, PortsInv
  <2> QED
    BY <1>1, <1>2, <2>2, <2>3, <2>4, <2>5 DEF BrokerInv, PortsInv
<1> QED
  BY <1>3, <1>4

LEMMA BrokerInvHolds == Spec => []BrokerInv
<1>1. BrokerInv /\ [Next]_vars => BrokerInv'
  BY BrokerInvStep
<1> QED
  BY <1>1, BrokerInvInit, PTL DEF Spec

(* A session that was told SUBSCRIBED stays a subscriber until it asks not *)
(* to be one or goes, however the handlers of all sessions interleave with *)
(* the boss.                                                               *)
THEOREM ToldIsSubscribed == Spec => []SubscribedIsTrue
<1>1. BrokerInv => SubscribedIsTrue
  BY DEF BrokerInv, PortsInv, ToldTrue, SubscribedIsTrue, Has
<1> QED
  BY <1>1, BrokerInvHolds, PTL

LEMMA WireInLine ==
    ASSUME InLine, NEW s \in Session, NEW m \in DOMAIN wire[s], NEW n \in DOMAIN wire[s],
           m < n
    PROVE  MayPrecede(wire[s][m], wire[s][n])
<1>1. /\ Line(0, s) = wire[s] /\ Here(0, m, s) /\ Here(0, n, s) /\ Earlier(0, m, 0, n)
      /\ Msg(0, m, s) = wire[s][m] /\ Msg(0, n, s) = wire[s][n]
  BY DEF Line, Here, Earlier, Msg
<1>2. 0 \in 0..3
  OBVIOUS
<1> QED
  BY <1>1, <1>2 DEF InLine

LEMMA InvOrders == BrokerInv => PubSubOrdered
<1> SUFFICES ASSUME BrokerInv PROVE PubSubOrdered
  OBVIOUS
<1> USE DEF BrokerInv, PortsInv
<1>1. TypeOK
  <2>1. ASSUME NEW s \in Session
        PROVE  Cardinality({n \in DOMAIN boss : boss[n].how = "ready" /\ boss[n].to = s})
                 = IF At(s, "ended") THEN 1 ELSE 0
    <3> DEFINE R == {n \in DOMAIN boss : boss[n].how = "ready" /\ boss[n].to = s}
    <3>1. CASE At(s, "ended")
      <4>1. PICK n \in DOMAIN boss : ReadyAt(n, s)
        BY <3>1 DEF ReadyOnce
      <4>2. \A m \in DOMAIN boss : ReadyAt(m, s) => m = n
        BY <4>1 DEF ReadyOnce
      <4>3. R = {n}
        BY <4>1, <4>2 DEF ReadyAt
      <4> QED
        BY <3>1, <4>3, FS_Singleton
    <3>2. CASE ~At(s, "ended")
      <4>1. R = {}
        BY <3>2 DEF ReadyOnce, ReadyAt
      <4> QED
        BY <3>2, <4>1, FS_EmptySet
    <3> QED
      BY <3>1, <3>2
  <2>2. ASSUME NEW s \in Session, NEW n \in DOMAIN cmds[s]
        PROVE  cmds[s][n] \in Event \cup {RemoveCmd}
    <3>1. cmds[s] \in Seq(Event \cup {RemoveCmd})
      BY DEF PortsTyped
    <3> QED
      BY <3>1
  <2>3. /\ StoreTypeOK
        /\ connected \subseteq known /\ open \subseteq known
        /\ acked \in [Session -> SUBSET SubId]
        /\ wire \in [Session -> Seq(Event \cup Published)]
        /\ nextPub \in 1..(MaxPub + 1)
    BY DEF PortsTyped, StoreInv
  <2> QED
    BY <2>1, <2>2, <2>3 DEF TypeOK
<1>2. ASSUME NEW s \in Session, NEW m \in DOMAIN wire[s], NEW n \in DOMAIN wire[s]
      PROVE  /\ m < n \/ n < m \/ m = n
             /\ m < n => MayPrecede(wire[s][m], wire[s][n])
             /\ n < m => MayPrecede(wire[s][n], wire[s][m])
  <2>1. wire[s] \in Seq(Event \cup Published)
    BY DEF PortsTyped
  <2>2. m \in Nat /\ n \in Nat
    BY <2>1
  <2>3. m < n \/ n < m \/ m = n
    BY <2>2
  <2> QED
    BY <2>3, WireInLine
<1>3. PublishedBeforeEvent
  BY <1>2 DEF PublishedBeforeEvent, MayPrecede
<1>4. SamePathInOrder
  BY <1>2 DEF SamePathInOrder, MayPrecede
<1>5. OnlyOnce
  BY <1>2 DEF OnlyOnce, MayPrecede
<1> QED
  BY <1>1, <1>3, <1>4, <1>5 DEF PubSubOrdered

(* What a connection sees is in order and once: PUBLISHED before the EVENT *)
(* of its publication, the EVENTs of a publisher in order along each way,  *)
(* and none twice, for any sessions, patterns and interleaving.            *)
THEOREM PubSubStaysOrdered == Spec => []PubSubOrdered
BY InvOrders, BrokerInvHolds, PTL
-----------------------------------------------------------------------------
(* Where an EVENT under way is *)
InHand(e, s) ==
    /\ At(s, "forward")
    /\ \E j \in DOMAIN h[s].matches :
          e = <<h[s].matches[j][2], h[s].matches[j][1], h[s].pub>>
InPort(e, n) == /\ boss[n].msg.type = "event"
                /\ e = <<boss[n].to, boss[n].msg.sub, boss[n].msg.pub>>
Among(e, to, msgs) ==
    \E n \in DOMAIN msgs : msgs[n].type = "event" /\ e = <<to, msgs[n].sub, msgs[n].pub>>

LEMMA AmongIs == \A e, to, msgs : e \in EventsIn(to, msgs) <=> Among(e, to, msgs)
BY DEF EventsIn, Among, ToSet

LEMMA PortIs ==
    ASSUME NEW e, NEW post
    PROVE  e \in EventsIn(post.to, <<post.msg>>) <=>
              post.msg.type = "event" /\ e = <<post.to, post.msg.sub, post.msg.pub>>
<1>1. DOMAIN <<post.msg>> = {1} /\ <<post.msg>>[1] = post.msg
  OBVIOUS
<1> QED
  BY <1>1, AmongIs DEF Among

LEMMA FlightIs ==
    ASSUME NEW e
    PROVE  /\ e \in InFlight => \/ \E s \in Publisher : InHand(e, s)
                                \/ \E n \in DOMAIN boss : InPort(e, n)
                                \/ \E to \in Session : Among(e, to, cmds[to])
           /\ \/ \E s \in Publisher : InHand(e, s)'
              \/ \E n \in DOMAIN boss' : InPort(e, n)'
              \/ \E to \in Session : Among(e, to, cmds'[to])
              => e \in InFlight'
           /\ (\E to \in Session : Among(e, to, wire'[to])) => e \in Written'
<1>1. e \in InFlight => \/ \E s \in Publisher : InHand(e, s)
                        \/ \E n \in DOMAIN boss : InPort(e, n)
                        \/ \E to \in Session : Among(e, to, cmds[to])
  <2>1. e \in InFlight =>
           \/ \E s \in Publisher : /\ At(s, "forward")
                                   /\ e \in {<<m[2], m[1], h[s].pub>> : m \in ToSet(h[s].matches)}
           \/ \E post \in ToSet(boss) : e \in EventsIn(post.to, <<post.msg>>)
           \/ \E to \in Session : e \in EventsIn(to, cmds[to])
    BY DEF InFlight
  <2>2. \A s \in Publisher :
           /\ At(s, "forward")
           /\ e \in {<<m[2], m[1], h[s].pub>> : m \in ToSet(h[s].matches)}
           => InHand(e, s)
    BY DEF InHand, ToSet
  <2>3. (\E post \in ToSet(boss) : e \in EventsIn(post.to, <<post.msg>>)) =>
           \E n \in DOMAIN boss : InPort(e, n)
    <3>1. \A post \in ToSet(boss) : \E n \in DOMAIN boss : post = boss[n]
      BY DEF ToSet
    <3> QED
      BY <3>1, PortIs DEF InPort
  <2> QED
    BY <2>1, <2>2, <2>3, AmongIs
<1> USE DEF EventsIn, ToSet
<1>2. ASSUME NEW s \in Publisher, InHand(e, s)' PROVE e \in InFlight'
  <2>1. h'[s].pc = "forward"
        /\ \E j \in DOMAIN h'[s].matches :
              e = <<h'[s].matches[j][2], h'[s].matches[j][1], h'[s].pub>>
    BY <1>2 DEF InHand, At
  <2>2. e \in {<<m[2], m[1], h'[s].pub>> : m \in ToSet(h'[s].matches)}
    BY <2>1
  <2> QED
    BY <2>1, <2>2 DEF InFlight, At
<1>3. ASSUME NEW n \in DOMAIN boss', InPort(e, n)' PROVE e \in InFlight'
  <2>1. e \in EventsIn(boss'[n].to, <<boss'[n].msg>>)
    BY <1>3, PortIs DEF InPort
  <2>2. boss'[n] \in ToSet(boss')
    OBVIOUS
  <2> QED
    BY <2>1, <2>2 DEF InFlight
<1>4. ASSUME NEW to \in Session, Among(e, to, cmds'[to]) PROVE e \in InFlight'
  <2>1. e \in EventsIn(to, cmds'[to])
    BY <1>4, AmongIs
  <2> QED
    BY <2>1 DEF InFlight
<1>5. ASSUME NEW to \in Session, Among(e, to, wire'[to]) PROVE e \in Written'
  <2>1. e \in EventsIn(to, wire'[to])
    BY <1>5, AmongIs
  <2> QED
    BY <2>1 DEF Written
<1> QED
  BY <1>1, <1>2, <1>3, <1>4, <1>5

(* A step loses none of the EVENTs in flight but those Delivered allows. *)
LEMMA DeliveredStep ==
    ASSUME BrokerInv, Next, NEW e \in InFlight
    PROVE  \/ e \in InFlight' \/ e \in Written'
           \/ e[1] \notin connected' \/ NativeDrop(e[1])
<1>0. /\ HandlersOK /\ HandlersBear /\ PortsTyped /\ BossTyped /\ boss \in Seq(PortEntry)
      /\ ToldTrue /\ cmds \in [Session -> Seq(Event \cup {RemoveCmd})]
      /\ wire \in [Session -> Seq(Event \cup Published)]
      /\ connected \subseteq known
  BY DEF BrokerInv, PortsInv, PortsTyped, BossTyped
<1>1. \/ \E s \in Publisher : InHand(e, s)
      \/ \E n \in DOMAIN boss : InPort(e, n)
      \/ \E to \in Session : Among(e, to, cmds[to])
  BY FlightIs
<1>2. ASSUME \A n \in DOMAIN boss : n \in DOMAIN boss' /\ boss'[n] = boss[n],
             \A s \in Publisher : InHand(e, s) => InHand(e, s)' \/ e \in InFlight',
             cmds' = cmds
      PROVE  e \in InFlight'
  <2>1. \A n \in DOMAIN boss : InPort(e, n) => n \in DOMAIN boss' /\ InPort(e, n)'
    BY <1>2 DEF InPort
  <2> QED
    BY <1>1, <1>2, <2>1, FlightIs
(* handlers *)
<1>3. ASSUME NEW s \in Session, NEW r, Goto(s, r), h[s].pc # "forward",
             boss' = boss, cmds' = cmds
      PROVE  e \in InFlight'
  <2>1. \A p \in Publisher : InHand(e, p) => InHand(e, p)'
    BY <1>0, <1>3, GotoSets, BrokerAssumption DEF InHand, At
  <2> QED
    BY <1>2, <1>3, <2>1
<1>4. ASSUME NEW s \in Session, NEW posts, PostsFit(s, posts), End(s, posts), cmds' = cmds,
             h[s].pc = "forward" =>
                \A j \in DOMAIN h[s].matches : \E n \in DOMAIN posts :
                    /\ posts[n].to = h[s].matches[j][2] /\ posts[n].msg.type = "event"
                    /\ posts[n].msg.sub = h[s].matches[j][1]
                    /\ posts[n].msg.pub = h[s].pub
      PROVE  e \in InFlight'
  <2>1. /\ Len(boss) \in Nat /\ Len(posts) \in Nat
        /\ DOMAIN boss = 1..Len(boss) /\ DOMAIN posts = 1..Len(posts)
        /\ DOMAIN boss' = 1..(Len(boss) + Len(posts) + 1)
        /\ \A n \in 1..Len(boss) : boss'[n] = boss[n]
        /\ \A n \in 1..Len(posts) : boss'[Len(boss) + n] = posts[n]
    BY <1>0, <1>4, EndAppends DEF PostsFit
  <2>2. \A n \in DOMAIN boss : n \in DOMAIN boss' /\ boss'[n] = boss[n]
    BY <2>1
  <2>3. ASSUME NEW p \in Publisher, InHand(e, p) PROVE InHand(e, p)' \/ e \in InFlight'
    <3>1. CASE p = s
      <4>1. PICK j \in DOMAIN h[s].matches :
              e = <<h[s].matches[j][2], h[s].matches[j][1], h[s].pub>>
        BY <2>3, <3>1 DEF InHand
      <4>2. PICK n \in DOMAIN posts :
              /\ posts[n].to = h[s].matches[j][2] /\ posts[n].msg.type = "event"
              /\ posts[n].msg.sub = h[s].matches[j][1]
              /\ posts[n].msg.pub = h[s].pub
        BY <1>4, <2>3, <3>1 DEF InHand, At
      <4>3. Len(boss) + n \in DOMAIN boss' /\ boss'[Len(boss) + n] = posts[n]
        BY <2>1
      <4>4. \E k \in DOMAIN boss' : InPort(e, k)'
        BY <4>1, <4>2, <4>3 DEF InPort
      <4> QED
        BY <4>4, FlightIs
    <3>2. CASE p # s
      <4>1. p \in Session /\ h'[p] = h[p]
        BY <1>0, <1>4, <3>2, GotoSets, BrokerAssumption DEF End
      <4> QED
        BY <2>3, <4>1 DEF InHand, At
    <3> QED
      BY <3>1, <3>2
  <2> QED
    BY <1>2, <1>4, <2>2, <2>3
<1>5. ASSUME NEW s \in Session, Request(s) PROVE e \in InFlight'
  <2>1. CASE Goodbye(s)
    <3>1. End(s, <<>>) /\ h[s].pc = "idle" /\ cmds' = cmds
      BY <2>1 DEF Goodbye, Receives, At
    <3> QED
      BY <1>4, <3>1, NothingFits
  <2>2. CASE ~Goodbye(s)
    <3>1. (\E r : Goto(s, r)) /\ h[s].pc = "idle" /\ boss' = boss /\ cmds' = cmds
      BY <1>5, <2>2 DEF Request, Subscribe, Unsubscribe, Publish, Receives, At
    <3> QED
      BY <1>3, <3>1
  <2> QED
    BY <2>1, <2>2
<1>6. ASSUME NEW s \in Session, Handle(s) PROVE e \in InFlight'
  <2>1. CASE Refused(s) \/ UnsubscribeReply(s)
    <3>1. End(s, <<>>) /\ h[s].pc # "forward" /\ cmds' = cmds
      BY <2>1 DEF Refused, UnsubscribeReply, At
    <3> QED
      BY <1>4, <3>1, NothingFits
  <2>2. CASE SubscribeReply(s)
    <3>1. PICK posts : posts = Post("send", s, [type |-> "subscribed", sub |-> h[s].id])
      OBVIOUS
    <3>2. End(s, posts) /\ At(s, "subscribed") /\ h[s].pc # "forward" /\ cmds' = cmds
      BY <2>2, <3>1 DEF SubscribeReply, At
    <3>3. PostsFit(s, posts)
      BY <1>0, <3>1, <3>2, SubscribedFits
    <3> QED
      BY <1>4, <3>2, <3>3
  <2>3. ASSUME NEW retained \in BOOLEAN, PublishForward(s, retained) PROVE e \in InFlight'
    <3>1. cmds' = cmds
      BY <2>3 DEF PublishForward
    <3>2. PICK posts :
              /\ End(s, posts) /\ PostsFit(s, posts)
              /\ \A j \in DOMAIN h[s].matches : \E n \in DOMAIN posts :
                    /\ posts[n].to = h[s].matches[j][2] /\ posts[n].msg.type = "event"
                    /\ posts[n].msg.sub = h[s].matches[j][1]
                    /\ posts[n].msg.pub = h[s].pub
      BY <1>0, <2>3, PublicationFits
    <3> QED
      BY <1>4, <3>1, <3>2
  <2>4. CASE SubscribeAdd(s) \/ UnsubscribeRemove(s)
    <3>1. (\E r : Goto(s, r)) /\ h[s].pc # "forward" /\ boss' = boss /\ cmds' = cmds
      BY <2>4 DEF SubscribeAdd, UnsubscribeRemove, At
    <3> QED
      BY <1>3, <3>1
  <2>5. ASSUME NEW skip \in SUBSET Session, PublishMatch(s, skip) PROVE e \in InFlight'
    <3>1. (\E r : Goto(s, r)) /\ h[s].pc # "forward" /\ boss' = boss /\ cmds' = cmds
      BY <2>5 DEF PublishMatch, At
    <3> QED
      BY <1>3, <3>1
  <2> QED
    BY <1>6, <2>1, <2>2, <2>3, <2>4, <2>5 DEF Handle
(* workers *)
<1>7. ASSUME NEW s \in Session, Disconnect(s) PROVE e \in InFlight'
  <2>1. /\ cmds' = [cmds EXCEPT ![s] = Append(@, RemoveCmd)]
        /\ h' = h /\ boss' = boss
    BY <1>7 DEF Disconnect, Detach
  <2>2. ASSUME NEW to \in Session, Among(e, to, cmds[to]) PROVE Among(e, to, cmds'[to])
    <3>1. cmds[to] \in Seq(Event \cup {RemoveCmd})
      BY <1>0
    <3>2. \A n \in DOMAIN cmds[to] : n \in DOMAIN cmds'[to] /\ cmds'[to][n] = cmds[to][n]
      BY <1>0, <2>1, <3>1
    <3> QED
      BY <2>2, <3>2 DEF Among
  <2> QED
    BY <1>1, <2>1, <2>2, FlightIs DEF InHand, InPort, At
<1>8. ASSUME NEW s \in Session, WorkerRemove(s) \/ WorkerSend(s)
      PROVE  e \in InFlight' \/ e[1] \notin connected'
  <2>1. /\ cmds[s] # <<>> /\ cmds' = [cmds EXCEPT ![s] = Tail(@)]
        /\ h' = h /\ connected' = connected
        /\ \/ Head(cmds[s]) = RemoveCmd /\ boss' = boss
           \/ s \notin known /\ boss' = boss
           \/ Head(cmds[s]) # RemoveCmd /\ boss' = boss \o Post("send", s, Head(cmds[s]))
    BY <1>8 DEF WorkerRemove, WorkerSend
  <2>2. PICK q : q = cmds[s]
    OBVIOUS
  <2>3. /\ q \in Seq(Event \cup {RemoveCmd}) /\ q # <<>> /\ cmds'[s] = Tail(q)
        /\ \A t \in Session \ {s} : cmds'[t] = cmds[t]
    BY <1>0, <2>1, <2>2
  <2>4. /\ Head(q) = q[1] /\ q[1] \in Event \cup {RemoveCmd}
        /\ \A n \in DOMAIN q : n # 1 => n - 1 \in DOMAIN Tail(q) /\ Tail(q)[n - 1] = q[n]
    BY <2>3
  <2>5. \A n \in DOMAIN boss : n \in DOMAIN boss' /\ boss'[n] = boss[n]
    <3>1. CASE boss' = boss
      BY <3>1
    <3>2. CASE boss' = boss \o Post("send", s, q[1]) /\ q[1] \in Event
      <4>1. q[1] \in Message
        BY <3>2 DEF Message
      <4>2. PICK x : x = q[1]
        OBVIOUS
      <4>3. /\ Len(boss) \in Nat
            /\ DOMAIN boss = 1..Len(boss) /\ DOMAIN boss' = 1..(Len(boss) + 1)
            /\ \A n \in 1..Len(boss) : boss'[n] = boss[n]
        BY <1>0, <3>2, <4>1, <4>2, SendAppends
      <4> QED
        BY <4>3
    <3> QED
      BY <2>1, <2>2, <2>4, <3>1, <3>2
  <2>6. ASSUME NEW n \in DOMAIN q, q[n].type = "event", e = <<s, q[n].sub, q[n].pub>>
        PROVE  e \in InFlight' \/ e[1] \notin connected'
    <3>1. CASE n # 1
      <4>1. Among(e, s, cmds'[s])
        BY <2>3, <2>4, <2>6, <3>1 DEF Among
      <4> QED
        BY <4>1, FlightIs
    <3>2. CASE n = 1
      <4>1. q[1] # RemoveCmd /\ q[1] \in Event
        BY <2>4, <2>6, <3>2 DEF RemoveCmd
      <4>2. CASE s \notin known
        BY <1>0, <2>1, <2>6, <4>2
      <4>3. CASE boss' = boss \o Post("send", s, q[1])
        <5>1. PICK x \in Event : x = q[1]
          BY <4>1
        <5>2. x \in Message
          BY DEF Message
        <5>3. /\ Len(boss) \in Nat /\ DOMAIN boss' = 1..(Len(boss) + 1)
              /\ boss'[Len(boss) + 1] = [how |-> "send", to |-> s, msg |-> x]
          BY <1>0, <4>3, <5>1, <5>2, SendAppends
        <5>4. Len(boss) + 1 \in DOMAIN boss'
          BY <5>3
        <5>5. /\ boss'[Len(boss) + 1].to = s /\ boss'[Len(boss) + 1].msg = x
          BY <5>3
        <5>6. \E k \in DOMAIN boss' : InPort(e, k)'
          BY <2>6, <3>2, <5>1, <5>4, <5>5 DEF InPort
        <5> QED
          BY <5>6, FlightIs
      <4> QED
        BY <2>1, <2>2, <2>4, <4>1, <4>2, <4>3
    <3> QED
      BY <3>1, <3>2
  <2>7. ASSUME NEW to \in Session, Among(e, to, cmds[to])
        PROVE  e \in InFlight' \/ e[1] \notin connected'
    <3>1. CASE to = s
      BY <2>2, <2>6, <2>7, <3>1 DEF Among
    <3>2. CASE to # s
      <4>1. Among(e, to, cmds'[to])
        BY <2>3, <2>7, <3>2
      <4> QED
        BY <4>1, FlightIs
    <3> QED
      BY <3>1, <3>2
  <2>8. ASSUME NEW n \in DOMAIN boss, InPort(e, n) PROVE e \in InFlight'
    <3>1. n \in DOMAIN boss' /\ InPort(e, n)'
      BY <2>5, <2>8 DEF InPort
    <3> QED
      BY <3>1, FlightIs
  <2>9. ASSUME NEW p \in Publisher, InHand(e, p) PROVE e \in InFlight'
    <3>1. InHand(e, p)'
      BY <2>1, <2>9 DEF InHand, At
    <3> QED
      BY <3>1, FlightIs
  <2> QED
    BY <1>1, <2>7, <2>8, <2>9
(* the boss *)
<1>9. CASE Boss
  <2>1. /\ boss # <<>> /\ boss' = Tail(boss) /\ (h' = h \/ BossReady)
    BY <1>9 DEF Boss, BossWrite, BossSendRejected, BossNativeRejected, BossForward, BossReady
  <2>2. /\ Len(boss) \in Nat \ {0} /\ Head(boss) = boss[1]
        /\ DOMAIN boss = 1..Len(boss) /\ DOMAIN boss' = 1..(Len(boss) - 1)
        /\ \A n \in 1..(Len(boss) - 1) : boss'[n] = boss[n + 1]
    BY <1>0, <2>1, PopShifts
  <2>3. PICK c \in Session : boss[1].to = c
    BY <1>0, <2>1, <2>2, TypedPops
  <2>4. PICK msg : boss[1].msg = msg
    OBVIOUS
  <2>5. ASSUME NEW p \in Publisher, InHand(e, p) PROVE e \in InFlight'
    <3>1. CASE h' = h
      <4>1. InHand(e, p)'
        BY <2>5, <3>1 DEF InHand, At
      <4> QED
        BY <4>1, FlightIs
    <3>2. CASE BossReady
      <4>1. ReadyAt(1, c) /\ 1 \in DOMAIN boss
        BY <2>2, <2>3, <3>2 DEF BossReady, ReadyAt
      <4>2. At(c, "ended")
        BY <4>1 DEF BrokerInv, PortsInv, ReadyOnce
      <4>3. p \in Session /\ p # c
        BY <2>5, <4>2, BrokerAssumption DEF InHand, At
      <4>4. h'[p] = h[p]
        BY <1>0, <2>2, <2>3, <3>2, <4>3, GotoSets DEF BossReady
      <4>5. InHand(e, p)'
        BY <2>5, <4>4 DEF InHand, At
      <4> QED
        BY <4>5, FlightIs
    <3> QED
      BY <2>1, <3>1, <3>2
  <2>6. ASSUME NEW to \in Session, Among(e, to, cmds[to]) PROVE e \in InFlight'
    <3>1. cmds[to] \in Seq(Event \cup {RemoveCmd})
      BY <1>0
    <3>2. \/ cmds' = cmds
          \/ cmds' = [cmds EXCEPT ![c] = Append(@, msg)]
          \/ cmds' = [cmds EXCEPT ![c] = Append(@, RemoveCmd)]
      BY <1>9, <2>2, <2>3, <2>4 DEF Boss, BossWrite, BossSendRejected, BossNativeRejected,
         BossForward, BossReady, Detach
    <3>3. \/ cmds'[to] = cmds[to] \/ cmds'[to] = Append(cmds[to], msg)
          \/ cmds'[to] = Append(cmds[to], RemoveCmd)
      BY <1>0, <3>2
    <3>4. \A n \in DOMAIN cmds[to] : n \in DOMAIN cmds'[to] /\ cmds'[to][n] = cmds[to][n]
      BY <3>1, <3>3
    <3>5. Among(e, to, cmds'[to])
      BY <2>6, <3>4 DEF Among
    <3> QED
      BY <3>5, FlightIs
  <2>7. ASSUME NEW n \in DOMAIN boss, InPort(e, n), n # 1 PROVE e \in InFlight'
    <3>1. n - 1 \in DOMAIN boss' /\ boss'[n - 1] = boss[n]
      BY <2>2, <2>7
    <3>2. \E k \in DOMAIN boss' : InPort(e, k)'
      BY <2>7, <3>1 DEF InPort
    <3> QED
      BY <3>2, FlightIs
  <2>8. ASSUME InPort(e, 1)
        PROVE  \/ e \in InFlight' \/ e \in Written'
               \/ e[1] \notin connected' \/ NativeDrop(e[1])
    <3>1. msg.type = "event" /\ e = <<c, msg.sub, msg.pub>> /\ e[1] = c
      BY <2>3, <2>4, <2>8 DEF InPort
    <3>2. CASE BossWrite
      <4>1. /\ connected' = connected
            /\ c \in connected => wire' = [wire EXCEPT ![c] = Append(@, msg)]
        BY <2>2, <2>3, <2>4, <3>1, <3>2 DEF BossWrite
      <4>2. CASE c \in connected
        <5>1. wire[c] \in Seq(Event \cup Published) /\ wire'[c] = Append(wire[c], msg)
          BY <1>0, <4>1, <4>2
        <5>2. Len(wire[c]) + 1 \in DOMAIN wire'[c] /\ wire'[c][Len(wire[c]) + 1] = msg
          BY <5>1
        <5>3. Among(e, c, wire'[c])
          BY <3>1, <5>2 DEF Among
        <5> QED
          BY <5>3, FlightIs
      <4> QED
        BY <3>1, <4>1, <4>2
    <3>3. CASE BossForward
      <4>1. /\ connected' = connected
            /\ c \in connected => cmds' = [cmds EXCEPT ![c] = Append(@, msg)]
        BY <2>2, <2>3, <2>4, <3>3 DEF BossForward
      <4>2. CASE c \in connected
        <5>1. cmds[c] \in Seq(Event \cup {RemoveCmd}) /\ cmds'[c] = Append(cmds[c], msg)
          BY <1>0, <4>1, <4>2
        <5>2. Len(cmds[c]) + 1 \in DOMAIN cmds'[c] /\ cmds'[c][Len(cmds[c]) + 1] = msg
          BY <5>1
        <5>3. Among(e, c, cmds'[c])
          BY <3>1, <5>2 DEF Among
        <5> QED
          BY <5>3, FlightIs
      <4> QED
        BY <3>1, <4>1, <4>2
    <3>4. CASE BossSendRejected
      BY <2>2, <2>3, <3>1, <3>4 DEF BossSendRejected, Detach
    <3>5. CASE BossNativeRejected
      BY <2>2, <2>3, <3>1, <3>5 DEF BossNativeRejected, NativeDrop
    <3>6. CASE BossReady
      <4>1. Head(boss).how = "ready"
        BY <3>6 DEF BossReady
      <4>2. Head(boss).msg = Ready
        BY <1>0, <2>1, <4>1, TypedPops
      <4> QED
        BY <2>2, <2>4, <3>1, <4>2 DEF Ready
    <3> QED
      BY <1>9, <3>2, <3>3, <3>4, <3>5, <3>6 DEF Boss
  <2> QED
    BY <1>1, <2>5, <2>6, <2>7, <2>8
<1> QED
  BY <1>5, <1>6, <1>7, <1>8, <1>9 DEF Next

(* No EVENT that the store routed is lost on its way to a subscriber,      *)
(* unless its connection goes or worker_forward_native_event meets a full  *)
(* send queue.                                                             *)
THEOREM EventsAreDelivered == Spec => Delivered
<1>1. BrokerInv /\ [Next]_vars =>
        [\A e \in InFlight : \/ e \in InFlight' \/ e \in Written'
                             \/ e[1] \notin connected' \/ NativeDrop(e[1])]_vars
  BY DeliveredStep
<1> QED
  BY <1>1, BrokerInvHolds, PTL DEF Spec, Delivered
=============================================================================
