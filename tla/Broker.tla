------------------------------- MODULE Broker -------------------------------
(***************************************************************************)
(* How the router's workers route publications (router_worker_session:     *)
(* SUBSCRIBE, UNSUBSCRIBE, PUBLISH, GOODBYE).  A handler awaits the        *)
(* authorization and the store's answers; handlers of different sessions   *)
(* interleave at each await.  What it sends goes through the boss's event  *)
(* port: an EVENT either is written by the native runtime from the         *)
(* publisher's message, or travels on through the command port of the      *)
(* worker that owns the subscriber's connection and back to the boss.      *)
(*                                                                         *)
(* Every session has a connection, and a worker of its own.  ERROR replies *)
(* change no state and are left out.  Subscribers inside the router        *)
(* process are not modelled here.                                          *)
(***************************************************************************)
EXTENDS Subscriptions, Sequences, FiniteSets, SequencesExt

CONSTANTS Publisher, (* sessions that publish                               *)
          Subscriber,(* sessions that subscribe                             *)
          Leaving,   (* sessions that say GOODBYE or whose connection goes  *)
          Slow,      (* sessions whose connection's send queue may be full  *)
          Topic,     (* what sessions publish to                            *)
          Matches,   (* patterns and the topics they match                  *)
          Rank,      (* the order of patterns: policy, then specificity     *)
          Forwards,  (* publisher and subscriber with serializers between   *)
                     (* which the native runtime can forward                *)
          Customs,   (* do PUBLISHes carry custom options?                  *)
          MaxPub     (* bound: publication ids the store hands out          *)

ASSUME BrokerAssumption ==
    /\ Session \subseteq Nat /\ IsFiniteSet(Session)
    /\ Publisher \subseteq Session
    /\ Subscriber \subseteq Session
    /\ Leaving \subseteq Session
    /\ Slow \subseteq Session
    /\ Matches \subseteq Pattern \X Topic
    /\ Rank \in [Pattern -> Nat]
    /\ Forwards \subseteq Session \X Session
    /\ Customs \subseteq BOOLEAN
    /\ MaxPub \in Nat

VARIABLES connected, (* sessions whose connection the boss owns             *)
          known,     (* sessions with a state in their worker               *)
          h,         (* the handler that runs for each session              *)
          boss,      (* the boss's event port                               *)
          cmds,      (* the command port of each session's worker           *)
          acked,     (* subscriptions a session was told it has, and for    *)
                     (* which it did not UNSUBSCRIBE since                  *)
          wire,      (* the PUBLISHED and EVENTs written to a connection    *)
          nextPub    (* ids.publication                                     *)

brokerVars == <<connected, known, h, boss, cmds, acked, wire, nextPub>>
vars == <<storeVars, brokerVars>>

PubId == 1..MaxPub

(* by and path of an EVENT are history: its publisher and its way.         *)
Event == [type : {"event"}, sub : SubId, pub : PubId, by : Session,
          path : {"native", "dart"}]
Published == [type : {"published"}, pub : PubId]
Ready == [type |-> "ready"]
RemoveCmd == [type |-> "remove"]

Post(how, s, msg) == <<[how |-> how, to |-> s, msg |-> msg]>>

Idle == [pc |-> "idle"]
At(s, pc) == h[s].pc = pc
Goto(s, handler) == h' = [h EXCEPT ![s] = handler]

(* The handler ends: what it sends last, then its ready event. *)
End(s, posts) ==
    /\ boss' = boss \o posts \o Post("ready", s, Ready)
    /\ Goto(s, [pc |-> "ended"])

Init ==
    /\ StoreInit
    /\ connected = Session
    /\ known = Session
    /\ h = [s \in Session |-> Idle]
    /\ boss = <<>>
    /\ cmds = [s \in Session |-> <<>>]
    /\ acked = [s \in Session |-> {}]
    /\ wire = [s \in Session |-> <<>>]
    /\ nextPub = 1

TypeOK ==
    /\ StoreTypeOK
    /\ connected \subseteq known /\ open \subseteq known
    /\ \A s \in Session : Cardinality({n \in DOMAIN boss :
                              boss[n].how = "ready" /\ boss[n].to = s})
                            = IF At(s, "ended") THEN 1 ELSE 0
    /\ \A s \in Session : \A n \in DOMAIN cmds[s] :
          cmds[s][n] \in Event \cup {RemoveCmd}
    /\ acked \in [Session -> SUBSET SubId]
    /\ wire \in [Session -> Seq(Event \cup Published)]
    /\ nextPub \in 1..(MaxPub + 1)

(* The boss hands a message of s to its worker; one of a session that has  *)
(* said GOODBYE is refused.                                                *)
Receives(s) == s \in connected \cap open /\ At(s, "idle")
-----------------------------------------------------------------------------
(* _handleSubscribe *)
Subscribe(s, p) ==
    /\ s \in Subscriber /\ Receives(s)
    /\ Goto(s, [pc |-> "subscribe", pattern |-> p])
    /\ UNCHANGED <<storeVars, connected, known, boss, cmds, acked, wire, nextPub>>

(* An invalid topic, a denial, or the session was closed meanwhile. *)
Refused(s) ==
    /\ h[s].pc \in {"subscribe", "unsubscribe", "publish"}
    /\ End(s, <<>>)
    /\ UNCHANGED <<storeVars, connected, known, cmds, acked, wire, nextPub>>

SubscribeAdd(s) ==
    /\ At(s, "subscribe")
    /\ AddSubscription(s, h[s].pattern)
    /\ Goto(s, [pc |-> "subscribed",
                id |-> FindOrCreateSubscription(h[s].pattern)])
    /\ UNCHANGED <<connected, known, boss, cmds, acked, wire, nextPub>>

SubscribeReply(s) ==
    /\ At(s, "subscribed")
    /\ End(s, Post("send", s, [type |-> "subscribed", sub |-> h[s].id]))
    /\ UNCHANGED <<storeVars, connected, known, cmds, acked, wire, nextPub>>

(* _handleUnsubscribe, with the snapshot it reads. *)
Unsubscribe(s, i) ==
    /\ s \in Subscriber /\ Receives(s)
    /\ i < nextSub
    /\ acked' = [acked EXCEPT ![s] = @ \ {i}]
    /\ Goto(s, [pc |-> "unsubscribe", id |-> i,
                owns |-> i \in entry /\ s \in subscribers[i]])
    /\ UNCHANGED <<storeVars, connected, known, boss, cmds, wire, nextPub>>

UnsubscribeRemove(s) ==
    /\ At(s, "unsubscribe")
    /\ h[s].owns
    /\ RemoveSubscription(s, h[s].id)
    /\ Goto(s, [pc |-> "unsubscribed"])
    /\ UNCHANGED <<connected, known, boss, cmds, acked, wire, nextPub>>

UnsubscribeReply(s) ==
    /\ At(s, "unsubscribed")
    /\ End(s, <<>>)
    /\ UNCHANGED <<storeVars, connected, known, cmds, acked, wire, nextPub>>
-----------------------------------------------------------------------------
(* _handlePublish *)
Publish(s, t, ack, custom) ==
    /\ s \in Publisher /\ Receives(s)
    /\ nextPub <= MaxPub
    /\ Goto(s, [pc |-> "publish", topic |-> t, ack |-> ack, custom |-> custom])
    /\ UNCHANGED <<storeVars, connected, known, boss, cmds, acked, wire, nextPub>>

(* The sequences that list the elements of S in the given order. *)
Listings(S, before(_, _)) ==
    {q \in [1..Cardinality(S) -> S] :
        /\ Range(q) = S
        /\ \A m, n \in DOMAIN q : m < n => before(q[m], q[n])}

(* The order of subscriptionAtlas.match.  The subscribers of an entry are  *)
(* in the order in which they subscribed; here by id, as their connections *)
(* are written independently.                                              *)
MatchedBefore(a, b) ==
    LET ra == Rank[pattern[a[1]]]
        rb == Rank[pattern[b[1]]] IN
    \/ ra < rb
    \/ ra = rb /\ a[1] < b[1]
    \/ a[1] = b[1] /\ a[2] < b[2]

(* The entries that match, each with a subscriber that is there and not    *)
(* left out.                                                               *)
Recipients(t, skip) ==
    {m \in entry \X Session :
        /\ <<pattern[m[1]], t>> \in Matches
        /\ m[2] \in subscribers[m[1]] \cap open
        /\ m[2] \notin skip}

(* _matchSubscriptions; skip holds the sessions that exclude_me, exclude,  *)
(* eligible and their authid and authrole forms leave out.                 *)
PublishMatch(s, skip) ==
    /\ At(s, "publish")
    /\ s \in open
    /\ nextPub <= MaxPub
    /\ nextPub' = nextPub + 1
    /\ \E ms \in Listings(Recipients(h[s].topic, skip), MatchedBefore) :
          Goto(s, [pc |-> "forward", pub |-> nextPub, ack |-> h[s].ack,
                   custom |-> h[s].custom, matches |-> ms])
    /\ UNCHANGED <<storeVars, connected, known, boss, cmds, acked, wire>>

Acknowledgement(s) ==
    IF h[s].ack
    THEN Post("send", s, [type |-> "published", pub |-> h[s].pub]) ELSE <<>>

(* The EVENT for the n-th match, by either way. *)
EventPost(s, n, native) ==
    Post(IF native THEN "native" ELSE "forward", h[s].matches[n][2],
         [type |-> "event", sub |-> h[s].matches[n][1], pub |-> h[s].pub,
          by |-> s, path |-> IF native THEN "native" ELSE "dart"])[1]

(* The matches that the native runtime can serve from the message. *)
IsNative(s, n) == ~h[s].custom /\ <<s, h[s].matches[n][2]>> \in Forwards

(* Mutant of PublishForward: the PUBLISHED comes last. *)
PublishForwardFirst(s, retained) ==
    LET before(m, n) == \/ IsNative(s, m) = IsNative(s, n) /\ m < n
                        \/ IsNative(s, m) # IsNative(s, n) /\ IsNative(s, m) = retained
    IN
    /\ At(s, "forward")
    /\ \E q \in Listings(DOMAIN h[s].matches, before) :
          End(s, [n \in DOMAIN q |->
                     EventPost(s, q[n], retained /\ IsNative(s, q[n]))]
                 \o Acknowledgement(s))
    /\ UNCHANGED <<storeVars, connected, known, cmds, acked, wire, nextPub>>

(* Mutant of PublishForward: when the message's handle cannot be retained  *)
(* its native recipients are forgotten.                                    *)
PublishForwardLost(s, retained) ==
    LET served == {n \in DOMAIN h[s].matches : retained \/ ~IsNative(s, n)} IN
    /\ At(s, "forward")
    /\ \E q \in Listings(served, <) :
          End(s, Acknowledgement(s) \o
                 [n \in DOMAIN q |->
                     EventPost(s, q[n], retained /\ IsNative(s, q[n]))])
    /\ UNCHANGED <<storeVars, connected, known, cmds, acked, wire, nextPub>>

(* The PUBLISHED, then the EVENTs: those the native runtime writes from    *)
(* the message come first, or, if its handle cannot be retained, last and  *)
(* built in Dart like the others.                                          *)
PublishForward(s, retained) ==
    LET before(m, n) == \/ IsNative(s, m) = IsNative(s, n) /\ m < n
                        \/ IsNative(s, m) # IsNative(s, n) /\ IsNative(s, m) = retained
    IN
    /\ At(s, "forward")
    /\ \E q \in Listings(DOMAIN h[s].matches, before) :
          End(s, Acknowledgement(s) \o
                 [n \in DOMAIN q |->
                     EventPost(s, q[n], retained /\ IsNative(s, q[n]))])
    /\ UNCHANGED <<storeVars, connected, known, cmds, acked, wire, nextPub>>
-----------------------------------------------------------------------------
(* _handleGoodbye *)
Goodbye(s) ==
    /\ s \in Leaving /\ Receives(s)
    /\ CloseStoreSession(s)
    /\ End(s, <<>>)
    /\ UNCHANGED <<connected, known, cmds, acked, wire, nextPub>>

(* _detachConnection *)
Detach(s) ==
    /\ connected' = connected \ {s}
    /\ cmds' = [cmds EXCEPT ![s] = Append(@, RemoveCmd)]

Disconnect(s) ==
    /\ s \in Leaving \cap connected
    /\ Detach(s)
    /\ UNCHANGED <<storeVars, known, h, boss, acked, wire, nextPub>>

(* The worker's command port: _handleConnectionRemoval *)
WorkerRemove(s) ==
    /\ cmds[s] # <<>> /\ Head(cmds[s]) = RemoveCmd
    /\ cmds' = [cmds EXCEPT ![s] = Tail(@)]
    /\ known' = known \ {s}
    /\ CloseStoreSession(s)
    /\ UNCHANGED <<connected, h, boss, acked, wire, nextPub>>

(* _workerCmdSendMessage *)
WorkerSend(s) ==
    /\ cmds[s] # <<>> /\ Head(cmds[s]) # RemoveCmd
    /\ cmds' = [cmds EXCEPT ![s] = Tail(@)]
    /\ boss' = IF s \in known THEN boss \o Post("send", s, Head(cmds[s]))
                              ELSE boss
    /\ UNCHANGED <<storeVars, connected, known, h, acked, wire, nextPub>>

(* The boss's event port.  worker_send and worker_forward_native_event     *)
(* write to the connection.                                                *)
BossWrite ==
    /\ boss # <<>> /\ Head(boss).how \in {"send", "native"}
    /\ LET s == Head(boss).to
           msg == Head(boss).msg IN
       /\ acked' = IF msg.type = "subscribed" /\ s \in connected
                   THEN [acked EXCEPT ![s] = @ \cup {msg.sub}] ELSE acked
       /\ wire' = IF msg.type # "subscribed" /\ s \in connected
                  THEN [wire EXCEPT ![s] = Append(@, msg)] ELSE wire
    /\ boss' = Tail(boss)
    /\ UNCHANGED <<storeVars, connected, known, h, cmds, nextPub>>

(* The send queue is full.  worker_send closes the slow peer's connection; *)
(* worker_forward_native_event drops the EVENT and leaves the connection.  *)
BossSendRejected ==
    /\ boss # <<>> /\ Head(boss).how = "send"
    /\ Head(boss).to \in Slow \cap connected
    /\ Detach(Head(boss).to)
    /\ boss' = Tail(boss)
    /\ UNCHANGED <<storeVars, known, h, acked, wire, nextPub>>

BossNativeRejected ==
    /\ boss # <<>> /\ Head(boss).how = "native"
    /\ Head(boss).to \in Slow \cap connected
    /\ boss' = Tail(boss)
    /\ UNCHANGED <<storeVars, connected, known, h, cmds, acked, wire, nextPub>>

(* worker_forward_message *)
BossForward ==
    /\ boss # <<>> /\ Head(boss).how = "forward"
    /\ LET s == Head(boss).to IN
       cmds' = IF s \in connected
               THEN [cmds EXCEPT ![s] = Append(@, Head(boss).msg)] ELSE cmds
    /\ boss' = Tail(boss)
    /\ UNCHANGED <<storeVars, connected, known, h, acked, wire, nextPub>>

BossReady ==
    /\ boss # <<>> /\ Head(boss).how = "ready"
    /\ Goto(Head(boss).to, Idle)
    /\ boss' = Tail(boss)
    /\ UNCHANGED <<storeVars, connected, known, cmds, acked, wire, nextPub>>

Request(s) ==
    \/ \E p \in Pattern : Subscribe(s, p)
    \/ \E i \in SubId : Unsubscribe(s, i)
    \/ \E t \in Topic, ack \in BOOLEAN, custom \in Customs :
          Publish(s, t, ack, custom)
    \/ Goodbye(s)

Handle(s) ==
    \/ Refused(s)
    \/ SubscribeAdd(s) \/ SubscribeReply(s)
    \/ UnsubscribeRemove(s) \/ UnsubscribeReply(s)
    \/ \E skip \in SUBSET Session : PublishMatch(s, skip)
    \/ \E retained \in BOOLEAN : PublishForward(s, retained)

Boss ==
    \/ BossWrite \/ BossSendRejected \/ BossNativeRejected
    \/ BossForward \/ BossReady

Next ==
    \/ \E s \in Session :
          Request(s) \/ Handle(s) \/ Disconnect(s) \/ WorkerRemove(s) \/ WorkerSend(s)
    \/ Boss

Spec == Init /\ [][Next]_vars
-----------------------------------------------------------------------------
(* The publisher sees the PUBLISHED of a publication before its EVENT      *)
(* (router_worker_session.dart: "so a publisher subscribed to the topic    *)
(* observes PUBLISHED before EVENT").                                      *)
PublishedBeforeEvent ==
    \A s \in Session : \A m, n \in DOMAIN wire[s] :
        /\ wire[s][m].type = "published"
        /\ wire[s][n].type = "event"
        /\ wire[s][m].pub = wire[s][n].pub
        => m < n

(* EVENTs of one publisher that go the same way reach a subscriber in the  *)
(* order of their publications.                                            *)
SamePathInOrder ==
    \A s \in Session : \A m, n \in DOMAIN wire[s] :
        /\ m < n
        /\ wire[s][m].type = "event" /\ wire[s][n].type = "event"
        /\ wire[s][m].by = wire[s][n].by
        /\ wire[s][m].path = wire[s][n].path
        => wire[s][m].pub <= wire[s][n].pub

(* No subscriber gets one EVENT twice, also when some recipients change    *)
(* their way because the message's handle could not be retained.           *)
OnlyOnce ==
    \A s \in Session : \A m, n \in DOMAIN wire[s] :
        /\ wire[s][m].type = "event" /\ wire[s][n].type = "event"
        /\ wire[s][m].sub = wire[s][n].sub /\ wire[s][m].pub = wire[s][n].pub
        => m = n

(* What a connection sees is in order and once, and the handlers, the      *)
(* boss's port and the connections stay consistent: each handler that      *)
(* ended has exactly one ready event on its way (TypeOK).                  *)
PubSubOrdered == TypeOK /\ PublishedBeforeEvent /\ SamePathInOrder /\ OnlyOnce

(* A session that was told SUBSCRIBED is a subscriber until it asks not to *)
(* be one or goes, whatever the other sessions do.                         *)
SubscribedIsTrue ==
    \A s \in open : \A i \in acked[s] : i \in entry /\ s \in subscribers[i]

(* The EVENTs (recipient, subscription, publication) that are under way:   *)
(* routed by the store and not yet posted, in the boss's port, or in the   *)
(* port of the subscriber's worker; and those written to a connection.     *)
EventsIn(to, msgs) ==
    {<<to, m.sub, m.pub>> : m \in {n \in ToSet(msgs) : n.type = "event"}}

InFlight ==
    (UNION {{<<m[2], m[1], h[s].pub>> : m \in ToSet(h[s].matches)} :
               s \in {p \in Publisher : At(p, "forward")}})
    \cup (UNION {EventsIn(post.to, <<post.msg>>) : post \in ToSet(boss)})
    \cup (UNION {EventsIn(to, cmds[to]) : to \in Session})

Written == UNION {EventsIn(to, wire[to]) : to \in Session}

(* worker_forward_native_event meets a full send queue.                    *)
NativeDrop(to) ==
    boss # <<>> /\ Head(boss).how = "native" /\ Head(boss).to = to /\ to \in Slow

(* An EVENT that the store routed to a subscriber is never lost on its     *)
(* way: it stays in flight until it is written, unless the connection      *)
(* goes.  "A rejected WAMP frame must not silently leave a live,           *)
(* incomplete stream" (router_boss.dart); the one exception is an EVENT    *)
(* that the native runtime forwards to a connection with a full send       *)
(* queue, which worker_forward_native_event drops.                         *)
Delivered ==
    [][\A e \in InFlight : \/ e \in InFlight' \/ e \in Written'
                           \/ e[1] \notin connected' \/ NativeDrop(e[1])]_vars
=============================================================================
