----------------------------- MODULE Listeners -----------------------------
(***************************************************************************)
(* The runtime of the native transport, its listeners and the way of an    *)
(* accepted connection to Dart (ct_core/src/lib.rs, idle_allocator.rs and  *)
(* the listener calls of ct_ffi/src/runtime/ffi.rs and state.rs).          *)
(*                                                                         *)
(* A listener is the pair of its runtime's number and its own number, and  *)
(* its number is used again by the next runtime; a connection's number     *)
(* never is.  Dart threads listen, close, reload, poll and shut down       *)
(* concurrently; every accepted connection is negotiated by a task.        *)
(***************************************************************************)
EXTENDS Integers, Sequences, FiniteSets

CONSTANTS
    MaxAttempts,   \* bound: connections that peers make
    MaxRuns,       \* bound: times the runtime is started
    MaxListeners,  \* bound: listeners of all runtimes
    MaxVersion,    \* bound: configurations applied by reloads
    MaxId,         \* i32::MAX: the last connection id
    Backlog,       \* negotiations a listener runs at a time
    Capacity       \* of the channel of accepted connections

ASSUME ListenersAssumption ==
    /\ MaxAttempts \in Nat /\ MaxRuns \in Nat \ {0} /\ MaxListeners \in Nat \ {0} /\ MaxVersion \in Nat
    /\ MaxId \in Nat \ {0} /\ Backlog \in Nat \ {0} /\ Capacity \in Nat \ {0}

Attempts == 1..MaxAttempts
Runs == 1..MaxRuns
Numbers == 1..MaxListeners
Listener == Runs \X Numbers
Ids == 1..MaxId
NoListener == <<0, 0>>

VARIABLES
    runtime,   \* the number of the runtime; 0 when none is started
    started,   \* how many were started
    halting,   \* ct_shutdown: "no", "stopping" (tasks), "clearing" (channels)
    lst,       \* the listeners
    made,      \* next_listener_id of each runtime
    channels,  \* CHANNELS: the listener whose receiver a number has
    inbox,     \* ids sent to each listener's receiver
    call,      \* a thread inside ct_listen
    neg,       \* the negotiation task of each attempt
    next,      \* NEXT_CONNECTION_ID
    conns,     \* the registry's connections: <<runtime, id>>
    reload,    \* a thread inside reload_tls_selected
    idle,      \* the shared IdleAllocatorRelease
    given      \* ids returned by ct_poll_connection, with the listener

vars == <<runtime, started, halting, lst, made, channels, inbox, call, neg, next,
          conns, reload, idle, given>>

\* endpoint and acceptor are the two halves of ListenerConfigState; receiver
\* is where the receiver of accepted connections is.
NoEntry == [open |-> FALSE, looping |-> FALSE, scoped |-> FALSE, endpoint |-> 0,
            acceptor |-> 0, receiver |-> "none"]

NoTask == [at |-> "none", of |-> NoListener, endpoint |-> 0, acceptor |-> 0, id |-> 0]

\* A task that has ended keeps only what the properties ask for.
Ended(t) == [NoTask EXCEPT !.at = "done", !.of = t.of, !.id = t.id]

\* A listener removed from the registry; its receiver goes with the entry
\* unless a call has taken it.
Removed(e) ==
    [NoEntry EXCEPT !.receiver = IF e.receiver = "entry" THEN "dropped" ELSE e.receiver]

Init ==
    /\ runtime = 0 /\ started = 0 /\ halting = "no"
    /\ lst = [l \in Listener |-> NoEntry]
    /\ made = [r \in Runs |-> 0]
    /\ channels = [n \in Numbers |-> NoListener]
    /\ inbox = [l \in Listener |-> <<>>]
    /\ call = [at |-> "idle", of |-> NoListener]
    /\ neg = [a \in Attempts |-> NoTask]
    /\ next = 1
    /\ conns = {}
    /\ reload = [at |-> "idle", to |-> 0, todo |-> {}]
    /\ idle = [queued |-> FALSE, of |-> 0]
    /\ given = <<>>

\* RuntimeManager::with_state: shutdown holds the manager's mutex until every
\* task has stopped.
Started == runtime # 0 /\ halting # "stopping"

\* The registry's listeners mutex, which a reload holds throughout.
ListenersFree == reload.at = "idle"

\* The receiver is dropped, and the accept loop sees its channel closed.
Dropped(l) == lst[l].receiver = "dropped"

-----------------------------------------------------------------------------
(* start_runtime and ct_shutdown.                                          *)

StartRuntime ==
    /\ runtime = 0 /\ halting # "stopping" /\ started < MaxRuns
    /\ started' = started + 1 /\ runtime' = started + 1
    /\ UNCHANGED <<halting, lst, made, channels, inbox, call, neg, next, conns,
                   reload, idle, given>>

Aborted(t) ==
    IF t.at \in {"none", "done"} THEN t
    ELSE [Ended(t) EXCEPT !.at = "aborted"]

\* The state leaves the manager; listeners and connections are drained and
\* their tasks told to stop.  A reload holds the listeners' mutex.
ShutdownBegins ==
    /\ Started /\ halting = "no" /\ ListenersFree
    /\ halting' = "stopping"
    /\ lst' = [l \in Listener |->
                 IF l[1] # runtime \/ ~lst[l].open THEN lst[l]
                 ELSE Removed(lst[l])]
    /\ neg' = [a \in Attempts |->
                 IF neg[a].of[1] = runtime THEN Aborted(neg[a]) ELSE neg[a]]
    /\ conns' = {}
    /\ UNCHANGED <<runtime, started, made, channels, inbox, call, next, reload,
                   idle, given>>

\* Runtime::shutdown_timeout: no task is left; a reservation goes with its own.
ShutdownStops ==
    /\ halting = "stopping"
    /\ halting' = "clearing" /\ runtime' = 0
    /\ neg' = [a \in Attempts |->
                 IF neg[a].at = "aborted" THEN Ended(neg[a]) ELSE neg[a]]
    /\ conns' = {}
    /\ idle' = [queued |-> FALSE, of |-> 0]
    /\ UNCHANGED <<started, lst, made, channels, inbox, call, next, reload, given>>

\* clear_channels, after shutdown has returned: another thread may have
\* started a runtime and listened in between.
ShutdownClears ==
    /\ halting = "clearing"
    /\ halting' = "no"
    /\ channels' = [n \in Numbers |-> NoListener]
    /\ lst' = [l \in Listener |->
                 IF channels[l[2]] = l THEN [lst[l] EXCEPT !.receiver = "dropped"]
                 ELSE lst[l]]
    /\ UNCHANGED <<runtime, started, made, inbox, call, neg, next, conns, reload,
                   idle, given>>

-----------------------------------------------------------------------------
(* ct_listen: listen_endpoint, accept_channel, store_channel.              *)

Listen ==
    /\ call.at = "idle" /\ Started /\ ListenersFree
    /\ Cardinality({l \in Listener : made[l[1]] >= l[2]}) < MaxListeners
    /\ LET l == <<runtime, made[runtime] + 1>> IN
       /\ made' = [made EXCEPT ![runtime] = @ + 1]
       /\ \E scoped \in BOOLEAN :
            lst' = [lst EXCEPT ![l] =
                      [NoEntry EXCEPT !.open = TRUE, !.looping = TRUE,
                                      !.scoped = scoped, !.receiver = "entry"]]
       /\ call' = [at |-> "listened", of |-> l]
    /\ UNCHANGED <<runtime, started, halting, channels, inbox, neg, next, conns,
                   reload, idle, given>>

\* take_receiver, by number, from the runtime there is now; an error leaves
\* the listener as it is.
AcceptChannel ==
    /\ call.at = "listened" /\ halting # "stopping" /\ ListenersFree
    /\ LET l == <<runtime, call.of[2]>> IN
       IF runtime # 0 /\ lst[l].open /\ lst[l].receiver = "entry"
       THEN /\ lst' = [lst EXCEPT ![l].receiver = "call"]
            /\ call' = [at |-> "taken", of |-> l]
       ELSE /\ call' = [at |-> "idle", of |-> NoListener]
            /\ UNCHANGED lst
    /\ UNCHANGED <<runtime, started, halting, made, channels, inbox, neg, next,
                   conns, reload, idle, given>>

\* store_channel drops a receiver stored before under the number.
StoreChannel ==
    /\ call.at = "taken"
    /\ LET l == call.of
           before == channels[l[2]] IN
       /\ channels' = [channels EXCEPT ![l[2]] = l]
       /\ lst' = [k \in Listener |->
                    IF k = l THEN [lst[k] EXCEPT !.receiver = "stored"]
                    ELSE IF k = before THEN [lst[k] EXCEPT !.receiver = "dropped"]
                    ELSE lst[k]]
    /\ call' = [at |-> "idle", of |-> NoListener]
    /\ UNCHANGED <<runtime, started, halting, made, inbox, neg, next, conns,
                   reload, idle, given>>

\* close_listener: the accept task and with it its negotiations are aborted;
\* the connections and the stored receiver stay.
CloseListener(n) ==
    LET l == <<runtime, n>> IN
    /\ Started /\ ListenersFree /\ lst[l].open
    /\ lst' = [lst EXCEPT ![l] = Removed(@)]
    /\ neg' = [a \in Attempts |-> IF neg[a].of = l THEN Aborted(neg[a]) ELSE neg[a]]
    /\ UNCHANGED <<runtime, started, halting, made, channels, inbox, call, next,
                   conns, reload, idle, given>>

-----------------------------------------------------------------------------
(* The accept loop and negotiate_accepted_connection.                      *)

Negotiating(l) ==
    {a \in Attempts : neg[a].of = l /\ neg[a].at \in {"accepted", "endpoint",
                                                      "handshake", "registered"}}

\* The next peer to connect.
Waiting(a) == neg[a].at = "none" /\ \A b \in 1..(a - 1) : neg[b].at # "none"

Accept(a, l) ==
    /\ Waiting(a) /\ lst[l].looping /\ ~Dropped(l)
    /\ Cardinality(Negotiating(l)) < Backlog
    /\ neg' = [neg EXCEPT ![a] = [NoTask EXCEPT !.at = "accepted", !.of = l]]
    /\ UNCHANGED <<runtime, started, halting, lst, made, channels, inbox, call,
                   next, conns, reload, idle, given>>

\* The loop ends when its channel is closed.
AcceptLoopEnds(l) ==
    /\ lst[l].looping /\ Dropped(l)
    /\ lst' = [lst EXCEPT ![l].looping = FALSE]
    /\ neg' = [a \in Attempts |-> IF neg[a].of = l THEN Aborted(neg[a]) ELSE neg[a]]
    /\ UNCHANGED <<runtime, started, halting, made, channels, inbox, call, next,
                   conns, reload, idle, given>>

\* The task reads the two halves of the configuration one after the other.
ReadEndpoint(a) ==
    /\ neg[a].at = "accepted"
    /\ neg' = [neg EXCEPT ![a].at = "endpoint",
                          ![a].endpoint = lst[neg[a].of].endpoint]
    /\ UNCHANGED <<runtime, started, halting, lst, made, channels, inbox, call,
                   next, conns, reload, idle, given>>

ReadAcceptor(a) ==
    /\ neg[a].at = "endpoint"
    /\ neg' = [neg EXCEPT ![a].at = "handshake",
                          ![a].acceptor = lst[neg[a].of].acceptor]
    /\ UNCHANGED <<runtime, started, halting, lst, made, channels, inbox, call,
                   next, conns, reload, idle, given>>

\* The TLS handshake or the negotiation fails or times out.
NegotiationFails(a) ==
    /\ neg[a].at = "handshake"
    /\ neg' = [neg EXCEPT ![a] = Ended(@)]
    /\ UNCHANGED <<runtime, started, halting, lst, made, channels, inbox, call,
                   next, conns, reload, idle, given>>

\* Mistake for the runs to notice: ids start again with the runtime.
AllocateConnectionIdPerRuntime(a) ==
    Cardinality({b \in Attempts : neg[b].id # 0 /\ neg[b].of[1] = neg[a].of[1]}) + 1

\* allocate_connection_id; beyond MaxId there is none.
AllocateConnectionId(a) == next

\* An id is taken and the connection registered; without an id the stream is
\* dropped.  An aborted task may still get here, and stops at its next await.
Register(a) ==
    LET id == AllocateConnectionId(a) IN
    /\ neg[a].at = "handshake" \/ (neg[a].at = "aborted" /\ neg[a].id = 0)
    /\ IF next > MaxId
       THEN /\ neg' = [neg EXCEPT ![a] = Ended(@)]
            /\ UNCHANGED <<next, conns>>
       ELSE /\ next' = next + 1
            /\ conns' = conns \cup {<<neg[a].of[1], id>>}
            /\ neg' = [neg EXCEPT ![a] =
                         IF @.at = "aborted" THEN Ended([@ EXCEPT !.id = id])
                         ELSE [@ EXCEPT !.id = id, !.at = "registered"]]
    /\ UNCHANGED <<runtime, started, halting, lst, made, channels, inbox, call,
                   reload, idle, given>>

\* An aborted task stops at its next await.
TaskStops(a) ==
    /\ neg[a].at = "aborted"
    /\ neg' = [neg EXCEPT ![a] = Ended(@)]
    /\ UNCHANGED <<runtime, started, halting, lst, made, channels, inbox, call,
                   next, conns, reload, idle, given>>

\* Mistake for the runs to notice: an id that finds the channel full is lost.
AnnounceTries(a) ==
    LET l == neg[a].of IN
    /\ neg[a].at = "registered"
    /\ inbox' = IF Dropped(l) \/ Len(inbox[l]) = Capacity THEN inbox
                ELSE [inbox EXCEPT ![l] = Append(@, neg[a].id)]
    /\ neg' = [neg EXCEPT ![a] = Ended(@)]
    /\ UNCHANGED <<runtime, started, halting, lst, made, channels, call, next,
                   conns, reload, idle, given>>

\* tx.send: it waits while the channel is full and fails when it is closed.
Announce(a) ==
    LET l == neg[a].of IN
    /\ neg[a].at = "registered"
    /\ Dropped(l) \/ Len(inbox[l]) < Capacity
    /\ inbox' = IF Dropped(l) THEN inbox
                ELSE [inbox EXCEPT ![l] = Append(@, neg[a].id)]
    /\ neg' = [neg EXCEPT ![a] = Ended(@)]
    /\ UNCHANGED <<runtime, started, halting, lst, made, channels, call, next,
                   conns, reload, idle, given>>

-----------------------------------------------------------------------------
(* Dart's polling, and the end of a connection.                            *)

\* One turn of ct_poll_connection's loop: an id whose connection is gone, or
\* belongs to no registry of this runtime, is skipped.
PollConnection(n) ==
    LET l == channels[n] IN
    /\ Started /\ l # NoListener /\ inbox[l] # <<>>
    /\ inbox' = [inbox EXCEPT ![l] = Tail(@)]
    /\ given' = IF <<runtime, Head(inbox[l])>> \in conns
                THEN Append(given, [id |-> Head(inbox[l]), listener |-> <<runtime, n>>])
                ELSE given
    /\ UNCHANGED <<runtime, started, halting, lst, made, channels, call, neg, next,
                   conns, reload, idle>>

\* remove_connection, and schedule_idle_allocator_release behind it: one
\* release at a time is reserved, by a registry that has become empty.
ConnectionEnds(id) ==
    /\ Started /\ <<runtime, id>> \in conns
    /\ conns' = conns \ {<<runtime, id>>}
    /\ idle' = IF conns' = {} /\ ~idle.queued
               THEN [queued |-> TRUE, of |-> runtime]
               ELSE idle
    /\ UNCHANGED <<runtime, started, halting, lst, made, channels, inbox, call, neg,
                   next, reload, given>>

\* release_if_due, and the drop of the reservation whatever it did.
IdleReleases ==
    /\ idle.of # 0
    /\ idle' = [queued |-> FALSE, of |-> 0]
    /\ UNCHANGED <<runtime, started, halting, lst, made, channels, inbox, call, neg,
                   next, conns, reload, given>>

-----------------------------------------------------------------------------
(* reload_tls and reload_router_tls.                                       *)

Selected(scoped) == {l \in Listener : l[1] = runtime /\ lst[l].open
                                      /\ lst[l].scoped = scoped}

\* Mistake for the runs to notice: listeners are updated as they are prepared.
ReloadPreparesEach(scoped, valid) ==
    /\ Started /\ ListenersFree /\ Selected(scoped) # {} /\ reload.to < MaxVersion
    /\ reload' = [at |-> IF Selected(scoped) \subseteq valid THEN "updating" ELSE "failed",
                  to |-> reload.to + 1,
                  todo |-> (Selected(scoped) \cap valid) \X {"endpoint", "acceptor"}]
    /\ UNCHANGED <<runtime, started, halting, lst, made, channels, inbox, call, neg,
                   next, conns, idle, given>>

\* Every identity is built before a listener is updated; valid are those whose
\* new configuration is accepted.
ReloadPrepares(scoped, valid) ==
    /\ Started /\ ListenersFree /\ Selected(scoped) # {} /\ reload.to < MaxVersion
    /\ reload' = IF Selected(scoped) \subseteq valid
                 THEN [at |-> "updating", to |-> reload.to + 1,
                       todo |-> Selected(scoped) \X {"endpoint", "acceptor"}]
                 ELSE [at |-> "failed", to |-> reload.to + 1, todo |-> {}]
    /\ UNCHANGED <<runtime, started, halting, lst, made, channels, inbox, call, neg,
                   next, conns, idle, given>>

\* ListenerConfigState::update takes the two locks one after the other.
ReloadUpdates(l, half) ==
    /\ <<l, half>> \in reload.todo
    /\ half = "acceptor" => <<l, "endpoint">> \notin reload.todo
    /\ lst' = IF half = "endpoint" THEN [lst EXCEPT ![l].endpoint = reload.to]
              ELSE [lst EXCEPT ![l].acceptor = reload.to]
    /\ reload' = [reload EXCEPT !.todo = @ \ {<<l, half>>}]
    /\ UNCHANGED <<runtime, started, halting, made, channels, inbox, call, neg,
                   next, conns, idle, given>>

ReloadReturns ==
    /\ reload.at # "idle" /\ reload.todo = {}
    /\ reload' = [reload EXCEPT !.at = "idle"]
    /\ UNCHANGED <<runtime, started, halting, lst, made, channels, inbox, call, neg,
                   next, conns, idle, given>>

-----------------------------------------------------------------------------
TaskStep(a) ==
    \/ ReadEndpoint(a) \/ ReadAcceptor(a) \/ NegotiationFails(a) \/ Register(a)
    \/ TaskStops(a) \/ Announce(a)

Next ==
    \/ StartRuntime \/ ShutdownBegins \/ ShutdownStops \/ ShutdownClears
    \/ Listen \/ AcceptChannel \/ StoreChannel
    \/ \E n \in Numbers : runtime # 0 /\ CloseListener(n)
    \/ \E a \in Attempts, l \in Listener : Accept(a, l)
    \/ \E l \in Listener : AcceptLoopEnds(l)
    \/ \E a \in Attempts : TaskStep(a)
    \/ \E n \in Numbers : PollConnection(n)
    \/ \E id \in Ids : ConnectionEnds(id)
    \/ IdleReleases
    \/ \E scoped \in BOOLEAN : \E valid \in SUBSET Selected(scoped) :
         ReloadPrepares(scoped, valid)
    \/ \E l \in Listener, half \in {"endpoint", "acceptor"} : ReloadUpdates(l, half)
    \/ ReloadReturns

Spec == Init /\ [][Next]_vars

-----------------------------------------------------------------------------
\* Types; a listener negotiates at most Backlog connections at a time (the
\* accept loop of listen_endpoint), and a channel holds at most its capacity.
TypeOK ==
    /\ runtime \in 0..started /\ started \in 0..MaxRuns
    /\ halting \in {"no", "stopping", "clearing"}
    /\ \A l \in Listener :
         /\ Cardinality(Negotiating(l)) <= Backlog
         /\ Len(inbox[l]) <= Capacity
         /\ lst[l].open => l[1] = runtime
         /\ lst[l].receiver \in {"none", "entry", "call", "stored", "dropped"}
    /\ next \in 1..(MaxId + 1)
    /\ conns \subseteq Runs \X Ids

\* ct_poll_connection returns every connection once, under the listener that
\* accepted it, whatever a stopped runtime has left in a channel of the same
\* number (allocate_connection_id, store_channel).
GivenOnceToItsListener ==
    \A i, j \in DOMAIN given :
      /\ given[i].id = given[j].id => i = j
      /\ \E a \in Attempts : neg[a].id = given[i].id /\ neg[a].of = given[i].listener

\* The flag that coalesces allocator releases is set exactly while a task that
\* will clear it exists; a leak would end the releases of every later runtime,
\* as the flag is process-wide (IdleAllocatorRelease, Reservation).
ReservationHeld == idle.queued <=> idle.of # 0

\* Between reloads the two halves of a listener's configuration are of one
\* reload, and no listener lags behind one of its scope that was opened later:
\* the reload that reached the later one reached it too.
ReloadsComplete ==
    reload.at # "updating" =>
      \A k, l \in Listener :
        lst[k].open /\ lst[l].open =>
          /\ lst[k].endpoint = lst[k].acceptor
          /\ lst[k].scoped = lst[l].scoped /\ k[2] < l[2] =>
               lst[k].endpoint >= lst[l].endpoint

\* A reload changes all the listeners it selects or, when the configuration of
\* one of them is refused, none, and nothing else changes a listener's
\* configuration; listeners come and go between reloads (reload_tls_selected).
ReloadAllOrNone ==
    [][/\ ReloadsComplete'
       /\ \A l \in Listener :
            lst[l].open /\ lst'[l].open
            /\ (lst'[l].endpoint # lst[l].endpoint \/ lst'[l].acceptor # lst[l].acceptor) =>
              reload.at = "updating"]_vars

\* A connection in the registry whose negotiation has ended waits in its
\* listener's channel or was given to Dart, as long as the listener is open and
\* its receiver is kept (negotiate_accepted_connection).
NoneForgotten ==
    \A a \in Attempts :
      LET l == neg[a].of IN
      neg[a].at = "done" /\ <<l[1], neg[a].id>> \in conns
      /\ lst[l].open /\ ~Dropped(l) =>
           \/ \E i \in DOMAIN inbox[l] : inbox[l][i] = neg[a].id
           \/ \E i \in DOMAIN given : given[i].id = neg[a].id

(* Nothing is forgotten: an established connection is in its listener's    *)
(* channel until it is polled, and the idle allocator is reserved exactly  *)
(* while a release is due (negotiate_accepted_connection,                  *)
(* schedule_idle_allocator_release).                                       *)
Accounted == TypeOK /\ ReservationHeld /\ NoneForgotten
=============================================================================
