--------------------------- MODULE RuntimeProofs ----------------------------
(***************************************************************************)
(* Proofs about what the native runtime keeps: its listeners (Listeners),  *)
(* then the messages it has parsed (Messages) and the bytes of an MQTT     *)
(* connection (MqttStream).                                                *)
(*                                                                         *)
(* Listeners: an accepted connection is given to Dart once                 *)
(* and under the listener that accepted it, none is forgotten, and a       *)
(* reload reaches all the listeners it selects or none.                    *)
(*                                                                         *)
(* The argument rests on three kinds of fact: a listener that anything     *)
(* refers to was made by ct_listen, so that a new one is fresh; tasks and  *)
(* receivers only move forward; and the ids of connections are those of    *)
(* the tasks that took them, each in one place.                            *)
(*                                                                         *)
(* Messages: a receive buffer that was decrypted in place is known to      *)
(* nobody.  References are only made from references, so that the last     *)
(* owner stays the last.                                                   *)
(*                                                                         *)
(* MqttStream: everything the peer has sent, from what Dart has to what    *)
(* the reader has not read, is one stream, along which steps move bytes.   *)
(***************************************************************************)
EXTENDS Listeners, Messages, MqttStream, FiniteSetTheorems, SequenceTheorems, TLAPS

(* The types of the variables.                                             *)
Receivers == {"none", "entry", "call", "stored", "dropped"}
Entry == [open : BOOLEAN, looping : BOOLEAN, scoped : BOOLEAN, endpoint : 0..MaxVersion,
          acceptor : 0..MaxVersion, receiver : Receivers]
Stages == {"none", "accepted", "endpoint", "handshake", "registered", "aborted", "done"}
Task == [at : Stages, of : Listener \cup {NoListener}, endpoint : 0..MaxVersion,
         acceptor : 0..MaxVersion, id : 0..MaxId]
Halves == {"endpoint", "acceptor"}
Reload == [at : {"idle", "updating", "failed"}, to : 0..MaxVersion,
           todo : SUBSET (Listener \X Halves)]
Call == [at : {"idle", "listened", "taken"}, of : Listener \cup {NoListener}]
Shape ==
    /\ runtime \in 0..started /\ started \in 0..MaxRuns
    /\ halting \in {"no", "stopping", "clearing"}
    /\ lst \in [Listener -> Entry] /\ made \in [Runs -> 0..MaxListeners]
    /\ channels \in [Numbers -> Listener \cup {NoListener}]
    /\ inbox \in [Listener -> Seq(Ids)]
    /\ call \in Call /\ neg \in [Attempts -> Task]
    /\ next \in 1..(MaxId + 1) /\ conns \subseteq Runs \X Ids
    /\ reload \in Reload
    /\ idle \in [queued : BOOLEAN, of : 0..MaxRuns]
    /\ given \in Seq([id : Ids, listener : Listener])

(* The listeners that ct_listen has made.                                  *)
Known == {l \in Listener : l[2] <= made[l[1]]}

(* Only listeners of the runtime there is are open, and none while it      *)
(* stops; accept loops are of listeners made.                              *)
OpenOfRuntime ==
    \A l \in Listener :
      /\ lst[l].open => l \in Known /\ l[1] = runtime /\ halting # "stopping"
      /\ lst[l].looping => l \in Known

(* Where the receivers are: the one a call has taken is in its hands, one  *)
(* stored under a number is of that number.                                *)
ReceiversKept ==
    /\ call.at # "idle" => call.of \in Known
    /\ call.at = "taken" => lst[call.of].receiver = "call"
    /\ \A n \in Numbers : channels[n] # NoListener =>
         /\ channels[n] \in Known /\ channels[n][2] = n
         /\ lst[channels[n]].receiver = "stored"

(* A negotiation is of a listener made; an aborted one is of a listener    *)
(* closed or without a receiver; ids are of tasks that registered, each of *)
(* one.                                                                    *)
TasksSound ==
    \A a \in Attempts :
      /\ neg[a].at # "none" => neg[a].of \in Known
      /\ neg[a].at = "aborted" =>
           ~lst[neg[a].of].open \/ lst[neg[a].of].receiver = "dropped"
      /\ neg[a].at \in {"none", "accepted", "endpoint", "handshake"} => neg[a].id = 0
      /\ neg[a].at = "registered" => neg[a].id # 0
      /\ neg[a].id < next
      /\ \A b \in Attempts : neg[a].id = neg[b].id /\ neg[a].id # 0 => a = b

(* A connection is of a task.                                              *)
ConnsSound ==
    \A c \in conns : \E a \in Attempts : neg[a].id = c[2] /\ neg[a].of[1] = c[1]

(* What is in a channel is of a task of its listener that has ended; it is *)
(* there once, and was not given.                                          *)
InboxSound ==
    \A l \in Listener : \A i \in DOMAIN inbox[l] :
      /\ \E a \in Attempts :
           neg[a].at = "done" /\ neg[a].id = inbox[l][i] /\ neg[a].of = l
      /\ \A j \in DOMAIN inbox[l] : inbox[l][i] = inbox[l][j] => i = j
      /\ \A j \in DOMAIN given : given[j].id # inbox[l][i]

(* So is what was given, and it was given once.                            *)
GivenSound ==
    \A i \in DOMAIN given :
      /\ \E a \in Attempts :
           neg[a].at = "done" /\ neg[a].id = given[i].id /\ neg[a].of = given[i].listener
      /\ \A j \in DOMAIN given : given[i].id = given[j].id => i = j

(* Two open listeners after a whole number of reloads.                     *)
OneVersion(k, l) ==
    lst[k].open /\ lst[l].open =>
      /\ lst[k].endpoint = lst[k].acceptor
      /\ lst[k].scoped = lst[l].scoped /\ k[2] < l[2] => lst[k].endpoint >= lst[l].endpoint

(* While a reload is at work, each open listener of its scope has the new  *)
(* version or is still due; the others are as before.                      *)
ReloadSound ==
    /\ reload.at # "updating" => reload.todo = {}
    /\ reload.at # "idle" => Started
    /\ reload.at = "updating" =>
         \E scoped \in BOOLEAN : \A k \in Listener :
           /\ lst[k].open /\ lst[k].scoped = scoped =>
                /\ lst[k].endpoint = reload.to \/ <<k, "endpoint">> \in reload.todo
                /\ lst[k].acceptor = reload.to \/ <<k, "acceptor">> \in reload.todo
           /\ ~(lst[k].open /\ lst[k].scoped = scoped) =>
                <<k, "endpoint">> \notin reload.todo /\ <<k, "acceptor">> \notin reload.todo
           /\ \A l \in Listener : lst[k].scoped # scoped => OneVersion(k, l)
    /\ ReloadsComplete

(* Negotiations of a listener at work, in a table of tasks.                *)
Busy(tasks, l) ==
    {a \in Attempts : tasks[a].of = l /\ tasks[a].at \in {"accepted", "endpoint",
                                                          "handshake", "registered"}}
(* Backlog and capacity are kept.                                          *)
LimitsKept ==
    \A l \in Listener : Cardinality(Busy(neg, l)) <= Backlog /\ Len(inbox[l]) <= Capacity

(* The inductive invariant.                                                *)
IndInv ==
    /\ Shape /\ OpenOfRuntime /\ ReceiversKept /\ TasksSound /\ ConnsSound
    /\ InboxSound /\ GivenSound /\ ReloadSound /\ LimitsKept
    /\ ReservationHeld /\ NoneForgotten

(* What the assumption on the bounds says, as the provers use it.          *)
LEMMA Constants ==
    /\ MaxAttempts \in Nat /\ MaxRuns \in Nat /\ MaxRuns > 0
    /\ MaxListeners \in Nat /\ MaxListeners > 0 /\ MaxVersion \in Nat
    /\ MaxId \in Nat /\ MaxId > 0 /\ Backlog \in Nat /\ Backlog > 0
    /\ Capacity \in Nat /\ Capacity > 0
  BY ListenersAssumption

(* A listener is the pair of a runtime's number and its own.               *)
LEMMA ListenerPairs ==
    /\ \A l \in Listener : l[1] \in Runs /\ l[2] \in Numbers /\ l = <<l[1], l[2]>>
    /\ \A r \in Runs, n \in Numbers : <<r, n>> \in Listener
    /\ NoListener \notin Listener /\ NoListener[1] = 0
  BY DEF Listener, NoListener, Runs, Numbers

(* The empty entry has its type.                                           *)
LEMMA NoEntryType == NoEntry \in Entry
  BY Constants DEF NoEntry, Entry, Receivers

(* The empty task has its type.                                            *)
LEMMA NoTaskType == NoTask \in Task
  BY Constants DEF NoTask, Task, Stages

(* A removed listener is closed, its loop is over, and its receiver is     *)
(* dropped unless a call had taken it (close_listener).                    *)
LEMMA RemovedType ==
  ASSUME NEW e \in Entry
  PROVE  /\ Removed(e) \in Entry /\ ~Removed(e).open /\ ~Removed(e).looping
         /\ Removed(e).receiver = IF e.receiver = "entry" THEN "dropped" ELSE e.receiver
  BY NoEntryType DEF Removed, NoEntry, Entry, Receivers

(* A task that has ended keeps its listener and its id.                    *)
LEMMA EndedType ==
  ASSUME NEW t \in Task
  PROVE  /\ Ended(t) \in Task /\ Ended(t).at = "done" /\ Ended(t).of = t.of
         /\ Ended(t).id = t.id
  BY NoTaskType DEF Ended, NoTask, Task, Stages

(* An aborted task keeps its listener and its id; one that never began or  *)
(* has ended is left alone.                                                *)
LEMMA AbortedType ==
  ASSUME NEW t \in Task
  PROVE  /\ Aborted(t) \in Task /\ Aborted(t).of = t.of /\ Aborted(t).id = t.id
         /\ t.at \in {"none", "done"} => Aborted(t) = t
         /\ t.at \notin {"none", "done"} => Aborted(t).at = "aborted"
  BY EndedType DEF Aborted, Task, Stages, Ended, NoTask

(* The bound on the listeners of all runtimes leaves the next number of    *)
(* this runtime free: it has made at most as many as there are.            *)
LEMMA RoomToListen ==
  ASSUME Shape, runtime # 0,
         Cardinality({l \in Listener : made[l[1]] >= l[2]}) < MaxListeners
  PROVE  runtime \in Runs /\ made[runtime] + 1 \in Numbers
<1> DEFINE T == {l \in Listener : made[l[1]] >= l[2]}
           n == made[runtime]
           f == [i \in 1..n |-> <<runtime, i>>]
<1>1. runtime \in Runs /\ n \in Nat /\ n <= MaxListeners
  BY Constants DEF Shape, Runs
<1>2. IsFiniteSet(Listener)
  <2>1. IsFiniteSet(Runs) /\ IsFiniteSet(Numbers)
    BY Constants, FS_Interval DEF Runs, Numbers
  <2> QED BY <2>1, FS_Product DEF Listener
<1>3. IsFiniteSet(T)
  BY <1>2, FS_Subset
<1>4. \A i \in 1..n : <<runtime, i>> \in T
  <2> TAKE i \in 1..n
  <2>1. i \in Numbers
    BY <1>1, Constants DEF Numbers
  <2>2. <<runtime, i>> \in Listener
    BY <1>1, <2>1, ListenerPairs
  <2> QED BY <2>2, <1>1
<1>5. f \in Injection(1..n, T)
  <2>1. f \in [1..n -> T]
    BY <1>4
  <2>2. \A i, j \in 1..n : f[i] = f[j] => i = j
    OBVIOUS
  <2> QED BY <2>1, <2>2 DEF Injection, IsInjective
<1>6. Cardinality(1..n) <= Cardinality(T)
  <2> HIDE DEF T, f, n
  <2> QED BY <1>5, <1>3, FS_Injection
<1>7. Cardinality(1..n) = n
  BY <1>1, FS_Interval
<1>8. Cardinality(T) \in Nat
  BY <1>3, FS_CardinalityType
<1> QED
  BY <1>1, <1>6, <1>7, <1>8, Constants DEF Numbers

(* The fields of an entry may be updated one at a time.                    *)
LEMMA EntryUpdates ==
  ASSUME NEW e \in Entry
  PROVE  /\ \A r \in Receivers : [e EXCEPT !.receiver = r] \in Entry
         /\ [e EXCEPT !.looping = FALSE] \in Entry
         /\ \A v \in 0..MaxVersion :
              [e EXCEPT !.endpoint = v] \in Entry /\ [e EXCEPT !.acceptor = v] \in Entry
  BY DEF Entry

(* The entry that ct_listen makes has its type.                            *)
LEMMA NewEntryType ==
  ASSUME NEW scoped \in BOOLEAN
  PROVE  [NoEntry EXCEPT !.open = TRUE, !.looping = TRUE, !.scoped = scoped,
                         !.receiver = "entry"] \in Entry
  BY NoEntryType DEF Entry, Receivers

(* So has the task of a connection accepted.                               *)
LEMMA NewTaskType ==
  ASSUME NEW l \in Listener
  PROVE  [NoTask EXCEPT !.at = "accepted", !.of = l] \in Task
  BY NoTaskType DEF Task, Stages

(* A task that has read one half of the configuration has its type.        *)
LEMMA TaskUpdates ==
  ASSUME NEW t \in Task, NEW v \in 0..MaxVersion
  PROVE  /\ [t EXCEPT !.at = "endpoint", !.endpoint = v] \in Task
         /\ [t EXCEPT !.at = "handshake", !.acceptor = v] \in Task
  BY DEF Task, Stages

(* The listener that ct_listen makes was not known before.                 *)
LEMMA FreshListener ==
  ASSUME Shape, Listen
  PROVE  /\ runtime \in Runs /\ made[runtime] + 1 \in Numbers
         /\ <<runtime, made[runtime] + 1>> \in Listener
         /\ <<runtime, made[runtime] + 1>> \notin Known
<1>1. runtime \in Runs /\ made[runtime] + 1 \in Numbers
  BY RoomToListen DEF Listen, Started
<1>2. <<runtime, made[runtime] + 1>> \in Listener
  BY <1>1, ListenerPairs
<1> QED BY <1>1, <1>2, Constants DEF Known, Shape

(* Every step keeps the types of the variables.                            *)
LEMMA ShapeStep ==
  ASSUME Shape, ReceiversKept, TasksSound, Next
  PROVE  Shape'
<1> USE Constants, ListenerPairs
<1>1. CASE StartRuntime
  BY SMTT(30), <1>1 DEF StartRuntime, Shape
<1>2. CASE ShutdownBegins
  <2>1. lst' \in [Listener -> Entry]
    BY <1>2, RemovedType DEF ShutdownBegins, Shape
  <2>2. neg' \in [Attempts -> Task]
    BY <1>2, AbortedType DEF ShutdownBegins, Shape
  <2> QED BY <1>2, <2>1, <2>2 DEF ShutdownBegins, Shape
<1>3. CASE ShutdownStops
  <2>1. neg' \in [Attempts -> Task]
    BY <1>3, EndedType DEF ShutdownStops, Shape
  <2>2. idle' \in [queued : BOOLEAN, of : 0..MaxRuns]
    BY <1>3 DEF ShutdownStops
  <2> QED BY <1>3, <2>1, <2>2 DEF ShutdownStops, Shape
<1>4. CASE ShutdownClears
  <2>1. lst' \in [Listener -> Entry]
    BY <1>4, EntryUpdates DEF ShutdownClears, Shape, Receivers
  <2>2. channels' \in [Numbers -> Listener \cup {NoListener}]
    BY <1>4 DEF ShutdownClears
  <2> QED BY <1>4, <2>1, <2>2 DEF ShutdownClears, Shape
<1>5. CASE Listen
  <2> DEFINE l == <<runtime, made[runtime] + 1>>
  <2>1. runtime \in Runs /\ made[runtime] + 1 \in Numbers /\ l \in Listener
    BY <1>5, FreshListener
  <2>2. made' \in [Runs -> 0..MaxListeners]
    BY SMTT(30), <1>5, <2>1 DEF Listen, Shape, Numbers
  <2>3. lst' \in [Listener -> Entry]
    <3>1. PICK scoped \in BOOLEAN :
            lst' = [lst EXCEPT ![l] = [NoEntry EXCEPT !.open = TRUE, !.looping = TRUE,
                                         !.scoped = scoped, !.receiver = "entry"]]
      BY <1>5 DEF Listen
    <3>2. [NoEntry EXCEPT !.open = TRUE, !.looping = TRUE,
                          !.scoped = scoped, !.receiver = "entry"] \in Entry
      BY NewEntryType
    <3> HIDE DEF l
    <3> QED BY <3>1, <3>2, <2>1 DEF Shape
  <2>4. call' \in Call
    BY <1>5, <2>1 DEF Listen, Call
  <2> QED BY <1>5, <2>2, <2>3, <2>4 DEF Listen, Shape
<1>6. CASE AcceptChannel
  <2>1. lst' \in [Listener -> Entry]
    <3>1. lst' = lst \/ lst' = [lst EXCEPT ![<<runtime, call.of[2]>>].receiver = "call"]
      BY <1>6 DEF AcceptChannel
    <3>2. lst \in [Listener -> Entry] /\ "call" \in Receivers
      BY DEF Shape, Receivers
    <3> DEFINE l == <<runtime, call.of[2]>>
    <3>3. l \in Listener => [lst[l] EXCEPT !.receiver = "call"] \in Entry
      BY <3>2, EntryUpdates
    <3> HIDE DEF l
    <3> QED BY <3>1, <3>2, <3>3 DEF l
  <2>2. call.of \in Listener
    BY <1>6 DEF AcceptChannel, ReceiversKept, Known
  <2>3. call' \in Call
    <3>1. runtime # 0 => runtime \in Runs
      BY DEF Shape, Runs
    <3>2. runtime # 0 => <<runtime, call.of[2]>> \in Listener
      BY <3>1, <2>2
    <3> QED BY <1>6, <3>2 DEF AcceptChannel, Call
  <2> QED BY <1>6, <2>1, <2>3 DEF AcceptChannel, Shape
<1>7. CASE StoreChannel
  <2>1. lst' \in [Listener -> Entry]
    BY ZenonT(30), <1>7 DEF StoreChannel, Shape, Entry, Receivers
  <2>2. call.of \in Listener
    BY <1>7 DEF StoreChannel, ReceiversKept, Known
  <2>3. channels' \in [Numbers -> Listener \cup {NoListener}]
    BY <1>7, <2>2 DEF StoreChannel, Shape
  <2>4. call' \in Call
    BY <1>7 DEF StoreChannel, Call
  <2> QED BY <1>7, <2>1, <2>3, <2>4 DEF StoreChannel, Shape
<1>8. ASSUME NEW n \in Numbers, runtime # 0, CloseListener(n) PROVE Shape'
  <2>1. <<runtime, n>> \in Listener
    <3>1. runtime \in Runs
      BY <1>8 DEF Shape, Runs
    <3> QED BY <3>1
  <2>2. lst' \in [Listener -> Entry]
    BY <1>8, <2>1, RemovedType DEF CloseListener, Shape
  <2>3. neg' \in [Attempts -> Task]
    BY <1>8, AbortedType DEF CloseListener, Shape
  <2> QED BY <1>8, <2>2, <2>3 DEF CloseListener, Shape
<1>9. ASSUME NEW a \in Attempts, NEW l \in Listener, Accept(a, l) PROVE Shape'
  <2>1. [NoTask EXCEPT !.at = "accepted", !.of = l] \in Task
    BY NewTaskType
  <2> QED BY <1>9, <2>1 DEF Accept, Shape
<1>10. ASSUME NEW l \in Listener, AcceptLoopEnds(l) PROVE Shape'
  <2>1. lst' \in [Listener -> Entry]
    BY ZenonT(30), <1>10 DEF AcceptLoopEnds, Shape, Entry
  <2>2. neg' \in [Attempts -> Task]
    BY <1>10, AbortedType DEF AcceptLoopEnds, Shape
  <2> QED BY <1>10, <2>1, <2>2 DEF AcceptLoopEnds, Shape
<1>11. ASSUME NEW a \in Attempts, TaskStep(a) PROVE Shape'
  <2>1. neg[a] \in Task
    BY DEF Shape
  <2>2. CASE ReadEndpoint(a)
    <3>1. lst[neg[a].of].endpoint \in 0..MaxVersion
      BY <2>2 DEF ReadEndpoint, TasksSound, Known, Shape, Entry
    <3>2. neg' \in [Attempts -> Task]
      BY <2>2, <3>1, <2>1, TaskUpdates DEF ReadEndpoint, Shape
    <3> QED BY <2>2, <3>2 DEF ReadEndpoint, Shape
  <2>3. CASE ReadAcceptor(a)
    <3>1. lst[neg[a].of].acceptor \in 0..MaxVersion
      BY <2>3 DEF ReadAcceptor, TasksSound, Known, Shape, Entry
    <3>2. neg' \in [Attempts -> Task]
      BY <2>3, <3>1, <2>1, TaskUpdates DEF ReadAcceptor, Shape
    <3> QED BY <2>3, <3>2 DEF ReadAcceptor, Shape
  <2>4. CASE NegotiationFails(a)
    BY <2>4, <2>1, EndedType DEF NegotiationFails, Shape
  <2>5. CASE TaskStops(a)
    BY <2>5, <2>1, EndedType DEF TaskStops, Shape
  <2>6. CASE Register(a)
    <3>1. CASE next > MaxId
      BY <2>6, <3>1, <2>1, EndedType DEF Register, Shape
    <3>2. CASE ~(next > MaxId)
      <4>1. next \in Ids /\ next \in 0..MaxId /\ next + 1 \in 1..(MaxId + 1)
        BY <3>2 DEF Shape, Ids
      <4>2. [neg[a] EXCEPT !.id = next] \in Task
        BY <4>1, <2>1 DEF Task
      <4>3. [neg[a] EXCEPT !.id = next, !.at = "registered"] \in Task
        BY <4>1, <2>1 DEF Task, Stages
      <4>4. Ended([neg[a] EXCEPT !.id = next]) \in Task
        BY <4>2, EndedType
      <4>5. neg' \in [Attempts -> Task]
        BY <2>6, <3>2, <4>3, <4>4 DEF Register, AllocateConnectionId, Shape
      <4>6. neg[a].of[1] \in Runs
        BY <2>6 DEF Register, TasksSound, Known
      <4>7. conns' \subseteq Runs \X Ids
        BY <2>6, <3>2, <4>1, <4>6 DEF Register, AllocateConnectionId, Shape
      <4> QED BY <2>6, <3>2, <4>1, <4>5, <4>7 DEF Register, Shape
    <3> QED BY <3>1, <3>2
  <2>7. CASE Announce(a)
    <3>1. neg[a].of \in Listener
      BY <2>7 DEF Announce, TasksSound, Known
    <3>2. neg[a].id \in Ids
      BY <2>7, <2>1 DEF Announce, TasksSound, Task, Ids
    <3>3. inbox' \in [Listener -> Seq(Ids)]
      BY <2>7, <3>1, <3>2 DEF Announce, Shape
    <3>4. neg' \in [Attempts -> Task]
      BY <2>7, <2>1, EndedType DEF Announce, Shape
    <3> QED BY <2>7, <3>3, <3>4 DEF Announce, Shape
  <2> QED BY <1>11, <2>2, <2>3, <2>4, <2>5, <2>6, <2>7 DEF TaskStep
<1>12. ASSUME NEW n \in Numbers, PollConnection(n) PROVE Shape'
  <2>1. channels[n] \in Listener
    BY <1>12 DEF PollConnection, Shape
  <2>2. inbox[channels[n]] \in Seq(Ids) /\ inbox[channels[n]] # <<>>
    BY <1>12, <2>1 DEF PollConnection, Shape
  <2>3. inbox' \in [Listener -> Seq(Ids)]
    BY <1>12, <2>1, <2>2 DEF PollConnection, Shape
  <2>4. given' \in Seq([id : Ids, listener : Listener])
    <3>1. runtime \in Runs
      BY <1>12 DEF PollConnection, Started, Shape, Runs
    <3>2. [id |-> Head(inbox[channels[n]]), listener |-> <<runtime, n>>] 
             \in [id : Ids, listener : Listener]
      BY <3>1, <2>2
    <3>3. given \in Seq([id : Ids, listener : Listener])
      BY DEF Shape
    <3>4. Append(given, [id |-> Head(inbox[channels[n]]), listener |-> <<runtime, n>>])
             \in Seq([id : Ids, listener : Listener])
      BY <3>2, <3>3
    <3> QED BY <1>12, <3>3, <3>4 DEF PollConnection
  <2> QED BY <1>12, <2>3, <2>4 DEF PollConnection, Shape
<1>13. ASSUME NEW id \in Ids, ConnectionEnds(id) PROVE Shape'
  <2>1. idle' \in [queued : BOOLEAN, of : 0..MaxRuns]
    BY <1>13 DEF ConnectionEnds, Shape
  <2> QED BY <1>13, <2>1 DEF ConnectionEnds, Shape
<1>14. CASE IdleReleases
  <2>1. idle' \in [queued : BOOLEAN, of : 0..MaxRuns]
    BY <1>14 DEF IdleReleases
  <2> QED BY <1>14, <2>1 DEF IdleReleases, Shape
<1>15. ASSUME NEW scoped \in BOOLEAN, NEW valid, ReloadPrepares(scoped, valid) PROVE Shape'
  <2>1. reload' \in Reload
    <3>1. Selected(scoped) \X Halves \subseteq Listener \X Halves
      BY DEF Selected
    <3> QED BY <1>15, <3>1 DEF ReloadPrepares, Shape, Reload, Halves
  <2> QED BY <1>15, <2>1 DEF ReloadPrepares, Shape
<1>16. ASSUME NEW l \in Listener, NEW half \in Halves, ReloadUpdates(l, half) PROVE Shape'
  <2>1. lst' \in [Listener -> Entry]
    <3>1. reload.to \in 0..MaxVersion
      BY DEF Shape, Reload
    <3> QED BY <1>16, <3>1, EntryUpdates DEF ReloadUpdates, Shape
  <2>2. reload' \in Reload
    BY <1>16 DEF ReloadUpdates, Shape, Reload
  <2> QED BY <1>16, <2>1, <2>2 DEF ReloadUpdates, Shape
<1>17. CASE ReloadReturns
  <2>1. reload' \in Reload
    BY <1>17 DEF ReloadReturns, Shape, Reload
  <2> QED BY <1>17, <2>1 DEF ReloadReturns, Shape
<1> QED
  BY <1>1, <1>2, <1>3, <1>4, <1>5, <1>6, <1>7, <1>8, <1>9, <1>10, <1>11, <1>12, <1>13,
     <1>14, <1>15, <1>16, <1>17 DEF Next, Halves

(* What registering a connection does: one id is taken, the task and the   *)
(* registry have it; beyond the last id there is none                      *)
(* (allocate_connection_id).                                               *)
LEMMA Registers ==
  ASSUME Shape, TasksSound, NEW a \in Attempts, Register(a)
  PROVE  /\ neg[a].at \in {"handshake", "aborted"} /\ neg[a].id = 0
         /\ \A b \in Attempts \ {a} : neg'[b] = neg[b]
         /\ neg'[a].of = neg[a].of
         /\ next > MaxId => /\ neg'[a].at = "done" /\ neg'[a].id = 0
                            /\ next' = next /\ conns' = conns
         /\ next <= MaxId => /\ next \in Ids /\ neg'[a].id = next /\ next' = next + 1
                             /\ conns' = conns \cup {<<neg[a].of[1], next>>}
                             /\ neg'[a].at = IF neg[a].at = "aborted" THEN "done"
                                             ELSE "registered"
<1>1. neg[a].at \in {"handshake", "aborted"} /\ neg[a].id = 0
  BY DEF Register, TasksSound
<1>2. neg \in [Attempts -> Task] /\ neg[a] \in Task /\ next \in Nat /\ next > 0
  BY Constants DEF Shape
<1>3. \A b \in Attempts \ {a} : neg'[b] = neg[b]
  BY <1>2 DEF Register
<1>4. CASE next > MaxId
  <2>1. neg'[a] = Ended(neg[a]) /\ next' = next /\ conns' = conns
    BY <1>2, <1>4 DEF Register
  <2> QED BY <2>1, <1>1, <1>2, <1>3, <1>4, Constants, EndedType
<1>5. CASE next <= MaxId
  <2>1. /\ next' = next + 1 /\ conns' = conns \cup {<<neg[a].of[1], next>>}
        /\ neg'[a] = IF neg[a].at = "aborted" THEN Ended([neg[a] EXCEPT !.id = next])
                     ELSE [neg[a] EXCEPT !.id = next, !.at = "registered"]
    BY <1>2, <1>5, Constants DEF Register, AllocateConnectionId
  <2>2. next \in Ids /\ next \in 0..MaxId
    BY <1>2, <1>5, Constants DEF Ids
  <2>3. /\ [neg[a] EXCEPT !.id = next] \in Task
        /\ [neg[a] EXCEPT !.id = next].id = next /\ [neg[a] EXCEPT !.id = next].of = neg[a].of
    BY <1>2, <2>2 DEF Task
  <2>4. /\ [neg[a] EXCEPT !.id = next, !.at = "registered"].id = next
        /\ [neg[a] EXCEPT !.id = next, !.at = "registered"].at = "registered"
        /\ [neg[a] EXCEPT !.id = next, !.at = "registered"].of = neg[a].of
    BY <1>2, <2>2 DEF Task
  <2>5. CASE neg[a].at = "aborted"
    <3> DEFINE t == [neg[a] EXCEPT !.id = next]
    <3>1. Ended(t).at = "done" /\ Ended(t).of = t.of /\ Ended(t).id = t.id
      <4>1. t \in Task
        BY <2>3
      <4> HIDE DEF t
      <4> QED BY <4>1, EndedType
    <3>2. t.of = neg[a].of /\ t.id = next /\ neg'[a] = Ended(t)
      BY <2>1, <2>3, <2>5
    <3> HIDE DEF t
    <3> QED BY <2>1, <2>2, <2>5, <1>1, <1>3, <1>5, <1>2, <3>1, <3>2, Constants
  <2>6. CASE neg[a].at # "aborted"
    BY <2>1, <2>2, <2>4, <2>6, <1>1, <1>2, <1>3, <1>5, Constants
  <2> QED BY <2>5, <2>6
<1> QED BY <1>4, <1>5, <1>2, Constants

(* Tasks move forward: one that has begun keeps its listener, one that has *)
(* ended stays as it is, and an id once taken is kept.                     *)
LEMMA TasksMove ==
  ASSUME Shape, TasksSound, Next
  PROVE  \A a \in Attempts :
           /\ neg[a].at # "none" => neg'[a].at # "none" /\ neg'[a].of = neg[a].of
           /\ neg[a].at = "done" => neg'[a] = neg[a]
           /\ neg[a].id # 0 => neg'[a].id = neg[a].id
<1> TAKE b \in Attempts
<1> DEFINE Moves == /\ neg[b].at # "none" => neg'[b].at # "none" /\ neg'[b].of = neg[b].of
                    /\ neg[b].at = "done" => neg'[b] = neg[b]
                    /\ neg[b].id # 0 => neg'[b].id = neg[b].id
<1>0. neg[b] \in Task /\ neg \in [Attempts -> Task]
  BY DEF Shape
<1>a. neg' = neg => Moves
  OBVIOUS
<1>b. neg'[b] = Aborted(neg[b]) => Moves
  BY <1>0, AbortedType
<1>c. neg[b].at # "done" /\ neg[b].at # "none" /\ neg'[b] = Ended(neg[b]) => Moves
  BY <1>0, EndedType
<1>1. CASE StartRuntime \/ ShutdownClears \/ Listen \/ AcceptChannel \/ StoreChannel
             \/ IdleReleases \/ ReloadReturns
  BY <1>1, <1>a DEF StartRuntime, ShutdownClears, Listen, AcceptChannel, StoreChannel,
                    IdleReleases, ReloadReturns
<1>2. CASE ShutdownBegins
  BY <1>2, <1>a, <1>b DEF ShutdownBegins
<1>3. CASE ShutdownStops
  BY <1>3, <1>c DEF ShutdownStops
<1>8. ASSUME NEW n \in Numbers, CloseListener(n) PROVE Moves
  BY <1>8, <1>b DEF CloseListener
<1>9. ASSUME NEW a \in Attempts, NEW l \in Listener, Accept(a, l) PROVE Moves
  <2>1. neg[a].at = "none" /\ neg[a].id = 0
    BY <1>9 DEF Accept, Waiting, TasksSound
  <2> QED BY <1>9, <1>0, <2>1 DEF Accept
<1>10. ASSUME NEW l \in Listener, AcceptLoopEnds(l) PROVE Moves
  BY <1>10, <1>b DEF AcceptLoopEnds
<1>11. ASSUME NEW a \in Attempts, TaskStep(a) PROVE Moves
  <2>2. CASE ReadEndpoint(a)
    BY <2>2, <1>0 DEF ReadEndpoint, Task
  <2>3. CASE ReadAcceptor(a)
    BY <2>3, <1>0 DEF ReadAcceptor, Task
  <2>4. CASE NegotiationFails(a) \/ TaskStops(a) \/ Announce(a)
    BY <2>4, <1>0, <1>c DEF NegotiationFails, TaskStops, Announce
  <2>6. CASE Register(a)
    <3>1. /\ neg[a].at \in {"handshake", "aborted"} /\ neg[a].id = 0
          /\ \A c \in Attempts \ {a} : neg'[c] = neg[c]
          /\ neg'[a].of = neg[a].of
      BY <2>6, Registers
    <3>2. next \in Int /\ MaxId \in Int
      BY Constants DEF Shape
    <3>3. neg'[a].at \in {"done", "registered"}
      <4>1. CASE next > MaxId
        BY <4>1, <2>6, Registers
      <4>2. CASE next <= MaxId
        BY <4>2, <2>6, Registers
      <4> QED BY <3>2, <4>1, <4>2
    <3>4. CASE b = a
      BY <3>1, <3>3, <3>4
    <3>5. CASE b # a
      BY <3>1, <3>5
    <3> QED BY <3>4, <3>5
  <2> QED BY <1>11, <2>2, <2>3, <2>4, <2>6 DEF TaskStep
<1>12. ASSUME NEW n \in Numbers, PollConnection(n) PROVE Moves
  BY <1>12, <1>a DEF PollConnection
<1>13. ASSUME NEW id \in Ids, ConnectionEnds(id) PROVE Moves
  BY <1>13, <1>a DEF ConnectionEnds
<1>15. ASSUME NEW scoped \in BOOLEAN, NEW valid, ReloadPrepares(scoped, valid) PROVE Moves
  BY <1>15, <1>a DEF ReloadPrepares
<1>16. ASSUME NEW l \in Listener, NEW half \in Halves, ReloadUpdates(l, half) PROVE Moves
  BY <1>16, <1>a DEF ReloadUpdates
<1> HIDE DEF Moves
<1> QED
  BY <1>1, <1>2, <1>3, <1>8, <1>9, <1>10, <1>11, <1>12, <1>13,
     <1>15, <1>16 DEF Next, Halves, Moves

(* A listener that was made stays known.                                   *)
LEMMA KnownGrows ==
  ASSUME Shape, Next
  PROVE  Known \subseteq Known'
<1>1. CASE Listen
  <2>1. \A r \in Runs : made'[r] >= made[r] /\ made[r] \in Nat /\ made'[r] \in Nat
    BY <1>1, Constants DEF Listen, Shape
  <2>2. \A l \in Listener : l[1] \in Runs /\ l[2] \in Nat
    BY ListenerPairs, Constants DEF Numbers
  <2> QED BY <2>1, <2>2 DEF Known
<1>2. CASE ~Listen
  <2>1. made' = made
    BY <1>2 DEF Next, TaskStep, StartRuntime, ShutdownBegins, ShutdownStops, ShutdownClears,
         AcceptChannel, StoreChannel, CloseListener, Accept, AcceptLoopEnds, ReadEndpoint,
         ReadAcceptor, NegotiationFails, Register, TaskStops, Announce, PollConnection,
         ConnectionEnds, IdleReleases, ReloadPrepares, ReloadUpdates, ReloadReturns
  <2> QED BY <2>1 DEF Known
<1> QED BY <1>1, <1>2

(* What a step other than ct_listen and a reload's update does to a        *)
(* listener: it may close it and drop its receiver, no more.               *)
Kept(l) ==
    /\ lst'[l].open => /\ lst[l].open /\ lst'[l].scoped = lst[l].scoped
                       /\ lst'[l].endpoint = lst[l].endpoint
                       /\ lst'[l].acceptor = lst[l].acceptor
    /\ lst[l].receiver = "dropped" => lst'[l].receiver = "dropped"
    /\ lst'[l].looping => lst[l].looping

(* What ct_listen does: one fresh entry, of version 0, and no other is     *)
(* changed.                                                                *)
LEMMA ListenEntry ==
  ASSUME Shape, Listen
  PROVE  LET n == <<runtime, made[runtime] + 1>> IN
         /\ \A l \in Listener : l # n => lst'[l] = lst[l]
         /\ lst'[n].endpoint = 0 /\ lst'[n].acceptor = 0 /\ lst'[n].open
         /\ lst'[n].receiver = "entry" /\ n \in Known' /\ n \notin Known
         /\ n \in Listener
<1> DEFINE n == <<runtime, made[runtime] + 1>>
<1>1. n \in Listener /\ n \notin Known /\ runtime \in Runs /\ made[runtime] + 1 \in Numbers
  BY FreshListener
<1>2. PICK scoped \in BOOLEAN :
        lst' = [lst EXCEPT ![n] = [NoEntry EXCEPT !.open = TRUE, !.looping = TRUE,
                                     !.scoped = scoped, !.receiver = "entry"]]
  BY DEF Listen
<1>3. /\ lst'[n].endpoint = 0 /\ lst'[n].acceptor = 0 /\ lst'[n].open
      /\ lst'[n].receiver = "entry"
  <2> HIDE DEF n
  <2> QED BY <1>1, <1>2 DEF Shape, NoEntry
<1>4. \A l \in Listener : l # n => lst'[l] = lst[l]
  <2> HIDE DEF n
  <2> QED BY <1>2 DEF Shape
<1>5. n \in Known'
  <2>1. made'[runtime] = made[runtime] + 1
    BY <1>1 DEF Listen, Shape
  <2>2. n[1] = runtime /\ n[2] = made[runtime] + 1
    OBVIOUS
  <2>3. made[runtime] \in Nat
    BY <1>1, Constants DEF Shape
  <2> HIDE DEF n
  <2> QED BY <1>1, <2>1, <2>2, <2>3 DEF Known
<1> QED BY <1>1, <1>3, <1>4, <1>5

(* What one update of a reload does: one half of one listener's            *)
(* configuration, taken off the list (ListenerConfigState::update).        *)
LEMMA UpdateEntry ==
  ASSUME Shape, NEW l \in Listener, NEW half \in Halves, ReloadUpdates(l, half)
  PROVE  /\ \A k \in Listener :
              /\ lst'[k].open = lst[k].open /\ lst'[k].scoped = lst[k].scoped
              /\ lst'[k].receiver = lst[k].receiver /\ lst'[k].looping = lst[k].looping
              /\ lst'[k].endpoint = IF k = l /\ half = "endpoint" THEN reload.to
                                    ELSE lst[k].endpoint
              /\ lst'[k].acceptor = IF k = l /\ half = "acceptor" THEN reload.to
                                    ELSE lst[k].acceptor
         /\ reload'.at = reload.at /\ reload'.to = reload.to
         /\ reload'.todo = reload.todo \ {<<l, half>>}
         /\ <<l, half>> \in reload.todo
<1>1. lst \in [Listener -> Entry] /\ reload \in Reload
  BY DEF Shape
<1>2. CASE half = "endpoint"
  BY <1>1, <1>2 DEF ReloadUpdates, Entry, Reload
<1>3. CASE half = "acceptor"
  BY <1>1, <1>3 DEF ReloadUpdates, Entry, Reload
<1> QED BY <1>2, <1>3 DEF Halves

(* What take_receiver does: it fails and leaves all entries as they are,   *)
(* or the receiver of one is the call's.                                   *)
LEMMA AcceptEntry ==
  ASSUME Shape, OpenOfRuntime, ReceiversKept, AcceptChannel
  PROVE  \/ lst' = lst /\ call'.at = "idle"
         \/ LET k == <<runtime, call.of[2]>> IN
            /\ k \in Known /\ k \in Listener /\ call' = [at |-> "taken", of |-> k]
            /\ lst[k].receiver = "entry"
            /\ \A l \in Listener : 
                 /\ l # k => lst'[l] = lst[l]
                 /\ lst'[l].open = lst[l].open /\ lst'[l].scoped = lst[l].scoped
                 /\ lst'[l].looping = lst[l].looping
                 /\ lst'[l].endpoint = lst[l].endpoint /\ lst'[l].acceptor = lst[l].acceptor
            /\ lst'[k].receiver = "call"
<1> DEFINE k == <<runtime, call.of[2]>>
<1>1. CASE ~(runtime # 0 /\ lst[k].open /\ lst[k].receiver = "entry")
  BY <1>1 DEF AcceptChannel
<1>2. CASE runtime # 0 /\ lst[k].open /\ lst[k].receiver = "entry"
  <2>1. call.of \in Listener /\ runtime \in Runs
    <3>1. call.of \in Listener
      BY DEF AcceptChannel, ReceiversKept, Known
    <3>2. runtime \in Runs
      BY <1>2, Constants DEF Shape, Runs
    <3> QED BY <3>1, <3>2
  <2>2. k \in Listener
    BY <2>1, ListenerPairs
  <2>3. k \in Known
    BY <2>2, <1>2 DEF OpenOfRuntime
  <2>4. lst' = [lst EXCEPT ![k].receiver = "call"] /\ call' = [at |-> "taken", of |-> k]
    BY <1>2 DEF AcceptChannel
  <2>5. lst \in [Listener -> Entry]
    BY DEF Shape
  <2>6. /\ \A l \in Listener : 
             /\ l # k => lst'[l] = lst[l]
             /\ lst'[l].open = lst[l].open /\ lst'[l].scoped = lst[l].scoped
             /\ lst'[l].looping = lst[l].looping
             /\ lst'[l].endpoint = lst[l].endpoint /\ lst'[l].acceptor = lst[l].acceptor
        /\ lst'[k].receiver = "call"
    <3> HIDE DEF k
    <3> QED BY <2>2, <2>4, <2>5 DEF Entry
  <2> QED BY <1>2, <2>2, <2>3, <2>4, <2>6
<1> QED BY <1>1, <1>2

(* No other step does more to a listener than close it or drop its         *)
(* receiver.                                                               *)
LEMMA EntriesMove ==
  ASSUME Shape, ReceiversKept, OpenOfRuntime, Next, ~Listen,
         \A l \in Listener, half \in Halves : ~ReloadUpdates(l, half)
  PROVE  \A l \in Listener : Kept(l)
<1> USE DEF Kept
<1> TAKE b \in Listener
<1>0. lst \in [Listener -> Entry] /\ lst[b] \in Entry
  BY DEF Shape
<1>a. lst' = lst => Kept(b)
  OBVIOUS
<1>b. lst'[b] = Removed(lst[b]) => Kept(b)
  BY <1>0, RemovedType
<1>c. lst'[b] = [lst[b] EXCEPT !.receiver = "dropped"] => Kept(b)
  BY <1>0 DEF Entry
<1>2. CASE ShutdownBegins
  BY <1>2, <1>a, <1>b DEF ShutdownBegins
<1>4. CASE ShutdownClears
  BY <1>4, <1>c DEF ShutdownClears
<1>6. CASE AcceptChannel
  BY <1>6, AcceptEntry
<1>7. CASE StoreChannel
  <2>1. call.of \in Listener /\ lst[call.of].receiver = "call"
    BY <1>7 DEF StoreChannel, ReceiversKept, Known
  <2> QED BY <1>7, <1>0, <2>1, <1>c DEF StoreChannel, Entry
<1>8. ASSUME NEW n \in Numbers, CloseListener(n) PROVE Kept(b)
  BY <1>8, <1>0, <1>b DEF CloseListener
<1>10. ASSUME NEW l \in Listener, AcceptLoopEnds(l) PROVE Kept(b)
  BY <1>10, <1>0 DEF AcceptLoopEnds, Entry
<1>11. ASSUME NEW a \in Attempts, TaskStep(a) PROVE Kept(b)
  BY <1>11, <1>a DEF TaskStep, ReadEndpoint, ReadAcceptor, NegotiationFails, Register,
                     TaskStops, Announce
<1>12. ASSUME NEW a \in Attempts, NEW l \in Listener, Accept(a, l) PROVE Kept(b)
  BY <1>12, <1>a DEF Accept
<1>13. ASSUME NEW n \in Numbers, PollConnection(n) PROVE Kept(b)
  BY <1>13, <1>a DEF PollConnection
<1>14. ASSUME NEW id \in Ids, ConnectionEnds(id) PROVE Kept(b)
  BY <1>14, <1>a DEF ConnectionEnds
<1>15. ASSUME NEW scoped \in BOOLEAN, NEW valid, ReloadPrepares(scoped, valid) PROVE Kept(b)
  BY <1>15, <1>a DEF ReloadPrepares
<1>16. CASE StartRuntime \/ ShutdownStops \/ IdleReleases \/ ReloadReturns
  BY <1>16, <1>a DEF StartRuntime, ShutdownStops, IdleReleases, ReloadReturns
<1> HIDE DEF Kept
<1> QED
  BY <1>2, <1>4, <1>6, <1>7, <1>8, <1>10, <1>11, <1>12, <1>13, <1>14, <1>15, <1>16
     DEF Next, Halves

(* Every step keeps the open listeners of the runtime there is.            *)
LEMMA OpenStep ==
  ASSUME Shape, ReceiversKept, OpenOfRuntime, Next
  PROVE  OpenOfRuntime'
<1>0. Known \subseteq Known'
  BY KnownGrows
<1>1. CASE Listen
  <2> DEFINE n == <<runtime, made[runtime] + 1>>
  <2>1. n \in Known' /\ n[1] = runtime /\ \A l \in Listener : l # n => lst'[l] = lst[l]
    BY <1>1, ListenEntry
  <2>2. runtime' = runtime /\ halting' = halting /\ halting # "stopping"
    BY <1>1 DEF Listen, Started
  <2> HIDE DEF n
  <2> QED BY <1>0, <2>1, <2>2 DEF OpenOfRuntime
<1>2. ASSUME NEW l \in Listener, NEW half \in Halves, ReloadUpdates(l, half)
      PROVE  OpenOfRuntime'
  <2>1. \A k \in Listener : lst'[k].open = lst[k].open /\ lst'[k].looping = lst[k].looping
    BY <1>2, UpdateEntry
  <2>2. runtime' = runtime /\ halting' = halting
    BY <1>2 DEF ReloadUpdates
  <2> QED BY <1>0, <2>1, <2>2 DEF OpenOfRuntime
<1>3. CASE ~Listen /\ \A l \in Listener, half \in Halves : ~ReloadUpdates(l, half)
  <2>1. \A l \in Listener : /\ lst'[l].open => lst[l].open
                            /\ lst'[l].looping => lst[l].looping
    BY <1>3, EntriesMove DEF Kept
  <2>a. \A l \in Listener : lst'[l].looping => l \in Known'
    <3> TAKE l \in Listener
    <3>1. lst[l].looping => l \in Known
      BY DEF OpenOfRuntime
    <3>2. lst'[l].looping => lst[l].looping
      BY <2>1
    <3> QED BY <3>1, <3>2, <1>0
  <2>b. \A l \in Listener : lst[l].open => l \in Known /\ l[1] = runtime /\ halting # "stopping"
    BY DEF OpenOfRuntime
  <2>2. CASE ShutdownBegins
    <3>1. \A l \in Listener : ~lst'[l].open
      <4> TAKE l \in Listener
      <4>1. CASE l[1] # runtime \/ ~lst[l].open
        BY <2>2, <4>1 DEF ShutdownBegins, OpenOfRuntime
      <4>2. CASE ~(l[1] # runtime \/ ~lst[l].open)
        <5>1. lst'[l] = Removed(lst[l]) /\ lst[l] \in Entry
          BY <2>2, <4>2 DEF ShutdownBegins, Shape
        <5> QED BY <5>1, RemovedType
      <4> QED BY <4>1, <4>2
    <3> QED BY <3>1, <2>1, <2>a, <2>b, <1>0 DEF OpenOfRuntime
  <2>3. CASE StartRuntime
    <3>1. \A l \in Listener : ~lst[l].open
      BY <2>3, ListenerPairs DEF StartRuntime, OpenOfRuntime, Runs
    <3> QED BY <3>1, <2>1, <2>a, <2>b, <1>0 DEF OpenOfRuntime
  <2>4. CASE ShutdownStops
    <3>1. \A l \in Listener : ~lst[l].open
      BY <2>4 DEF ShutdownStops, OpenOfRuntime
    <3> QED BY <3>1, <2>1, <2>a, <2>b, <1>0 DEF OpenOfRuntime
  <2>5. CASE ~ShutdownBegins /\ ~StartRuntime /\ ~ShutdownStops
    <3>1. runtime' = runtime /\ (halting' = halting \/ halting' # "stopping")
      BY <1>3, <2>5 DEF Next, TaskStep, ShutdownClears, Halves,
         AcceptChannel, StoreChannel, CloseListener, Accept, AcceptLoopEnds, ReadEndpoint,
         ReadAcceptor, NegotiationFails, Register, TaskStops, Announce, PollConnection,
         ConnectionEnds, IdleReleases, ReloadPrepares, ReloadReturns
    <3> QED BY <3>1, <2>1, <2>a, <2>b, <1>0 DEF OpenOfRuntime
  <2> QED BY <2>2, <2>3, <2>4, <2>5
<1> QED BY <1>1, <1>2, <1>3

(* Every step keeps the receivers where the call and CHANNELS say they     *)
(* are: storing one drops the one stored before (store_channel), and a     *)
(* call's survives the clearing of the channels.                           *)
LEMMA ReceiversStep ==
  ASSUME Shape, ReceiversKept, OpenOfRuntime, Next
  PROVE  ReceiversKept'
<1>0. Known \subseteq Known' /\ lst \in [Listener -> Entry]
      /\ \A l \in Listener : lst[l] \in Entry
  BY KnownGrows DEF Shape
<1>i. \A l \in Known : l \in Listener
  BY DEF Known
<1>a. ASSUME call' = call, channels' = channels,
             \A l \in Known : lst[l].receiver \in {"call", "stored"} =>
                                lst'[l].receiver = lst[l].receiver
      PROVE  ReceiversKept'
  BY <1>0, <1>a DEF ReceiversKept
<1>1. CASE Listen
  <2> DEFINE n == <<runtime, made[runtime] + 1>>
  <2>1. /\ n \in Known' /\ n \notin Known /\ \A l \in Listener : l # n => lst'[l] = lst[l]
    BY <1>1, ListenEntry
  <2>2. call' = [at |-> "listened", of |-> n] /\ channels' = channels
    BY <1>1 DEF Listen
  <2> HIDE DEF n
  <2> QED BY <1>0, <1>i, <2>1, <2>2 DEF ReceiversKept
<1>2. CASE AcceptChannel
  <2>0. channels' = channels
    BY <1>2 DEF AcceptChannel
  <2>1. CASE lst' = lst /\ call'.at = "idle"
    BY <1>0, <2>0, <2>1 DEF ReceiversKept
  <2>2. CASE ~(lst' = lst /\ call'.at = "idle")
    <3> DEFINE k == <<runtime, call.of[2]>>
    <3>1. /\ k \in Known /\ call' = [at |-> "taken", of |-> k]
          /\ lst[k].receiver = "entry" /\ lst'[k].receiver = "call"
          /\ \A l \in Listener : l # k => lst'[l] = lst[l]
      BY <1>2, <2>2, AcceptEntry
    <3> HIDE DEF k
    <3> QED BY <1>0, <1>i, <2>0, <3>1 DEF ReceiversKept
  <2> QED BY <2>1, <2>2
<1>3. CASE StoreChannel
  <2> DEFINE c == call.of
  <2>1. c \in Known /\ c \in Listener /\ lst[c].receiver = "call" /\ c[2] \in Numbers
    BY <1>3, ListenerPairs DEF StoreChannel, ReceiversKept, Known
  <2>2. channels' = [channels EXCEPT ![c[2]] = c] /\ call'.at = "idle"
    BY <1>3 DEF StoreChannel
  <2>3. /\ lst'[c].receiver = "stored"
        /\ \A k \in Listener : k # c /\ k # channels[c[2]] => lst'[k] = lst[k]
    <3>1. lst'[c] = [lst[c] EXCEPT !.receiver = "stored"]
      BY <1>3, <2>1 DEF StoreChannel
    <3>2. \A k \in Listener : k # c /\ k # channels[c[2]] => lst'[k] = lst[k]
      BY <1>3 DEF StoreChannel
    <3> QED BY <3>1, <3>2, <2>1, <1>0 DEF Entry
  <2>4. channels \in [Numbers -> Listener \cup {NoListener}]
    BY DEF Shape
  <2>5. ASSUME NEW n \in Numbers, channels'[n] # NoListener
        PROVE  /\ channels'[n] \in Known' /\ channels'[n][2] = n
               /\ lst'[channels'[n]].receiver = "stored"
    <3> HIDE DEF c
    <3>1. CASE n = c[2]
      BY <3>1, <2>1, <2>2, <2>3, <2>4, <1>0
    <3>2. CASE n # c[2]
      <4>1. /\ channels'[n] = channels[n] /\ channels[n] \in Known /\ channels[n][2] = n
            /\ lst[channels[n]].receiver = "stored"
        BY <2>2, <2>4, <2>5, <3>2 DEF ReceiversKept
      <4>2. channels[n] # c
        BY <4>1, <2>1
      <4>3. channels[n] # channels[c[2]]
        <5>1. channels[c[2]] # NoListener => channels[c[2]][2] = c[2]
          BY <2>1 DEF ReceiversKept
        <5> QED BY <4>1, <5>1, <3>2, <2>2, <2>4, <2>5
      <4> QED BY <4>1, <4>2, <4>3, <2>3, <1>0, <1>i
    <3> QED BY <3>1, <3>2
  <2> QED BY <2>2, <2>5 DEF ReceiversKept
<1>4. CASE ShutdownClears
  <2>1. \A n \in Numbers : channels'[n] = NoListener
    BY <1>4 DEF ShutdownClears
  <2>2. call' = call /\ (call.at # "idle" => call.of \in Known)
    BY <1>4 DEF ShutdownClears, ReceiversKept
  <2>3. call.at = "taken" => lst'[call.of].receiver = "call"
    <3> HAVE call.at = "taken"
    <3>1. call.of \in Listener /\ call.of[2] \in Numbers /\ lst[call.of].receiver = "call"
          /\ call.of # NoListener
      BY ListenerPairs DEF ReceiversKept, Known
    <3>2. channels[call.of[2]] # call.of
      BY <3>1 DEF ReceiversKept
    <3> QED BY <1>4, <3>1, <3>2 DEF ShutdownClears
  <2> QED BY <1>0, <2>1, <2>2, <2>3 DEF ReceiversKept
<1>5. ASSUME NEW n \in Numbers, CloseListener(n), runtime # 0 PROVE ReceiversKept'
  <2>1. \A l \in Listener : lst'[l] = lst[l] \/ lst'[l] = Removed(lst[l])
    BY <1>5, <1>0 DEF CloseListener
  <2>2. \A l \in Known : lst[l].receiver \in {"call", "stored"} =>
                             lst'[l].receiver = lst[l].receiver
    BY <2>1, <1>0, <1>i, RemovedType
  <2> QED BY <1>5, <2>2, <1>a DEF CloseListener
<1>6. CASE ShutdownBegins
  <2>1. \A l \in Listener : lst'[l] = lst[l] \/ lst'[l] = Removed(lst[l])
    BY <1>6 DEF ShutdownBegins
  <2>2. \A l \in Known : lst[l].receiver \in {"call", "stored"} =>
                             lst'[l].receiver = lst[l].receiver
    BY <2>1, <1>0, <1>i, RemovedType
  <2> QED BY <1>6, <2>2, <1>a DEF ShutdownBegins
<1>7. ASSUME NEW l \in Listener, AcceptLoopEnds(l) PROVE ReceiversKept'
  <2>1. \A k \in Listener : lst'[k].receiver = lst[k].receiver
    BY <1>7, <1>0 DEF AcceptLoopEnds, Entry
  <2> QED BY <1>7, <2>1, <1>a, <1>i DEF AcceptLoopEnds
<1>8. ASSUME NEW l \in Listener, NEW half \in Halves, ReloadUpdates(l, half)
      PROVE ReceiversKept'
  <2>1. \A k \in Listener : lst'[k].receiver = lst[k].receiver
    BY <1>8, UpdateEntry
  <2> QED BY <1>8, <2>1, <1>a, <1>i DEF ReloadUpdates
<1>9. ASSUME lst' = lst, call' = call, channels' = channels PROVE ReceiversKept'
  BY <1>9, <1>a
<1> QED
  <2>1. CASE StartRuntime \/ ShutdownStops \/ IdleReleases \/ ReloadReturns
             \/ (\E n \in Numbers : PollConnection(n)) \/ (\E id \in Ids : ConnectionEnds(id))
             \/ (\E a \in Attempts : TaskStep(a))
             \/ (\E a \in Attempts, l \in Listener : Accept(a, l))
             \/ (\E scoped \in BOOLEAN : \E valid \in SUBSET Selected(scoped) :
                   ReloadPrepares(scoped, valid))
    <3>1. lst' = lst /\ call' = call /\ channels' = channels
      BY <2>1 DEF StartRuntime, ShutdownStops, IdleReleases, ReloadReturns, PollConnection,
        ConnectionEnds, TaskStep, Accept, ReloadPrepares, ReadEndpoint,
        ReadAcceptor, NegotiationFails, Register, TaskStops, Announce
    <3> QED BY <3>1, <1>9
  <2> QED BY <2>1, <1>1, <1>2, <1>3, <1>4, <1>5, <1>6, <1>7, <1>8 DEF Next, Halves

(* What a task may be after a step, as the parts of TasksSound say.        *)
LEMMA TaskFieldsStep ==
  ASSUME Shape, ReceiversKept, OpenOfRuntime, TasksSound, Next
  PROVE  \A b \in Attempts :
           /\ neg'[b].at # "none" => neg'[b].of \in Known'
           /\ neg'[b].at \in {"none", "accepted", "endpoint", "handshake"} => neg'[b].id = 0
           /\ neg'[b].at = "registered" => neg'[b].id # 0
           /\ neg'[b].at = "aborted" =>
                /\ neg[b].at # "none"
                /\ ~lst'[neg[b].of].open \/ lst'[neg[b].of].receiver = "dropped"
<1> TAKE b \in Attempts
<1> DEFINE Good ==
      /\ neg'[b].at # "none" => neg'[b].of \in Known'
      /\ neg'[b].at \in {"none", "accepted", "endpoint", "handshake"} => neg'[b].id = 0
      /\ neg'[b].at = "registered" => neg'[b].id # 0
      /\ neg'[b].at = "aborted" =>
           /\ neg[b].at # "none"
           /\ ~lst'[neg[b].of].open \/ lst'[neg[b].of].receiver = "dropped"
<1>0. /\ neg[b] \in Task /\ neg \in [Attempts -> Task] /\ Known \subseteq Known'
      /\ Known \subseteq Listener /\ lst \in [Listener -> Entry]
  BY KnownGrows DEF Shape, Known
<1>1. /\ neg[b].at # "none" => neg[b].of \in Known
      /\ neg[b].at \in {"none", "accepted", "endpoint", "handshake"} => neg[b].id = 0
      /\ neg[b].at = "registered" => neg[b].id # 0
  BY DEF TasksSound
<1>2. neg[b].at = "aborted" => ~lst'[neg[b].of].open \/ lst'[neg[b].of].receiver = "dropped"
  <2> HAVE neg[b].at = "aborted"
  <2>1. /\ neg[b].of \in Known /\ neg[b].of \in Listener
        /\ ~lst[neg[b].of].open \/ lst[neg[b].of].receiver = "dropped"
    BY <1>0 DEF TasksSound
  <2>2. CASE Listen
    BY <2>1, <2>2, ListenEntry
  <2>3. ASSUME NEW l \in Listener, NEW half \in Halves, ReloadUpdates(l, half)
        PROVE  ~lst'[neg[b].of].open \/ lst'[neg[b].of].receiver = "dropped"
    BY <2>1, <2>3, UpdateEntry
  <2>4. CASE ~Listen /\ \A l \in Listener, half \in Halves : ~ReloadUpdates(l, half)
    BY <2>1, <2>4, EntriesMove DEF Kept
  <2> QED BY <2>2, <2>3, <2>4
<1>a. neg'[b] = neg[b] => Good
  BY <1>0, <1>1, <1>2
<1>b. ASSUME neg'[b] = Aborted(neg[b]), 
             neg[b].at # "none" =>
               ~lst'[neg[b].of].open \/ lst'[neg[b].of].receiver = "dropped"
      PROVE Good
  BY <1>b, <1>0, <1>1, AbortedType
<1>c. neg[b].at # "none" /\ neg'[b] = Ended(neg[b]) => Good
  BY <1>0, <1>1, EndedType
<1>3. ASSUME ShutdownBegins PROVE Good
  <2>1. CASE neg[b].of[1] # runtime
    BY <1>3, <2>1, <1>a DEF ShutdownBegins
  <2>2. CASE neg[b].of[1] = runtime
    <3>1. neg[b].at # "none" => ~lst'[neg[b].of].open
      <4> HAVE neg[b].at # "none"
      <4>1. neg[b].of \in Listener /\ lst[neg[b].of] \in Entry
        BY <1>0, <1>1
      <4>2. CASE lst[neg[b].of].open
        <5>1. lst'[neg[b].of] = Removed(lst[neg[b].of])
          BY <1>3, <2>2, <4>1, <4>2 DEF ShutdownBegins
        <5> QED BY <5>1, <4>1, RemovedType
      <4>3. CASE ~lst[neg[b].of].open
        BY <1>3, <4>1, <4>3 DEF ShutdownBegins
      <4> QED BY <4>2, <4>3
    <3> QED BY <1>3, <2>2, <3>1, <1>b DEF ShutdownBegins
  <2> QED BY <2>1, <2>2
<1>4. ASSUME ShutdownStops PROVE Good
  BY <1>4, <1>a, <1>c DEF ShutdownStops
<1>8. ASSUME NEW n \in Numbers, runtime # 0, CloseListener(n) PROVE Good
  <2> DEFINE k == <<runtime, n>>
  <2>1. neg'[b] = IF neg[b].of = k THEN Aborted(neg[b]) ELSE neg[b]
    BY <1>8 DEF CloseListener
  <2>2. neg[b].of = k /\ neg[b].at # "none" => ~lst'[neg[b].of].open
    <3>1. lst' = [lst EXCEPT ![k] = Removed(@)]
      BY <1>8 DEF CloseListener
    <3> HIDE DEF k
    <3> QED BY <3>1, <1>0, <1>1, RemovedType
  <2> HIDE DEF k
  <2> QED BY <2>1, <2>2, <1>a, <1>b
<1>9. ASSUME NEW a \in Attempts, NEW l \in Listener, Accept(a, l) PROVE Good
  <2>1. CASE a # b
    BY <1>9, <1>0, <2>1, <1>a DEF Accept
  <2>2. CASE a = b
    <3>1. neg'[b].at = "accepted" /\ neg'[b].of = l /\ neg'[b].id = 0
      BY <1>9, <2>2, <1>0 DEF Accept, NoTask
    <3>2. lst[l].looping
      BY <1>9 DEF Accept
    <3>3. l \in Known
      BY <3>2 DEF OpenOfRuntime
    <3> QED BY <3>1, <3>3, <1>0
  <2> QED BY <2>1, <2>2
<1>10. ASSUME NEW l \in Listener, AcceptLoopEnds(l) PROVE Good
  <2>1. neg'[b] = IF neg[b].of = l THEN Aborted(neg[b]) ELSE neg[b]
    BY <1>10 DEF AcceptLoopEnds
  <2>2. lst'[l].receiver = "dropped"
    BY <1>10, <1>0 DEF AcceptLoopEnds, Dropped, Entry
  <2> QED BY <2>1, <2>2, <1>a, <1>b
<1>11. ASSUME NEW a \in Attempts, TaskStep(a) PROVE Good
  <2>1. CASE ReadEndpoint(a)
    BY <2>1, <1>0, <1>1, <1>2 DEF ReadEndpoint, Task
  <2>2. CASE ReadAcceptor(a)
    BY <2>2, <1>0, <1>1, <1>2 DEF ReadAcceptor, Task
  <2>3. CASE NegotiationFails(a) \/ TaskStops(a) \/ Announce(a)
    BY <2>3, <1>0, <1>a, <1>c DEF NegotiationFails, TaskStops, Announce
  <2>4. CASE Register(a)
    <3>1. CASE a # b
      BY <2>4, <3>1, <1>a, Registers
    <3>2. CASE a = b
      <4>1. neg'[b].at \in {"done", "registered"} /\ neg'[b].of = neg[b].of
            /\ neg[b].at # "none" /\ (neg'[b].at = "registered" => neg'[b].id # 0)
        <5>1. next <= MaxId \/ next > MaxId
          BY Constants DEF Shape
        <5>2. next <= MaxId => next # 0
          BY Constants DEF Shape
        <5> QED BY <2>4, <3>2, <5>1, <5>2, Registers
      <4> QED BY <4>1, <1>0, <1>1
    <3> QED BY <3>1, <3>2
  <2> QED BY <1>11, <2>1, <2>2, <2>3, <2>4 DEF TaskStep
<1> QED
  <2>1. ASSUME
             \/ StartRuntime \/ ShutdownClears \/ Listen \/ AcceptChannel \/ StoreChannel
             \/ IdleReleases \/ ReloadReturns
             \/ (\E n \in Numbers : PollConnection(n)) \/ (\E id \in Ids : ConnectionEnds(id))
             \/ (\E scoped \in BOOLEAN : \E valid \in SUBSET Selected(scoped) :
                   ReloadPrepares(scoped, valid))
             \/ (\E l \in Listener, half \in Halves : ReloadUpdates(l, half))
        PROVE Good
    <3>1. neg' = neg
      BY <2>1 DEF StartRuntime, ShutdownClears, Listen, AcceptChannel, StoreChannel,
        IdleReleases, ReloadReturns, PollConnection, ConnectionEnds, ReloadPrepares,
        ReloadUpdates
    <3> QED BY <3>1, <1>a
  <2>2. Good
    <3> HIDE DEF Good
    <3> QED BY <2>1, <1>3, <1>4, <1>8, <1>9, <1>10, <1>11 DEF Next, Halves
  <2> QED BY <2>2

(* A step gives the next id to one task that had none, or no id changes.   *)
LEMMA IdsMove ==
  ASSUME Shape, TasksSound, Next
  PROVE  \/ next' = next /\ \A b \in Attempts : neg'[b].id = neg[b].id
         \/ \E a \in Attempts :
              /\ next' = next + 1 /\ neg[a].id = 0 /\ neg'[a].id = next
              /\ \A b \in Attempts : b # a => neg'[b].id = neg[b].id
<1>0. /\ neg \in [Attempts -> Task] /\ \A b \in Attempts : neg[b] \in Task
      /\ next \in Nat /\ \A b \in Attempts : neg[b].at = "none" => neg[b].id = 0
  BY Constants DEF Shape, TasksSound
<1> DEFINE Same == next' = next /\ \A b \in Attempts : neg'[b].id = neg[b].id
<1>1. CASE \E a \in Attempts : Register(a)
  <2>1. PICK a \in Attempts : Register(a)
    BY <1>1
  <2>2. CASE next > MaxId
    BY <2>1, <2>2, Registers
  <2>3. CASE next <= MaxId
    BY <2>1, <2>3, Registers
  <2> QED BY <2>2, <2>3, <1>0, Constants
<1>2. ASSUME ShutdownBegins \/ (\E l \in Listener : AcceptLoopEnds(l))
                            \/ (\E n \in Numbers : CloseListener(n)) PROVE Same
  <2>1. \A b \in Attempts : neg'[b] \in {neg[b], Aborted(neg[b])}
    BY <1>2 DEF ShutdownBegins, AcceptLoopEnds, CloseListener
  <2>2. next' = next
    BY <1>2 DEF ShutdownBegins, AcceptLoopEnds, CloseListener
  <2> QED BY <2>1, <2>2, <1>0, AbortedType
<1>3. ASSUME ShutdownStops \/ (\E a \in Attempts : NegotiationFails(a) \/ TaskStops(a)
                                                   \/ Announce(a)) PROVE Same
  <2>1. \A b \in Attempts : neg'[b] \in {neg[b], Ended(neg[b])}
    BY <1>3, <1>0 DEF ShutdownStops, NegotiationFails, TaskStops, Announce
  <2>2. next' = next
    BY <1>3 DEF ShutdownStops, NegotiationFails, TaskStops, Announce
  <2> QED BY <2>1, <2>2, <1>0, EndedType
<1>4. ASSUME NEW a \in Attempts, NEW l \in Listener, Accept(a, l) PROVE Same
  <2>1. neg[a].id = 0
    BY <1>4, <1>0 DEF Accept, Waiting
  <2> QED BY <1>4, <1>0, <2>1 DEF Accept, NoTask
<1>5. ASSUME NEW a \in Attempts, ReadEndpoint(a) \/ ReadAcceptor(a) PROVE Same
  BY <1>5, <1>0 DEF ReadEndpoint, ReadAcceptor, Task
<1>6. ASSUME
             \/ StartRuntime \/ ShutdownClears \/ Listen \/ AcceptChannel \/ StoreChannel
             \/ IdleReleases \/ ReloadReturns
             \/ (\E n \in Numbers : PollConnection(n)) \/ (\E id \in Ids : ConnectionEnds(id))
             \/ (\E scoped \in BOOLEAN : \E valid \in SUBSET Selected(scoped) :
                   ReloadPrepares(scoped, valid))
             \/ (\E l \in Listener, half \in Halves : ReloadUpdates(l, half))
      PROVE Same
  <2>1. neg' = neg /\ next' = next
    BY <1>6 DEF StartRuntime, ShutdownClears, Listen, AcceptChannel, StoreChannel,
      IdleReleases, ReloadReturns, PollConnection, ConnectionEnds, ReloadPrepares,
      ReloadUpdates
  <2> QED BY <2>1
<1>7. CASE ~\E a \in Attempts : Register(a)
  <2>1. Same
    <3> HIDE DEF Same
    <3> QED BY <1>7, <1>2, <1>3, <1>4, <1>5, <1>6 DEF Next, TaskStep, Halves
  <2> QED BY <2>1
<1> QED BY <1>1, <1>7

(* Every step keeps the tasks sound.                                       *)
LEMMA TasksStep ==
  ASSUME Shape, ReceiversKept, OpenOfRuntime, TasksSound, Next
  PROVE  TasksSound'
<1>1. /\ next \in Nat /\ next > 0 /\ next' \in Nat
      /\ \A a \in Attempts : neg[a].id \in Nat /\ neg[a].id < next
      /\ \A a, b \in Attempts : neg[a].id = neg[b].id /\ neg[a].id # 0 => a = b
  <2>1. \A a \in Attempts : neg[a].id \in 0..MaxId
    BY DEF Shape, Task
  <2>2. next \in Nat /\ next > 0
    BY Constants DEF Shape
  <2>3. next' \in Nat
    BY <2>2, IdsMove
  <2> QED BY <2>1, <2>2, <2>3, Constants DEF TasksSound
<1>2. \A a \in Attempts :
        /\ neg'[a].id < next'
        /\ \A b \in Attempts : neg'[a].id = neg'[b].id /\ neg'[a].id # 0 => a = b
  <2>1. CASE next' = next /\ \A b \in Attempts : neg'[b].id = neg[b].id
    BY <1>1, <2>1
  <2>2. CASE \E a \in Attempts :
               /\ next' = next + 1 /\ neg[a].id = 0 /\ neg'[a].id = next
               /\ \A b \in Attempts : b # a => neg'[b].id = neg[b].id
    <3>1. PICK a \in Attempts :
               /\ next' = next + 1 /\ neg[a].id = 0 /\ neg'[a].id = next
               /\ \A b \in Attempts : b # a => neg'[b].id = neg[b].id
      BY <2>2
    <3>2. \A b \in Attempts : b # a => neg'[b].id < next /\ neg'[b].id \in Nat
      BY <3>1, <1>1
    <3>3. \A b \in Attempts : neg'[b].id < next'
      BY <3>1, <3>2, <1>1
    <3>4. \A b, c \in Attempts : neg'[b].id = neg'[c].id /\ neg'[b].id # 0 => b = c
      BY <3>1, <3>2, <1>1
    <3> QED BY <3>3, <3>4
  <2> QED BY <2>1, <2>2, IdsMove
<1>3. \A b \in Attempts :
           /\ neg'[b].at # "none" => neg'[b].of \in Known'
           /\ neg'[b].at \in {"none", "accepted", "endpoint", "handshake"} => neg'[b].id = 0
           /\ neg'[b].at = "registered" => neg'[b].id # 0
           /\ neg'[b].at = "aborted" =>
                /\ neg[b].at # "none"
                /\ ~lst'[neg[b].of].open \/ lst'[neg[b].of].receiver = "dropped"
  BY TaskFieldsStep
<1>4. \A b \in Attempts : neg[b].at # "none" => neg'[b].of = neg[b].of
  BY TasksMove
<1> QED BY <1>2, <1>3, <1>4 DEF TasksSound

(* Every step keeps the connections those of tasks.                        *)
LEMMA ConnsStep ==
  ASSUME Shape, TasksSound, ConnsSound, Next
  PROVE  ConnsSound'
<1>1. \A a \in Attempts : neg[a].id # 0 => /\ neg'[a].id = neg[a].id
                                           /\ neg'[a].of = neg[a].of
  BY TasksMove DEF TasksSound
<1>2. \A c \in conns : c[2] # 0
  BY DEF Shape, Ids
<1>3. ASSUME conns' \subseteq conns PROVE ConnsSound'
  BY <1>1, <1>2, <1>3 DEF ConnsSound
<1>4. ASSUME NEW a \in Attempts, Register(a) PROVE ConnsSound'
  <2>1. CASE next > MaxId
    BY <1>4, <2>1, <1>3, Registers
  <2>2. CASE next <= MaxId
    <3>1. /\ conns' = conns \cup {<<neg[a].of[1], next>>}
          /\ neg'[a].id = next /\ neg'[a].of = neg[a].of
      BY <1>4, <2>2, Registers
    <3> QED BY <3>1, <1>1, <1>2 DEF ConnsSound
  <2> QED BY <2>1, <2>2, Constants DEF Shape
<1>5. CASE ~\E a \in Attempts : Register(a)
  <2>1. conns' \subseteq conns
    BY <1>5 DEF Next, TaskStep, StartRuntime, ShutdownBegins, ShutdownStops, ShutdownClears,
         Listen, AcceptChannel, StoreChannel, CloseListener, Accept, AcceptLoopEnds,
         ReadEndpoint, ReadAcceptor, NegotiationFails, TaskStops, Announce, PollConnection,
         ConnectionEnds, IdleReleases, ReloadPrepares, ReloadUpdates, ReloadReturns
  <2> QED BY <2>1, <1>3
<1> QED BY <1>4, <1>5

(* A number polled whose connection is in this runtime's registry is in a  *)
(* channel of this runtime: a channel left by an earlier one holds ids     *)
(* that the registry does not know (ct_poll_connection).                   *)
LEMMA PolledIsOf ==
  ASSUME Shape, ReceiversKept, TasksSound, ConnsSound, InboxSound, NEW n \in Numbers,
         PollConnection(n), <<runtime, Head(inbox[channels[n]])>> \in conns
  PROVE  channels[n] = <<runtime, n>>
<1> DEFINE l == channels[n]
<1>1. l \in Listener /\ inbox[l] \in Seq(Ids) /\ inbox[l] # <<>> /\ l[2] = n
  BY DEF PollConnection, Shape, ReceiversKept
<1>2. 1 \in DOMAIN inbox[l] /\ Head(inbox[l]) = inbox[l][1] /\ inbox[l][1] \in Ids
  BY <1>1
<1>3. PICK a \in Attempts : neg[a].id = Head(inbox[l]) /\ neg[a].of = l
  BY <1>1, <1>2 DEF InboxSound
<1>4. PICK b \in Attempts : neg[b].id = Head(inbox[l]) /\ neg[b].of[1] = runtime
  BY DEF ConnsSound
<1>5. a = b
  BY <1>2, <1>3, <1>4 DEF TasksSound, Ids
<1> QED BY <1>1, <1>3, <1>4, <1>5, ListenerPairs

(* Every step keeps the channels and what was given: a task announces an   *)
(* id that is nowhere else, and polling moves it.                          *)
LEMMA InboxStep ==
  ASSUME Shape, ReceiversKept, TasksSound, ConnsSound, InboxSound, GivenSound, Next
  PROVE  InboxSound' /\ GivenSound'
<1>0. /\ inbox \in [Listener -> Seq(Ids)] /\ given \in Seq([id : Ids, listener : Listener])
      /\ neg \in [Attempts -> Task]
  BY DEF Shape
<1>1. \A a \in Attempts : neg[a].at = "done" => neg'[a] = neg[a]
  BY TasksMove
<1>2. ASSUME inbox' = inbox, given' = given PROVE InboxSound' /\ GivenSound'
  BY <1>1, <1>2 DEF InboxSound, GivenSound
<1>3. ASSUME NEW a \in Attempts, Announce(a) PROVE InboxSound' /\ GivenSound'
  <2> DEFINE l == neg[a].of
             id == neg[a].id
  <2>1. CASE Dropped(l)
    BY <1>2, <1>3, <2>1 DEF Announce
  <2>2. CASE ~Dropped(l)
    <3>1. l \in Listener /\ id \in Ids /\ neg[a].at = "registered" /\ id # 0
      BY <1>3, Constants DEF Announce, TasksSound, Known, Shape, Task, Ids
    <3>2. given' = given /\ inbox' = [inbox EXCEPT ![l] = Append(@, id)]
      BY <1>3, <2>2 DEF Announce
    <3>3. neg'[a].at = "done" /\ neg'[a].id = id /\ neg'[a].of = l
      BY <1>3, <1>0, EndedType DEF Announce
    <3>4. \A b \in Attempts : neg[b].at = "done" => neg[b].id # id
      BY <3>1 DEF TasksSound
    <3> HIDE DEF l, id
    <3>5. GivenSound'
      BY <3>2, <1>1 DEF GivenSound
    <3>6. \A j \in DOMAIN given : given[j].id # id
      BY <3>4 DEF GivenSound
    <3>7. \A i \in DOMAIN inbox[l] : inbox[l][i] # id
      BY <3>1, <3>4 DEF InboxSound
    <3>8. ASSUME NEW k \in Listener, k # l, NEW i \in DOMAIN inbox'[k]
          PROVE  /\ \E b \in Attempts :
                      neg'[b].at = "done" /\ neg'[b].id = inbox'[k][i] /\ neg'[b].of = k
                 /\ \A j \in DOMAIN inbox'[k] : inbox'[k][i] = inbox'[k][j] => i = j
                 /\ \A j \in DOMAIN given' : given'[j].id # inbox'[k][i]
      <4>1. inbox'[k] = inbox[k]
        BY <3>2, <3>8, <1>0
      <4> QED BY <4>1, <3>2, <3>8, <1>1 DEF InboxSound
    <3>9. ASSUME NEW i \in DOMAIN inbox'[l]
          PROVE  /\ \E b \in Attempts :
                      neg'[b].at = "done" /\ neg'[b].id = inbox'[l][i] /\ neg'[b].of = l
                 /\ \A j \in DOMAIN inbox'[l] : inbox'[l][i] = inbox'[l][j] => i = j
                 /\ \A j \in DOMAIN given' : given'[j].id # inbox'[l][i]
      <4> DEFINE q == inbox[l]
                 n == Len(q)
      <4>1. inbox'[l] = Append(q, id) /\ q \in Seq(Ids)
        BY <3>1, <3>2, <1>0
      <4>2. /\ DOMAIN inbox'[l] = 1..(n + 1) /\ DOMAIN q = 1..n /\ n \in Nat
            /\ \A j \in 1..n : inbox'[l][j] = q[j]
            /\ inbox'[l][n + 1] = id
        BY <4>1, <3>1
      <4>3. CASE i = n + 1
        BY <4>2, <4>3, <3>2, <3>3, <3>6, <3>7
      <4>4. CASE i # n + 1
        <5>1. i \in 1..n /\ inbox'[l][i] = q[i]
          BY <4>2, <4>4, <3>9
        <5>2. /\ \E b \in Attempts :
                   neg[b].at = "done" /\ neg[b].id = q[i] /\ neg[b].of = l
              /\ \A j \in 1..n : q[i] = q[j] => i = j
              /\ \A j \in DOMAIN given : given[j].id # q[i]
          BY <5>1, <4>2, <3>1 DEF InboxSound
        <5>3. q[i] # id
          BY <5>1, <4>2, <3>7
        <5> HIDE DEF q, n
        <5> QED BY <5>1, <5>2, <5>3, <4>2, <3>2, <1>1
      <4> QED BY <4>3, <4>4
    <3>10. InboxSound'
      BY <3>8, <3>9 DEF InboxSound
    <3> QED BY <3>5, <3>10
  <2> QED BY <2>1, <2>2
<1>4. ASSUME NEW n \in Numbers, PollConnection(n) PROVE InboxSound' /\ GivenSound'
  <2> DEFINE l == channels[n]
             q == inbox[l]
  <2>1. l \in Listener /\ q \in Seq(Ids) /\ q # <<>>
    BY <1>4, <1>0 DEF PollConnection, Shape
  <2>2. inbox' = [inbox EXCEPT ![l] = Tail(q)] /\ neg' = neg
    BY <1>4, <2>1, <1>0 DEF PollConnection
  <2>3. /\ Len(q) \in Nat /\ DOMAIN q = 1..Len(q) /\ 1 \in DOMAIN q /\ Head(q) = q[1]
        /\ DOMAIN Tail(q) = 1..(Len(q) - 1)
        /\ \A i \in 1..(Len(q) - 1) : Tail(q)[i] = q[i + 1] /\ i + 1 \in DOMAIN q
    BY <2>1
  <2>4. inbox'[l] = Tail(q) /\ \A k \in Listener : k # l => inbox'[k] = inbox[k]
    <3> HIDE DEF l, q
    <3> QED BY <2>1, <2>2, <1>0
  <2>5. /\ \E a \in Attempts : neg[a].at = "done" /\ neg[a].id = Head(q) /\ neg[a].of = l
        /\ \A j \in DOMAIN q : q[j] = Head(q) => j = 1
        /\ \A j \in DOMAIN given : given[j].id # Head(q)
        /\ Head(q) \in Ids
    BY <2>1, <2>3 DEF InboxSound
  <2>6. \/ given' = given
        \/ given' = Append(given, [id |-> Head(q), listener |-> l])
    <3>1. CASE <<runtime, Head(q)>> \in conns
      BY <1>4, <3>1, PolledIsOf DEF PollConnection
    <3>2. CASE <<runtime, Head(q)>> \notin conns
      BY <1>4, <3>2 DEF PollConnection
    <3> QED BY <3>1, <3>2
  <2> DEFINE g == [id |-> Head(q), listener |-> l]
             m == Len(given)
  <2>7. /\ DOMAIN given = 1..m /\ m \in Nat
        /\ given' # given =>
             /\ DOMAIN given' = 1..(m + 1) /\ \A j \in 1..m : given'[j] = given[j]
             /\ given'[m + 1] = g
    <3>1. g \in [id : Ids, listener : Listener]
      BY <2>1, <2>5
    <3>2. given' = given \/ given' = Append(given, g)
      BY <2>6
    <3> DEFINE R == [id : Ids, listener : Listener]
    <3>3. given \in Seq(R) /\ g \in R
      BY <1>0, <3>1
    <3> HIDE DEF g, q, l, R
    <3> QED BY <3>2, <3>3
  <2>8. g.id = Head(q) /\ g.listener = l
    OBVIOUS
  <2> HIDE DEF g, m, q, l
  <2>9. GivenSound'
    <3>1. CASE given' = given
      BY <3>1, <1>1 DEF GivenSound
    <3>2. CASE given' # given
      <4>1. \A j \in 1..m : given[j].id # g.id
        BY <2>5, <2>7, <2>8
      <4>2. \E a \in Attempts : neg'[a].at = "done" /\ neg'[a].id = g.id
                                /\ neg'[a].of = g.listener
        BY <2>2, <2>5, <2>8
      <4>3. \A i \in 1..m : 
              /\ \E a \in Attempts : neg'[a].at = "done" /\ neg'[a].id = given[i].id
                                     /\ neg'[a].of = given[i].listener
              /\ \A j \in 1..m : given[i].id = given[j].id => i = j
        BY <2>2, <2>7 DEF GivenSound
      <4>4. \A i \in 1..(m + 1) : i \in 1..m \/ i = m + 1
        BY <2>7
      <4> QED BY <3>2, <2>7, <4>1, <4>2, <4>3, <4>4 DEF GivenSound
    <3> QED BY <3>1, <3>2
  <2>10. ASSUME NEW k \in Listener, NEW i \in DOMAIN inbox'[k]
         PROVE  /\ \E b \in Attempts :
                     neg'[b].at = "done" /\ neg'[b].id = inbox'[k][i] /\ neg'[b].of = k
                /\ \A j \in DOMAIN inbox'[k] : inbox'[k][i] = inbox'[k][j] => i = j
                /\ inbox'[k][i] # Head(q)
                /\ \A j \in DOMAIN given : given[j].id # inbox'[k][i]
    <3>1. CASE k = l
      <4>1. /\ i \in 1..(Len(q) - 1) /\ i + 1 \in DOMAIN q /\ inbox'[k][i] = q[i + 1]
            /\ \A j \in DOMAIN inbox'[k] : j + 1 \in DOMAIN q /\ inbox'[k][j] = q[j + 1]
                                           /\ j \in Int
        BY <3>1, <2>3, <2>4, <2>10
      <4>2. /\ \E b \in Attempts :
                 neg[b].at = "done" /\ neg[b].id = q[i + 1] /\ neg[b].of = k
            /\ \A j \in DOMAIN q : q[i + 1] = q[j] => i + 1 = j
            /\ \A j \in DOMAIN given : given[j].id # q[i + 1]
        BY <4>1, <3>1, <2>10 DEF InboxSound, q
      <4>3. q[i + 1] # Head(q)
        <5>1. i + 1 # 1
          BY <4>1, <2>3
        <5> QED BY <4>1, <2>5, <5>1
      <4>4. \A j \in DOMAIN inbox'[k] : inbox'[k][i] = inbox'[k][j] => i = j
        <5>1. i \in Int
          BY <4>1, <2>3
        <5> QED BY <4>1, <4>2, <5>1
      <4> QED BY <4>1, <4>2, <4>3, <4>4, <2>2
    <3>2. CASE k # l
      <4>1. inbox'[k] = inbox[k] /\ i \in DOMAIN inbox[k] /\ inbox[k][i] \in Ids
        BY <3>2, <2>4, <2>10, <1>0
      <4>2. inbox[k][i] # Head(q)
        <5>1. PICK b \in Attempts : neg[b].id = inbox[k][i] /\ neg[b].of = k
          BY <4>1, <2>10 DEF InboxSound
        <5>2. PICK c \in Attempts : neg[c].id = Head(q) /\ neg[c].of = l
          BY <2>5
        <5> QED BY <5>1, <5>2, <3>2, <4>1 DEF TasksSound, Ids
      <4> QED BY <4>1, <4>2, <2>2, <2>10 DEF InboxSound
    <3> QED BY <3>1, <3>2
  <2>11. InboxSound'
    <3>1. \A j \in DOMAIN given' : \/ j \in DOMAIN given /\ given'[j] = given[j]
                                \/ given'[j].id = Head(q)
      BY <2>7, <2>8
    <3>2. ASSUME NEW k \in Listener, NEW i \in DOMAIN inbox'[k]
          PROVE  \A j \in DOMAIN given' : given'[j].id # inbox'[k][i]
      BY <3>1, <3>2, <2>10
    <3> QED BY <3>2, <2>10 DEF InboxSound
  <2> QED BY <2>9, <2>11
<1>5. CASE /\ ~\E a \in Attempts : Announce(a)
           /\ ~\E n \in Numbers : PollConnection(n)
  <2>1. inbox' = inbox /\ given' = given
    BY <1>5 DEF Next, TaskStep, StartRuntime, ShutdownBegins, ShutdownStops, ShutdownClears,
         Listen, AcceptChannel, StoreChannel, CloseListener, Accept, AcceptLoopEnds,
         ReadEndpoint, ReadAcceptor, NegotiationFails, Register, TaskStops,
         ConnectionEnds, IdleReleases, ReloadPrepares, ReloadUpdates, ReloadReturns
  <2> QED BY <2>1, <1>2
<1> QED BY <1>3, <1>4, <1>5

(* A listener's negotiations can be counted.                               *)
LEMMA BusyFinite ==
  \A tasks, l : IsFiniteSet(Busy(tasks, l)) /\ Cardinality(Busy(tasks, l)) \in Nat
<1> TAKE tasks, l
<1>1. IsFiniteSet(Attempts)
  BY Constants, FS_Interval DEF Attempts
<1>2. Busy(tasks, l) \in SUBSET Attempts
  BY DEF Busy
<1> QED BY <1>1, <1>2, FS_Subset, FS_CardinalityType

(* Stages of a task at work.                                               *)
Working == {"accepted", "endpoint", "handshake", "registered"}

(* Only the accept loop adds a negotiation to a listener.                  *)
LEMMA WorkMoves ==
  ASSUME Shape, TasksSound, Next, \A a \in Attempts, l \in Listener : ~Accept(a, l)
  PROVE  \A b \in Attempts : neg'[b].at \in Working =>
                                neg[b].at \in Working /\ neg'[b].of = neg[b].of
<1> TAKE b \in Attempts
<1>0. neg[b] \in Task /\ neg \in [Attempts -> Task]
  BY DEF Shape
<1> DEFINE Works == neg'[b].at \in Working => neg[b].at \in Working
<1>a. neg'[b] \in {neg[b], Aborted(neg[b]), Ended(neg[b])} => Works
  <2>1. Aborted(neg[b]).at \notin Working
    BY <1>0, AbortedType DEF Working
  <2>2. Ended(neg[b]).at \notin Working
    BY <1>0, EndedType DEF Working
  <2> QED BY <2>1, <2>2
<1>1. ASSUME ShutdownBegins \/ ShutdownStops \/ (\E n \in Numbers : CloseListener(n))
             \/ (\E l \in Listener : AcceptLoopEnds(l))
             \/ (\E a \in Attempts : NegotiationFails(a) \/ TaskStops(a) \/ Announce(a))
      PROVE  Works
  <2>1. neg'[b] \in {neg[b], Aborted(neg[b]), Ended(neg[b])}
    BY <1>1, <1>0 DEF ShutdownBegins, ShutdownStops, CloseListener, AcceptLoopEnds,
       NegotiationFails, TaskStops, Announce
  <2> QED BY <2>1, <1>a
<1>2. ASSUME NEW a \in Attempts, ReadEndpoint(a) PROVE Works
  BY <1>2, <1>0 DEF ReadEndpoint, Task, Working
<1>3. ASSUME NEW a \in Attempts, ReadAcceptor(a) PROVE Works
  BY <1>3, <1>0 DEF ReadAcceptor, Task, Working
<1>4. ASSUME NEW a \in Attempts, Register(a) PROVE Works
  <2>1. next > MaxId \/ next <= MaxId
    BY Constants DEF Shape
  <2> QED BY <1>4, <2>1, Registers DEF Working
<1>5. ASSUME
             \/ StartRuntime \/ ShutdownClears \/ Listen \/ AcceptChannel \/ StoreChannel
             \/ IdleReleases \/ ReloadReturns
             \/ (\E n \in Numbers : PollConnection(n)) \/ (\E id \in Ids : ConnectionEnds(id))
             \/ (\E scoped \in BOOLEAN : \E valid \in SUBSET Selected(scoped) :
                   ReloadPrepares(scoped, valid))
             \/ (\E l \in Listener, half \in Halves : ReloadUpdates(l, half))
      PROVE Works
  <2>1. neg' = neg
    BY <1>5 DEF StartRuntime, ShutdownClears, Listen, AcceptChannel, StoreChannel,
      IdleReleases, ReloadReturns, PollConnection, ConnectionEnds, ReloadPrepares,
      ReloadUpdates
  <2> QED BY <2>1
<1>6. Works
  <2> HIDE DEF Works
  <2> QED BY <1>1, <1>2, <1>3, <1>4, <1>5 DEF Next, TaskStep, Halves
<1>7. neg[b].at \in Working => neg'[b].of = neg[b].of
  BY TasksMove DEF Working
<1> QED BY <1>6, <1>7

(* Every step keeps a listener's negotiations within its backlog and its   *)
(* channel within its capacity.                                            *)
LEMMA LimitsStep ==
  ASSUME Shape, ReceiversKept, TasksSound, LimitsKept, Next
  PROVE  LimitsKept'
<1>0. /\ neg \in [Attempts -> Task] /\ \A a \in Attempts : neg[a] \in Task
      /\ inbox \in [Listener -> Seq(Ids)]
      /\ \A l \in Listener : Cardinality(Busy(neg, l)) <= Backlog /\ Len(inbox[l]) <= Capacity
  BY DEF Shape, LimitsKept
<1>1. ASSUME \A a \in Attempts : neg'[a].at \in Working =>
                                   neg[a].at \in Working /\ neg'[a].of = neg[a].of
      PROVE  \A l \in Listener : Cardinality(Busy(neg', l)) <= Backlog
  <2> TAKE l \in Listener
  <2>1. Busy(neg', l) \in SUBSET Busy(neg, l)
    BY <1>1 DEF Busy, Working
  <2>2. Cardinality(Busy(neg', l)) <= Cardinality(Busy(neg, l))
    BY <2>1, BusyFinite, FS_Subset
  <2> QED BY <2>2, <1>0, BusyFinite, Constants
<1>2. ASSUME NEW a \in Attempts, NEW l \in Listener, Accept(a, l)
      PROVE  \A k \in Listener : Cardinality(Busy(neg', k)) <= Backlog
  <2> TAKE k \in Listener
  <2>1. /\ neg'[a].at = "accepted" /\ neg'[a].of = l /\ neg[a].at = "none"
        /\ \A b \in Attempts \ {a} : neg'[b] = neg[b]
    BY <1>2, <1>0 DEF Accept, Waiting, NoTask
  <2>2. CASE k # l
    <3>1. Busy(neg', k) = Busy(neg, k)
      BY <2>1, <2>2 DEF Busy
    <3> QED BY <3>1, <1>0
  <2>3. CASE k = l
    <3>1. Busy(neg', k) = Busy(neg, k) \cup {a} /\ a \notin Busy(neg, k)
      BY <2>1, <2>3 DEF Busy
    <3>2. Cardinality(Busy(neg, k)) < Backlog
      BY <1>2, <2>3 DEF Accept, Negotiating, Busy
    <3>3. Cardinality(Busy(neg', k)) = Cardinality(Busy(neg, k)) + 1
      BY <3>1, BusyFinite, FS_AddElement
    <3> QED BY <3>2, <3>3, BusyFinite, Constants
  <2> QED BY <2>2, <2>3
<1>3. ASSUME \A a \in Attempts, l \in Listener : ~Accept(a, l)
      PROVE  \A l \in Listener : Cardinality(Busy(neg', l)) <= Backlog
  <2>1. \A a \in Attempts : neg'[a].at \in Working =>
                                 neg[a].at \in Working /\ neg'[a].of = neg[a].of
    BY <1>3, WorkMoves
  <2> QED BY <2>1, <1>1
<1>4. \A l \in Listener : Cardinality(Busy(neg', l)) <= Backlog
  BY <1>2, <1>3
<1>5. \A l \in Listener : Len(inbox'[l]) <= Capacity
  <2>1. CASE inbox' = inbox
    BY <2>1, <1>0
  <2>2. ASSUME NEW a \in Attempts, Announce(a), inbox' # inbox
        PROVE  \A l \in Listener : Len(inbox'[l]) <= Capacity
    <3> DEFINE l == neg[a].of
    <3>1. l \in Listener /\ neg[a].id \in Ids
      BY <2>2, <1>0, Constants DEF Announce, TasksSound, Known, Task, Ids
    <3>2. Len(inbox[l]) < Capacity /\ inbox' = [inbox EXCEPT ![l] = Append(@, neg[a].id)]
      BY <2>2 DEF Announce
    <3> HIDE DEF l
    <3>3. Len(inbox'[l]) = Len(inbox[l]) + 1
      BY <3>1, <3>2, <1>0
    <3>4. Len(inbox[l]) \in Nat
      BY <3>1, <1>0
    <3>5. Len(inbox'[l]) <= Capacity
      BY <3>2, <3>3, <3>4, Constants
    <3> QED BY <3>2, <3>5, <1>0
  <2>3. ASSUME NEW n \in Numbers, PollConnection(n)
        PROVE  \A l \in Listener : Len(inbox'[l]) <= Capacity
    <3> DEFINE l == channels[n]
    <3>1. l \in Listener /\ inbox[l] # <<>> /\ inbox' = [inbox EXCEPT ![l] = Tail(@)]
      BY <2>3 DEF PollConnection, Shape
    <3> HIDE DEF l
    <3>2. Len(inbox'[l]) = Len(inbox[l]) - 1 /\ Len(inbox[l]) \in Nat
      BY <3>1, <1>0
    <3>3. Len(inbox'[l]) <= Capacity
      BY <3>1, <3>2, <1>0, Constants
    <3> QED BY <3>1, <3>3, <1>0
  <2>4. CASE /\ ~\E a \in Attempts : Announce(a)
             /\ ~\E n \in Numbers : PollConnection(n)
    <3>1. inbox' = inbox
      BY <2>4 DEF Next, TaskStep, StartRuntime, ShutdownBegins, ShutdownStops,
         ShutdownClears, Listen, AcceptChannel, StoreChannel, CloseListener, Accept,
         AcceptLoopEnds, ReadEndpoint, ReadAcceptor, NegotiationFails, Register, TaskStops,
         ConnectionEnds, IdleReleases, ReloadPrepares, ReloadUpdates, ReloadReturns
    <3> QED BY <3>1, <2>1
  <2> QED BY <2>1, <2>2, <2>3, <2>4
<1> QED BY <1>4, <1>5 DEF LimitsKept

(* Every step keeps the flag of the idle allocator and its task together.  *)
LEMMA ReservationStep ==
  ASSUME Shape, ReservationHeld, Next
  PROVE  ReservationHeld'
<1>1. CASE ShutdownStops \/ IdleReleases
  BY <1>1 DEF ShutdownStops, IdleReleases, ReservationHeld
<1>2. ASSUME NEW id \in Ids, ConnectionEnds(id) PROVE ReservationHeld'
  <2>1. runtime # 0
    BY <1>2 DEF ConnectionEnds, Started
  <2> QED BY <1>2, <2>1 DEF ConnectionEnds, ReservationHeld
<1>3. CASE ~ShutdownStops /\ ~IdleReleases /\ ~\E id \in Ids : ConnectionEnds(id)
  <2>1. idle' = idle
    BY <1>3 DEF Next, TaskStep, StartRuntime, ShutdownBegins,
         ShutdownClears, Listen, AcceptChannel, StoreChannel, CloseListener, Accept,
         AcceptLoopEnds, ReadEndpoint, ReadAcceptor, NegotiationFails, Register, TaskStops,
         Announce, PollConnection, ReloadPrepares, ReloadUpdates, ReloadReturns
  <2> QED BY <2>1 DEF ReservationHeld
<1> QED BY <1>1, <1>2, <1>3

(* A task that ends with an id, and was not aborted, has announced it.     *)
LEMMA DoneByAnnounce ==
  ASSUME Shape, TasksSound, Next, NEW b \in Attempts, neg'[b].at = "done",
         neg'[b].id # 0, neg[b].at # "done", neg[b].at # "aborted"
  PROVE  Announce(b)
<1>0. neg[b] \in Task /\ neg \in [Attempts -> Task] /\ neg'[b] # neg[b]
  BY DEF Shape
<1>a. neg'[b] # Aborted(neg[b])
  BY <1>0, AbortedType
<1>b. neg[b].at = "handshake" => neg'[b] # Ended(neg[b])
  BY <1>0, EndedType DEF TasksSound
<1>1. ~ShutdownBegins /\ ~ShutdownStops
  BY <1>0, <1>a DEF ShutdownBegins, ShutdownStops
<1>2. ASSUME NEW n \in Numbers, CloseListener(n) PROVE FALSE
  BY <1>0, <1>a, <1>2 DEF CloseListener
<1>3. ASSUME NEW l \in Listener, AcceptLoopEnds(l) PROVE FALSE
  BY <1>0, <1>a, <1>3 DEF AcceptLoopEnds
<1>4. ASSUME NEW a \in Attempts, NEW l \in Listener, Accept(a, l) PROVE FALSE
  <2>1. a # b => neg'[b] = neg[b]
    BY <1>0, <1>4 DEF Accept
  <2>2. a = b => neg'[b].at = "accepted"
    BY <1>0, <1>4 DEF Accept, NoTask
  <2> QED BY <2>1, <2>2, <1>0
<1>5. ASSUME NEW a \in Attempts, TaskStep(a) PROVE Announce(b)
  <2>0. a = b
    BY <1>5, <1>0 DEF TaskStep, ReadEndpoint, ReadAcceptor, NegotiationFails, Register,
                      TaskStops, Announce
  <2>1. ~ReadEndpoint(b)
    BY <1>0 DEF ReadEndpoint, Task
  <2>2. ~ReadAcceptor(b)
    BY <1>0 DEF ReadAcceptor, Task
  <2>3. ~NegotiationFails(b) /\ ~TaskStops(b)
    BY <1>0, <1>b DEF NegotiationFails, TaskStops
  <2>4. ~Register(b)
    <3>1. next > MaxId \/ next <= MaxId
      BY Constants DEF Shape
    <3> QED BY <3>1, Registers
  <2> QED BY <1>5, <2>0, <2>1, <2>2, <2>3, <2>4 DEF TaskStep
<1>6. ASSUME
             \/ StartRuntime \/ ShutdownClears \/ Listen \/ AcceptChannel \/ StoreChannel
             \/ IdleReleases \/ ReloadReturns
             \/ (\E n \in Numbers : PollConnection(n)) \/ (\E id \in Ids : ConnectionEnds(id))
             \/ (\E scoped \in BOOLEAN : \E valid \in SUBSET Selected(scoped) :
                   ReloadPrepares(scoped, valid))
             \/ (\E l \in Listener, half \in Halves : ReloadUpdates(l, half))
      PROVE FALSE
  <2>1. neg' = neg
    BY <1>6 DEF StartRuntime, ShutdownClears, Listen, AcceptChannel, StoreChannel,
      IdleReleases, ReloadReturns, PollConnection, ConnectionEnds, ReloadPrepares,
      ReloadUpdates
  <2> QED BY <2>1, <1>0
<1> QED BY <1>1, <1>2, <1>3, <1>4, <1>5, <1>6 DEF Next, Halves

(* A connection not registered before has the next id.                     *)
LEMMA ConnsMove ==
  ASSUME Shape, TasksSound, Next
  PROVE  \A c \in conns' : c \in conns \/ c[2] = next
<1>1. ASSUME NEW a \in Attempts, Register(a)
      PROVE  \A c \in conns' : c \in conns \/ c[2] = next
  <2>1. next > MaxId \/ next <= MaxId
    BY Constants DEF Shape
  <2> QED BY <1>1, <2>1, Registers
<1>2. CASE ~\E a \in Attempts : Register(a)
  BY <1>2 DEF Next, TaskStep, StartRuntime, ShutdownBegins, ShutdownStops, ShutdownClears,
         Listen, AcceptChannel, StoreChannel, CloseListener, Accept, AcceptLoopEnds,
         ReadEndpoint, ReadAcceptor, NegotiationFails, TaskStops, Announce, PollConnection,
         ConnectionEnds, IdleReleases, ReloadPrepares, ReloadUpdates, ReloadReturns
<1> QED BY <1>1, <1>2

(* An id that waits in the channel of an open listener, or was given,      *)
(* still does or was after a step: polling gives it to Dart.               *)
LEMMA HeldMoves ==
  ASSUME IndInv, Next, NEW l \in Listener, NEW id \in Ids, lst[l].open,
         <<l[1], id>> \in conns,
         (\E i \in DOMAIN inbox[l] : inbox[l][i] = id) \/ (\E i \in DOMAIN given : given[i].id = id)
  PROVE  \/ \E i \in DOMAIN inbox'[l] : inbox'[l][i] = id
         \/ \E i \in DOMAIN given' : given'[i].id = id
<1>0. /\ inbox \in [Listener -> Seq(Ids)] /\ given \in Seq([id : Ids, listener : Listener])
      /\ neg \in [Attempts -> Task] /\ Shape /\ TasksSound /\ l[1] = runtime
  BY DEF IndInv, Shape, OpenOfRuntime
<1>1. CASE inbox' = inbox /\ given' = given
  BY <1>1
<1>2. ASSUME NEW a \in Attempts, Announce(a) 
      PROVE  \/ \E i \in DOMAIN inbox'[l] : inbox'[l][i] = id
             \/ \E i \in DOMAIN given' : given'[i].id = id
  <2> DEFINE k == neg[a].of
             x == neg[a].id
  <2>1. k \in Listener /\ x \in Ids
    BY <1>0, <1>2, Constants DEF Announce, TasksSound, Known, Task, Ids
  <2>2. given' = given /\ (inbox' = inbox \/ inbox' = [inbox EXCEPT ![k] = Append(@, x)])
    BY <1>2 DEF Announce
  <2> HIDE DEF k, x
  <2>3. \A i \in DOMAIN inbox[l] : i \in DOMAIN inbox'[l] /\ inbox'[l][i] = inbox[l][i]
    <3>1. CASE inbox'[l] = inbox[l]
      BY <3>1
    <3>2. CASE inbox'[l] = Append(inbox[l], x)
      BY <3>2, <1>0, <2>1
    <3> QED BY <3>1, <3>2, <2>2, <1>0
  <2> QED BY <2>2, <2>3
<1>3. ASSUME NEW n \in Numbers, PollConnection(n)
      PROVE  \/ \E i \in DOMAIN inbox'[l] : inbox'[l][i] = id
             \/ \E i \in DOMAIN given' : given'[i].id = id
  <2> DEFINE k == channels[n]
             q == inbox[k]
             g == [id |-> Head(q), listener |-> <<runtime, n>>]
  <2>1. k \in Listener /\ q \in Seq(Ids) /\ q # <<>>
    BY <1>0, <1>3 DEF PollConnection, Shape
  <2>2. inbox' = [inbox EXCEPT ![k] = Tail(q)]
    BY <1>3, <2>1, <1>0 DEF PollConnection
  <2>3. /\ Len(q) \in Nat /\ DOMAIN q = 1..Len(q) /\ Head(q) = q[1]
        /\ DOMAIN Tail(q) = 1..(Len(q) - 1)
        /\ \A i \in 1..(Len(q) - 1) : Tail(q)[i] = q[i + 1]
    BY <2>1
  <2>4. given' = IF <<runtime, Head(q)>> \in conns THEN Append(given, g) ELSE given
    BY <1>3 DEF PollConnection
  <2>5. \A i \in DOMAIN given : i \in DOMAIN given' /\ given'[i] = given[i]
    <3> DEFINE R == [id : Ids, listener : Listener]
    <3>1. given \in Seq(R)
      BY <1>0
    <3> HIDE DEF g, R
    <3> QED BY <2>4, <3>1
  <2>6. <<runtime, Head(q)>> \in conns => 
          Len(given) + 1 \in DOMAIN given' /\ given'[Len(given) + 1] = g
    <3> DEFINE R == [id : Ids, listener : Listener]
    <3>1. given \in Seq(R)
      BY <1>0
    <3> HIDE DEF g, R
    <3> QED BY <2>4, <3>1
  <2>7. g.id = Head(q)
    OBVIOUS
  <2>8. CASE \E i \in DOMAIN given : given[i].id = id
    BY <2>8, <2>5
  <2>9. CASE \E i \in DOMAIN inbox[l] : inbox[l][i] = id
    <3>1. PICK i \in DOMAIN inbox[l] : inbox[l][i] = id
      BY <2>9
    <3> HIDE DEF k, g, q
    <3>2. CASE k # l
      BY <3>1, <3>2, <2>2, <1>0
    <3>3. CASE k = l /\ i = 1
      <4>1. Head(q) = id
        BY <3>1, <3>3, <2>3 DEF q
      <4> QED BY <4>1, <2>6, <2>7, <1>0
    <3>4. CASE k = l /\ i # 1
      <4>1. inbox'[l] = Tail(q)
        BY <3>4, <2>1, <2>2, <1>0
      <4>2. i \in 1..Len(q) /\ q[i] = id
        BY <3>1, <3>4, <2>3 DEF q
      <4>3. i - 1 \in 1..(Len(q) - 1) /\ (i - 1) + 1 = i
        BY <4>2, <3>4, <2>3
      <4>4. i - 1 \in DOMAIN inbox'[l] /\ inbox'[l][i - 1] = id
        BY <4>1, <4>2, <4>3, <2>3
      <4> QED BY <4>4
    <3> QED BY <3>2, <3>3, <3>4
  <2> QED BY <2>8, <2>9
<1>4. CASE /\ ~\E a \in Attempts : Announce(a)
           /\ ~\E n \in Numbers : PollConnection(n)
  <2>1. inbox' = inbox /\ given' = given
    BY <1>4 DEF Next, TaskStep, StartRuntime, ShutdownBegins, ShutdownStops, ShutdownClears,
         Listen, AcceptChannel, StoreChannel, CloseListener, Accept, AcceptLoopEnds,
         ReadEndpoint, ReadAcceptor, NegotiationFails, Register, TaskStops,
         ConnectionEnds, IdleReleases, ReloadPrepares, ReloadUpdates, ReloadReturns
  <2> QED BY <2>1, <1>1
<1> QED BY <1>2, <1>3, <1>4

(* Every step keeps each established connection in its listener's channel  *)
(* or in Dart's hands.                                                     *)
LEMMA ForgottenStep ==
  ASSUME IndInv, Next, Shape'
  PROVE  NoneForgotten'
<1> SUFFICES ASSUME NEW a \in Attempts, neg'[a].at = "done",
                    <<neg'[a].of[1], neg'[a].id>> \in conns',
                    lst'[neg'[a].of].open, lst'[neg'[a].of].receiver # "dropped"
             PROVE  \/ \E i \in DOMAIN inbox'[neg'[a].of] : inbox'[neg'[a].of][i] = neg'[a].id
                    \/ \E i \in DOMAIN given' : given'[i].id = neg'[a].id
  BY DEF NoneForgotten, Dropped
<1> DEFINE l == neg[a].of
           id == neg[a].id
<1>0. /\ Shape /\ TasksSound /\ ReceiversKept /\ OpenOfRuntime
      /\ neg \in [Attempts -> Task] /\ neg[a] \in Task /\ inbox \in [Listener -> Seq(Ids)]
  BY DEF IndInv, Shape
<1>1. neg'[a].id # 0 /\ neg'[a].id \in Ids
  BY DEF Shape, Ids
<1>2. neg[a].at \in {"done", "aborted"} \/ Announce(a)
  BY <1>0, <1>1, DoneByAnnounce
<1>3. neg[a].at # "none" /\ neg'[a].of = l /\ l \in Known /\ l \in Listener
  <2>1. neg[a].at # "none"
    BY <1>2 DEF Announce
  <2> QED BY <2>1, <1>0, TasksMove DEF TasksSound, Known
<1>4. lst[l].open /\ lst[l].receiver # "dropped"
  <2>1. CASE Listen
    BY <1>0, <1>3, <2>1, ListenEntry
  <2>2. ASSUME NEW k \in Listener, NEW half \in Halves, ReloadUpdates(k, half)
        PROVE  lst[l].open /\ lst[l].receiver # "dropped"
    BY ZenonT(30), <1>0, <1>3, <2>2, UpdateEntry
  <2>3. CASE ~Listen /\ \A k \in Listener, half \in Halves : ~ReloadUpdates(k, half)
    BY <1>0, <1>3, <2>3, EntriesMove DEF Kept
  <2> QED BY <2>1, <2>2, <2>3
<1>5. neg[a].at # "aborted"
  BY <1>4, <1>0 DEF TasksSound
<1>6. CASE neg[a].at = "done"
  <2>1. neg'[a] = neg[a]
    BY <1>6, <1>0, TasksMove
  <2>2. <<l[1], id>> \in conns
    <3>1. <<l[1], id>> \in conns'
      BY <2>1
    <3>2. id # next
      BY SMTT(30), <1>0, Constants DEF TasksSound, Shape, Task
    <3> HIDE DEF l, id
    <3> QED BY <3>1, <3>2, <1>0, ConnsMove
  <2>3. (\E i \in DOMAIN inbox[l] : inbox[l][i] = id) \/ (\E i \in DOMAIN given : given[i].id = id)
    BY <1>6, <2>2, <1>4 DEF IndInv, NoneForgotten, Dropped
  <2>4. id \in Ids
    BY <2>1, <1>1
  <2>5. \/ \E i \in DOMAIN inbox'[l] : inbox'[l][i] = id
        \/ \E i \in DOMAIN given' : given'[i].id = id
    <3> HIDE DEF l, id
    <3> QED BY <1>3, <1>4, <2>2, <2>3, <2>4, HeldMoves
  <2> QED BY <2>1, <2>5
<1>7. CASE Announce(a)
  <2>1. neg'[a].id = id /\ inbox' = [inbox EXCEPT ![l] = Append(@, id)]
    BY <1>7, <1>4, <1>0, EndedType DEF Announce, Dropped
  <2>2. id \in Ids
    BY <2>1, <1>1
  <2>3. inbox'[l] = Append(inbox[l], id) /\ inbox[l] \in Seq(Ids)
    <3> HIDE DEF l, id
    <3> QED BY <2>1, <1>0, <1>3
  <2>4. Len(inbox[l]) + 1 \in DOMAIN inbox'[l] /\ inbox'[l][Len(inbox[l]) + 1] = id
    <3> HIDE DEF l, id
    <3> QED BY <2>2, <2>3
  <2> QED BY <2>1, <2>4, <1>3
<1> QED BY <1>2, <1>5, <1>6, <1>7

(* Every step keeps the account of a reload: an update takes one half of a *)
(* listener of its scope off the list, the other scope is left alone, and  *)
(* no listener comes or goes while one is at work.                         *)
LEMMA ReloadStep ==
  ASSUME Shape, OpenOfRuntime, ReceiversKept, ReloadSound, Next
  PROVE  ReloadSound'
<1>0. lst \in [Listener -> Entry] /\ reload \in Reload
      /\ \A l \in Listener : /\ lst[l].endpoint \in Nat /\ lst[l].acceptor \in Nat
                             /\ lst[l].scoped \in BOOLEAN /\ l[2] \in Nat
  <2>1. lst \in [Listener -> Entry] /\ reload \in Reload
    BY DEF Shape
  <2> QED BY <2>1, Constants, ListenerPairs DEF Entry, Numbers
<1>1. ASSUME NEW l \in Listener, NEW half \in Halves, ReloadUpdates(l, half)
      PROVE  ReloadSound'
  <2>1. /\ \A k \in Listener :
              /\ lst'[k].open = lst[k].open /\ lst'[k].scoped = lst[k].scoped
              /\ lst'[k].endpoint = IF k = l /\ half = "endpoint" THEN reload.to
                                    ELSE lst[k].endpoint
              /\ lst'[k].acceptor = IF k = l /\ half = "acceptor" THEN reload.to
                                    ELSE lst[k].acceptor
        /\ reload'.at = reload.at /\ reload'.to = reload.to
        /\ reload'.todo = reload.todo \ {<<l, half>>}
        /\ <<l, half>> \in reload.todo
    BY <1>1, UpdateEntry
  <2>2. reload.at = "updating" /\ Started
    BY <2>1 DEF ReloadSound
  <2>3. Started'
    BY <1>1, <2>2 DEF ReloadUpdates, Started
  <2>4. PICK c \in BOOLEAN : \A k \in Listener :
           /\ lst[k].open /\ lst[k].scoped = c =>
                /\ lst[k].endpoint = reload.to \/ <<k, "endpoint">> \in reload.todo
                /\ lst[k].acceptor = reload.to \/ <<k, "acceptor">> \in reload.todo
           /\ ~(lst[k].open /\ lst[k].scoped = c) =>
                <<k, "endpoint">> \notin reload.todo /\ <<k, "acceptor">> \notin reload.todo
           /\ \A m \in Listener : lst[k].scoped # c => OneVersion(k, m)
    BY <2>2 DEF ReloadSound
  <2>5. lst[l].open /\ lst[l].scoped = c
    BY <2>1, <2>4 DEF Halves
  <2>6. ASSUME NEW k \in Listener
        PROVE  /\ lst'[k].open /\ lst'[k].scoped = c =>
                  /\ lst'[k].endpoint = reload'.to \/ <<k, "endpoint">> \in reload'.todo
                  /\ lst'[k].acceptor = reload'.to \/ <<k, "acceptor">> \in reload'.todo
               /\ ~(lst'[k].open /\ lst'[k].scoped = c) =>
                  <<k, "endpoint">> \notin reload'.todo /\ <<k, "acceptor">> \notin reload'.todo
    <3>1. CASE k = l
      BY <3>1, <2>1, <2>4, <2>5 DEF Halves
    <3>2. CASE k # l
      BY <3>2, <2>1, <2>4 DEF Halves
    <3> QED BY <3>1, <3>2
  <2>7. ASSUME NEW k \in Listener, NEW m \in Listener, lst'[k].scoped # c,
               lst'[k].open, lst'[m].open
        PROVE  /\ lst'[k].endpoint = lst'[k].acceptor
               /\ lst'[k].scoped = lst'[m].scoped /\ k[2] < m[2] =>
                    lst'[k].endpoint >= lst'[m].endpoint
    <3>1. k # l /\ lst[k].scoped # c /\ lst[k].open /\ lst[m].open
      BY <2>1, <2>5, <2>7
    <3>2. /\ lst[k].endpoint = lst[k].acceptor
          /\ lst[k].scoped = lst[m].scoped /\ k[2] < m[2] => lst[k].endpoint >= lst[m].endpoint
      BY <2>4, <3>1 DEF OneVersion
    <3>3. lst'[k].scoped = lst'[m].scoped => m # l
      BY <2>1, <2>5, <3>1
    <3> QED BY <2>1, <3>1, <3>2, <3>3
  <2>8. \E scoped \in BOOLEAN : \A k \in Listener :
           /\ lst'[k].open /\ lst'[k].scoped = scoped =>
                /\ lst'[k].endpoint = reload'.to \/ <<k, "endpoint">> \in reload'.todo
                /\ lst'[k].acceptor = reload'.to \/ <<k, "acceptor">> \in reload'.todo
           /\ ~(lst'[k].open /\ lst'[k].scoped = scoped) =>
                <<k, "endpoint">> \notin reload'.todo /\ <<k, "acceptor">> \notin reload'.todo
           /\ \A m \in Listener : lst'[k].scoped # scoped =>
                (lst'[k].open /\ lst'[m].open =>
                  /\ lst'[k].endpoint = lst'[k].acceptor
                  /\ lst'[k].scoped = lst'[m].scoped /\ k[2] < m[2] =>
                       lst'[k].endpoint >= lst'[m].endpoint)
    BY <2>6, <2>7
  <2>9. reload'.at = "updating"
    BY <2>1, <2>2
  <2> QED BY <2>3, <2>8, <2>9 DEF ReloadSound, OneVersion, ReloadsComplete
<1>2. CASE Listen
  <2> DEFINE n == <<runtime, made[runtime] + 1>>
  <2>1. /\ \A k \in Listener : k # n => lst'[k] = lst[k]
        /\ lst'[n].endpoint = 0 /\ lst'[n].acceptor = 0 /\ n \notin Known /\ n \in Listener
    BY <1>2, ListenEntry
  <2>2. \A k \in Listener : lst[k].open => k \in Known /\ k[2] < n[2]
    <3> TAKE k \in Listener
    <3> HAVE lst[k].open
    <3>1. k \in Known /\ k[1] = runtime
      BY DEF OpenOfRuntime
    <3>2. k[2] <= made[runtime] /\ made[runtime] \in Nat
      <4>1. runtime \in Runs
        BY <3>1, ListenerPairs
      <4> QED BY <3>1, <4>1, Constants DEF Known, Shape
    <3> QED BY <3>1, <3>2, <1>0
  <2>3. reload' = reload /\ reload.at = "idle" /\ Started /\ Started'
    BY <1>2 DEF Listen, ListenersFree, Started
  <2>4. ASSUME NEW k \in Listener, NEW m \in Listener, lst'[k].open, lst'[m].open
        PROVE  /\ lst'[k].endpoint = lst'[k].acceptor
               /\ lst'[k].scoped = lst'[m].scoped /\ k[2] < m[2] =>
                    lst'[k].endpoint >= lst'[m].endpoint
    <3> HIDE DEF n
    <3>0. n[2] \in Nat
      BY <2>1, <1>0
    <3>1. CASE k # n /\ m # n
      BY <3>1, <2>1, <2>3, <2>4 DEF ReloadSound, ReloadsComplete
    <3>2. CASE k = n
      BY <3>2, <3>0, <2>1, <2>2, <2>4, <1>0
    <3>3. CASE k # n /\ m = n
      <4>1. lst[k].open /\ lst[k].endpoint = lst[k].acceptor
        BY <3>3, <2>1, <2>3, <2>4 DEF ReloadSound, ReloadsComplete
      <4> QED BY <3>3, <4>1, <2>1, <1>0
    <3> QED BY <3>1, <3>2, <3>3
  <2>5. ReloadsComplete'
    BY <2>4 DEF ReloadsComplete
  <2> QED BY <2>3, <2>5 DEF ReloadSound
<1>3. ASSUME ~Listen, \A l \in Listener, half \in Halves : ~ReloadUpdates(l, half)
      PROVE  ReloadSound'
  <2>0. \A l \in Listener : 
          lst'[l].open => /\ lst[l].open /\ lst'[l].scoped = lst[l].scoped
                          /\ lst'[l].endpoint = lst[l].endpoint
                          /\ lst'[l].acceptor = lst[l].acceptor
    BY <1>3, EntriesMove DEF Kept
  <2>1. ASSUME reload.at # "updating" PROVE ReloadsComplete'
    BY <2>0, <2>1 DEF ReloadSound, ReloadsComplete
  <2>2. ASSUME reload' = reload, Started' \/ reload.at = "idle",
               reload.at = "updating" =>
                 \A l \in Listener : /\ lst'[l].open = lst[l].open
                                     /\ lst'[l].scoped = lst[l].scoped
                                     /\ lst'[l].endpoint = lst[l].endpoint
                                     /\ lst'[l].acceptor = lst[l].acceptor
        PROVE  ReloadSound'
    <3>1. CASE reload.at # "updating"
      BY <3>1, <2>1, <2>2 DEF ReloadSound
    <3>2. CASE reload.at = "updating"
      BY <3>2, <2>2 DEF ReloadSound, ReloadsComplete, OneVersion
    <3> QED BY <3>1, <3>2
  <2>3. ASSUME NEW scoped \in BOOLEAN, NEW valid, ReloadPrepares(scoped, valid)
        PROVE  ReloadSound'
    <3>0. Started' /\ reload.at = "idle" /\ lst' = lst
      BY <2>3 DEF ReloadPrepares, Started, ListenersFree
    <3>1. CASE ~(Selected(scoped) \subseteq valid)
      <4>1. reload'.at = "failed" /\ reload'.todo = {}
        BY <2>3, <3>1 DEF ReloadPrepares
      <4> QED BY <3>0, <4>1, <2>1 DEF ReloadSound
    <3>2. CASE Selected(scoped) \subseteq valid
      <4>1. reload'.at = "updating" /\ reload'.todo = Selected(scoped) \X Halves
        BY <2>3, <3>2 DEF ReloadPrepares, Halves
      <4>2. \A k \in Listener : k \in Selected(scoped) <=> lst[k].open /\ lst[k].scoped = scoped
        BY DEF Selected, OpenOfRuntime
      <4>3. \A k \in Listener, h \in Halves :
              <<k, h>> \in reload'.todo <=> lst'[k].open /\ lst'[k].scoped = scoped
        BY <4>1, <4>2, <3>0
      <4>4. \A k, m \in Listener : lst'[k].open /\ lst'[m].open =>
              /\ lst'[k].endpoint = lst'[k].acceptor
              /\ lst'[k].scoped = lst'[m].scoped /\ k[2] < m[2] =>
                   lst'[k].endpoint >= lst'[m].endpoint
        BY <3>0 DEF ReloadSound, ReloadsComplete
      <4>5. \A k \in Listener :
           /\ lst'[k].open /\ lst'[k].scoped = scoped =>
                /\ lst'[k].endpoint = reload'.to \/ <<k, "endpoint">> \in reload'.todo
                /\ lst'[k].acceptor = reload'.to \/ <<k, "acceptor">> \in reload'.todo
           /\ ~(lst'[k].open /\ lst'[k].scoped = scoped) =>
                <<k, "endpoint">> \notin reload'.todo /\ <<k, "acceptor">> \notin reload'.todo
        BY <4>3 DEF Halves
      <4> QED BY <3>0, <4>1, <4>4, <4>5 DEF ReloadSound, OneVersion, ReloadsComplete
    <3> QED BY <3>1, <3>2
  <2>4. ASSUME ReloadReturns PROVE ReloadSound'
    <3>1. /\ reload'.at = "idle" /\ reload'.todo = reload.todo /\ reload.todo = {}
          /\ lst' = lst
      BY <2>4, <1>0 DEF ReloadReturns, Reload
    <3>2. ASSUME reload.at = "updating" PROVE ReloadsComplete'
      <4>1. PICK c \in BOOLEAN : \A k \in Listener :
               /\ lst[k].open /\ lst[k].scoped = c =>
                    lst[k].endpoint = reload.to /\ lst[k].acceptor = reload.to
               /\ \A m \in Listener : lst[k].scoped # c => OneVersion(k, m)
        BY <3>1, <3>2 DEF ReloadSound
      <4>2. ASSUME NEW k \in Listener, NEW m \in Listener, lst[k].open, lst[m].open
            PROVE  /\ lst[k].endpoint = lst[k].acceptor
                   /\ lst[k].scoped = lst[m].scoped /\ k[2] < m[2] =>
                        lst[k].endpoint >= lst[m].endpoint
        <5>1. CASE lst[k].scoped = c
          BY <4>1, <4>2, <5>1, <1>0
        <5>2. CASE lst[k].scoped # c
          BY <4>1, <4>2, <5>2 DEF OneVersion
        <5> QED BY <5>1, <5>2
      <4> QED BY <4>2, <3>1 DEF ReloadsComplete
    <3>3. ReloadsComplete'
      BY <3>2, <2>1
    <3> QED BY <3>1, <3>3 DEF ReloadSound
  <2>5. ASSUME ShutdownBegins \/ StartRuntime \/ ShutdownStops
               \/ \E n \in Numbers : CloseListener(n)
        PROVE  ReloadSound'
    <3>1. reload' = reload
      BY <2>5 DEF ShutdownBegins, StartRuntime, ShutdownStops, CloseListener
    <3>2. reload.at = "idle"
      BY <2>5 DEF ShutdownBegins, StartRuntime, ShutdownStops, CloseListener, ListenersFree,
                  ReloadSound, Started
    <3> QED BY <3>1, <3>2, <2>2
  <2>6. ASSUME ShutdownClears \/ AcceptChannel \/ StoreChannel
               \/ \E l \in Listener : AcceptLoopEnds(l)
        PROVE  ReloadSound'
    <3>1. reload' = reload /\ (reload.at # "idle" => Started /\ Started')
      BY <2>6 DEF ShutdownClears, AcceptChannel, StoreChannel, AcceptLoopEnds, ReloadSound,
                  Started
    <3>2. \A l \in Listener : /\ lst'[l].open = lst[l].open
                              /\ lst'[l].scoped = lst[l].scoped
                              /\ lst'[l].endpoint = lst[l].endpoint
                              /\ lst'[l].acceptor = lst[l].acceptor
      <4>1. CASE ShutdownClears
        BY <4>1, <1>0 DEF ShutdownClears, Entry
      <4>2. CASE AcceptChannel
        BY <4>2, AcceptEntry
      <4>3. CASE StoreChannel
        BY <4>3, <1>0 DEF StoreChannel, Entry
      <4>4. CASE \E l \in Listener : AcceptLoopEnds(l)
        BY <4>4, <1>0 DEF AcceptLoopEnds, Entry
      <4> QED BY <2>6, <4>1, <4>2, <4>3, <4>4
    <3> QED BY <3>1, <3>2, <2>2
  <2>7. ASSUME \/ IdleReleases
               \/ (\E n \in Numbers : PollConnection(n)) \/ (\E id \in Ids : ConnectionEnds(id))
               \/ (\E a \in Attempts : TaskStep(a))
               \/ (\E a \in Attempts, l \in Listener : Accept(a, l))
        PROVE  ReloadSound'
    <3>1. reload' = reload /\ lst' = lst /\ runtime' = runtime /\ halting' = halting
      BY <2>7 DEF IdleReleases, PollConnection, ConnectionEnds, TaskStep, Accept,
        ReadEndpoint, ReadAcceptor, NegotiationFails, Register, TaskStops, Announce
    <3>2. reload.at # "idle" => Started'
      BY <3>1 DEF ReloadSound, Started
    <3> QED BY <3>1, <3>2, <2>2
  <2> QED BY <1>3, <2>3, <2>4, <2>5, <2>6, <2>7 DEF Next, Halves
<1> QED BY <1>1, <1>2, <1>3

(* The invariant holds at the start.                                       *)
LEMMA InitSound == Init => IndInv
<1> SUFFICES ASSUME Init PROVE IndInv
  OBVIOUS
<1> USE DEF Init
<1>1. Shape
  <2>1. NoEntry \in Entry /\ NoTask \in Task
    BY NoEntryType, NoTaskType
  <2>2. reload \in Reload
    BY Constants DEF Reload
  <2>3. call \in Call
    BY DEF Call
  <2>4. inbox \in [Listener -> Seq(Ids)] /\ given \in Seq([id : Ids, listener : Listener])
    OBVIOUS
  <2>5. made \in [Runs -> 0..MaxListeners] /\ next \in 1..(MaxId + 1)
    BY Constants
  <2> QED BY <2>1, <2>2, <2>3, <2>4, <2>5, Constants DEF Shape
<1>2. OpenOfRuntime /\ ReceiversKept
  BY DEF OpenOfRuntime, ReceiversKept, NoEntry
<1>3. TasksSound
  BY DEF TasksSound, NoTask
<1>4. ConnsSound /\ InboxSound /\ GivenSound
  BY DEF ConnsSound, InboxSound, GivenSound
<1>5. ReloadSound
  BY DEF ReloadSound, ReloadsComplete, NoEntry
<1>6. LimitsKept
  <2>1. \A l \in Listener : Busy(neg, l) = {}
    BY DEF Busy, NoTask
  <2>2. Cardinality({}) = 0
    BY FS_EmptySet
  <2>3. \A l \in Listener : Len(inbox[l]) = 0
    OBVIOUS
  <2> HIDE DEF Init
  <2>4. \A l \in Listener : Cardinality(Busy(neg, l)) = 0
    BY <2>1, <2>2
  <2> QED BY <2>3, <2>4, Constants DEF LimitsKept
<1>7. ReservationHeld /\ NoneForgotten
  BY DEF ReservationHeld, NoneForgotten, NoTask
<1> QED BY <1>1, <1>2, <1>3, <1>4, <1>5, <1>6, <1>7 DEF IndInv

(* The invariant is inductive.                                             *)
LEMMA StepSound ==
  ASSUME IndInv, [Next]_vars
  PROVE  IndInv'
<1>1. CASE Next
  <2> USE <1>1
  <2>0. Shape /\ OpenOfRuntime /\ ReceiversKept /\ TasksSound /\ ConnsSound
        /\ InboxSound /\ GivenSound /\ ReloadSound /\ LimitsKept /\ ReservationHeld
    BY DEF IndInv
  <2>1. Shape'
    BY <2>0, ShapeStep
  <2>2. OpenOfRuntime' /\ ReceiversKept'
    BY <2>0, OpenStep, ReceiversStep
  <2>3. TasksSound' /\ ConnsSound'
    BY <2>0, TasksStep, ConnsStep
  <2>4. InboxSound' /\ GivenSound'
    BY <2>0, InboxStep
  <2>5. ReloadSound' /\ LimitsKept' /\ ReservationHeld'
    BY <2>0, ReloadStep, LimitsStep, ReservationStep
  <2>6. NoneForgotten'
    BY <2>1, ForgottenStep
  <2> QED BY <2>1, <2>2, <2>3, <2>4, <2>5, <2>6 DEF IndInv
<1>2. CASE UNCHANGED vars
  <2> USE <1>2 DEF vars
  <2>1. Shape' /\ OpenOfRuntime' /\ ReceiversKept' /\ TasksSound'
    BY DEF IndInv, Shape, OpenOfRuntime, ReceiversKept, TasksSound, Known
  <2>2. ConnsSound' /\ InboxSound' /\ GivenSound'
    BY DEF IndInv, ConnsSound, InboxSound, GivenSound
  <2>3. ReloadSound' /\ LimitsKept' /\ ReservationHeld' /\ NoneForgotten'
    BY DEF IndInv, ReloadSound, ReloadsComplete, OneVersion, Started, LimitsKept,
           ReservationHeld, NoneForgotten, Dropped
  <2> QED BY <2>1, <2>2, <2>3 DEF IndInv
<1> QED BY <1>1, <1>2

(* The inductive invariant holds throughout.                               *)
THEOREM IndInvHolds == Spec => []IndInv
  BY InitSound, StepSound, PTL DEF Spec

(* ct_poll_connection returns every connection once and under the listener *)
(* that accepted it, whatever a stopped runtime has left in a channel of   *)
(* the same number (allocate_connection_id, store_channel).                *)
THEOREM ConnectionsGivenOnce == Spec => []GivenOnceToItsListener
<1>1. IndInv => GivenOnceToItsListener
  BY DEF IndInv, GivenSound, GivenOnceToItsListener
<1> QED BY <1>1, IndInvHolds, PTL

(* No established connection is forgotten while its listener is open, the  *)
(* idle allocator is reserved exactly while a release is due, and backlog  *)
(* and capacity are kept (negotiate_accepted_connection,                   *)
(* schedule_idle_allocator_release).                                       *)
THEOREM ConnectionsAccounted == Spec => []Accounted
<1>1. ASSUME IndInv PROVE Accounted
  <2>1. \A l \in Listener : Negotiating(l) = Busy(neg, l)
    BY DEF Negotiating, Busy
  <2>2. \A l \in Listener : lst[l].receiver \in Receivers
    BY <1>1 DEF IndInv, Shape, Entry
  <2>3. \A l \in Listener : 
          /\ Cardinality(Negotiating(l)) <= Backlog
          /\ Len(inbox[l]) <= Capacity
          /\ lst[l].open => l[1] = runtime
    BY <1>1, <2>1 DEF IndInv, LimitsKept, OpenOfRuntime
  <2>4. TypeOK
    BY <1>1, <2>2, <2>3 DEF TypeOK, IndInv, Shape, Receivers
  <2> QED BY <1>1, <2>4 DEF IndInv, Accounted
<1> QED BY <1>1, IndInvHolds, PTL

(* A reload reaches all the listeners it selects or none, and nothing else *)
(* changes the configuration of an open listener (reload_tls_selected).    *)
THEOREM ReloadsReachAllOrNone == Spec => ReloadAllOrNone
<1> DEFINE A == /\ ReloadsComplete'
                /\ \A l \in Listener :
                     lst[l].open /\ lst'[l].open
                     /\ (lst'[l].endpoint # lst[l].endpoint \/ lst'[l].acceptor # lst[l].acceptor) =>
                       reload.at = "updating"
<1>1. ASSUME IndInv, IndInv', [Next]_vars PROVE [A]_vars
  <2>0. ReloadsComplete'
    BY <1>1 DEF IndInv, ReloadSound
  <2>1. Shape /\ OpenOfRuntime /\ ReceiversKept
    BY <1>1 DEF IndInv
  <2>2. ASSUME Next, NEW l \in Listener, lst[l].open, lst'[l].open, reload.at # "updating"
        PROVE  lst'[l].endpoint = lst[l].endpoint /\ lst'[l].acceptor = lst[l].acceptor
    <3>1. \A k \in Listener, half \in Halves : ~ReloadUpdates(k, half)
      BY <1>1, <2>2 DEF ReloadUpdates, IndInv, ReloadSound
    <3>2. CASE Listen
      <4>1. l \in Known
        BY <2>1, <2>2 DEF OpenOfRuntime
      <4> QED BY <2>1, <3>2, <4>1, ListenEntry
    <3>3. CASE ~Listen
      BY <2>1, <2>2, <3>1, <3>3, EntriesMove DEF Kept
    <3> QED BY <3>2, <3>3
  <2>3. CASE Next
    BY <2>0, <2>2, <2>3
  <2> QED BY <2>3, <1>1
<1>2. Spec => [][A]_vars
  BY <1>1, IndInvHolds, PTL DEF Spec
<1> QED BY <1>2 DEF ReloadAllOrNone
-----------------------------------------------------------------------------
(* Messages *)

(* The records of polled frames, the frames that are forwarded and what a  *)
(* thread may be doing.                                                    *)
Record ==
    {[serializer |-> i.serializer, segmented |-> i.segmented, raced |-> i \in Raced,
      message |-> Parse(i.serializer, i.wire, i.segmented)] : i \in Inputs}

Wires == {Forwarded(m, k, t) : m \in Record, k \in Kinds, t \in Serializers}

OutFrame == [alloc : Nat, kind : Kinds, target : Serializers, wire : Wires, shares : BOOLEAN]

Doing ==
    {Idle}
    \cup [at : {"borrowing"}, alloc : Nat]
    \cup [at : {"encoding"}, alloc : Nat, kind : Kinds, target : Serializers]
    \cup [at : {"sending"}, frame : OutFrame]
    \cup [at : {"removed", "keyed", "owned", "shared"}, alloc : Nat, cipher : Ciphers]

(* A thread that works on an allocation, as an owner or as the only one.   *)
AtWork == {"borrowing", "encoding", "removed", "keyed", "shared", "owned"}

Tables ==
    /\ messages \in Seq(Record) /\ Len(messages) <= MaxMessages
    /\ nextHandle \in Nat \ {0} /\ DOMAIN handles \subseteq 1..(nextHandle - 1)
    /\ \A h \in DOMAIN handles : handles[h] \in DOMAIN messages
    /\ DOMAIN views \subseteq 1..MaxViews
    /\ \A v \in DOMAIN views : views[v] \in DOMAIN messages
    /\ worker \in [Workers -> Doing]
    /\ \A w \in Workers : worker[w].at \in AtWork => worker[w].alloc \in DOMAIN messages
    /\ queue \in Seq(OutFrame) /\ Len(queue) <= MaxQueue
    /\ overwritten \subseteq DOMAIN messages

(* Somebody holds a strong reference to the allocation. *)
Referred(a) ==
    \/ \E h \in DOMAIN handles : handles[h] = a
    \/ \E v \in DOMAIN views : views[v] = a
    \/ \E w \in Workers : Holds(w, a)

OwnedBy(w, a) == worker[w].at = "owned" /\ worker[w].alloc = a

(* The thread whose try_unwrap succeeded is the only one to know the       *)
(* message, and nobody knows one whose buffer was overwritten.             *)
OwnedAlone ==
    \A w \in Workers, a \in DOMAIN messages : OwnedBy(w, a) =>
        /\ ~Referred(a)
        /\ \A u \in Workers : OwnedBy(u, a) => u = w

OverwrittenGone ==
    \A a \in overwritten :
        /\ ~Referred(a)
        /\ \A w \in Workers : ~OwnedBy(w, a)
        /\ SharedFrames(a) = {}

MessagesInv == Tables /\ OwnedAlone /\ OverwrittenGone

(* A step that makes a reference only from one that is there, or to a new  *)
(* message, and shares the bytes only of a message that is referred to.    *)
LEMMA ReferencesFollow ==
    ASSUME MessagesInv, DOMAIN messages \subseteq DOMAIN messages', overwritten' = overwritten,
           \A a \in DOMAIN messages : Referred(a)' => Referred(a),
           \A a \in DOMAIN messages' : a \notin DOMAIN messages =>
              \A w \in Workers : ~OwnedBy(w, a)',
           \A w \in Workers, a \in DOMAIN messages : OwnedBy(w, a)' => OwnedBy(w, a),
           \A a \in DOMAIN messages : SharedFrames(a)' # {} => SharedFrames(a) # {} \/ Referred(a)
    PROVE  OwnedAlone' /\ OverwrittenGone'
<1>1. overwritten \subseteq DOMAIN messages
  BY DEF MessagesInv, Tables
<1>2. OwnedAlone'
  <2> SUFFICES ASSUME NEW w \in Workers, NEW a \in DOMAIN messages', OwnedBy(w, a)'
               PROVE  ~Referred(a)' /\ \A u \in Workers : OwnedBy(u, a)' => u = w
    BY DEF OwnedAlone
  <2>1. a \in DOMAIN messages /\ OwnedBy(w, a)
    OBVIOUS
  <2> QED BY <2>1 DEF MessagesInv, OwnedAlone
<1>3. OverwrittenGone'
  <2> SUFFICES ASSUME NEW a \in overwritten
               PROVE  /\ ~Referred(a)'
                      /\ \A w \in Workers : ~OwnedBy(w, a)'
                      /\ SharedFrames(a)' = {}
    BY DEF OverwrittenGone
  <2>1. a \in DOMAIN messages
    BY <1>1
  <2> QED BY <2>1 DEF MessagesInv, OverwrittenGone
<1> QED BY <1>2, <1>3

(* The threads that do not move stay as they were. *)
LEMMA TurnGives ==
    ASSUME MessagesInv, NEW w \in Workers, NEW state, Turn(w, state)
    PROVE  /\ worker'[w] = state
           /\ \A u \in Workers : u # w => worker'[u] = worker[u]
           /\ state \in Doing => worker' \in [Workers -> Doing]
BY DEF MessagesInv, Tables, Turn

LEMMA IdleGives == Idle \in Doing /\ Idle.at = "idle"
BY DEF Doing, Idle

LEMMA MessagesInvInit == MessagesInit => MessagesInv
<1> SUFFICES ASSUME MessagesInit PROVE MessagesInv
  OBVIOUS
<1>1. /\ messages = <<>> /\ handles = <<>> /\ views = <<>> /\ queue = <<>>
      /\ nextHandle = 1 /\ overwritten = {} /\ worker = [w \in Workers |-> Idle]
  BY DEF MessagesInit
<1>2. DOMAIN handles = {} /\ DOMAIN views = {} /\ DOMAIN messages = {} /\ DOMAIN queue = {}
  BY <1>1
<1>3. messages \in Seq(Record) /\ Len(messages) = 0 /\ queue \in Seq(OutFrame) /\ Len(queue) = 0
  BY <1>1
<1>4. worker \in [Workers -> Doing] /\ \A w \in Workers : worker[w].at = "idle"
  BY <1>1, IdleGives
<1>5. Tables
  BY <1>1, <1>2, <1>3, <1>4, MessagesAssumption DEF Tables, AtWork
<1>6. OwnedAlone
  BY <1>2 DEF OwnedAlone
<1>7. OverwrittenGone
  BY <1>1 DEF OverwrittenGone
<1> QED BY <1>5, <1>6, <1>7 DEF MessagesInv

(* A thread turns to an allocation that somebody refers to, or to nothing; *)
(* a handle may go.                                                        *)
LEMMA TurnKeeps ==
    ASSUME MessagesInv, NEW w \in Workers, NEW state \in Doing, Turn(w, state),
           UNCHANGED <<messages, nextHandle, views, queue, overwritten>>,
           DOMAIN handles' \subseteq DOMAIN handles,
           \A h \in DOMAIN handles' : handles'[h] = handles[h],
           state.at \notin {"owned", "sending"},
           state.at \in AtWork => state.alloc \in DOMAIN messages /\ Referred(state.alloc)
    PROVE  MessagesInv'
<1>1. /\ worker'[w] = state /\ worker' \in [Workers -> Doing]
      /\ \A u \in Workers : u # w => worker'[u] = worker[u]
  BY TurnGives
<1>2. Tables'
  <2>1. \A u \in Workers : worker'[u].at \in AtWork => worker'[u].alloc \in DOMAIN messages
    BY <1>1 DEF MessagesInv, Tables
  <2>2. DOMAIN handles' \subseteq 1..(nextHandle - 1)
    BY DEF MessagesInv, Tables
  <2>3. \A h \in DOMAIN handles' : handles'[h] \in DOMAIN messages
    BY DEF MessagesInv, Tables
  <2> QED BY <1>1, <2>1, <2>2, <2>3 DEF MessagesInv, Tables
<1>3. ASSUME NEW a \in DOMAIN messages, Referred(a)' PROVE Referred(a)
  <2>1. ASSUME NEW u \in Workers, Holds(u, a)' PROVE Referred(a)
    <3>1. CASE u = w
      BY <1>1, <2>1, <3>1 DEF Holds, AtWork
    <3>2. CASE u # w
      BY <1>1, <2>1, <3>2 DEF Holds, Referred
    <3> QED BY <3>1, <3>2
  <2> QED BY <1>3, <2>1 DEF Referred
<1>4. \A u \in Workers, a \in DOMAIN messages : OwnedBy(u, a)' => OwnedBy(u, a)
  BY <1>1 DEF OwnedBy
<1>5. \A a : SharedFrames(a)' \subseteq SharedFrames(a)
  BY <1>1 DEF SharedFrames
<1>6. OwnedAlone' /\ OverwrittenGone'
  BY <1>3, <1>4, <1>5, ReferencesFollow
<1> QED BY <1>2, <1>6 DEF MessagesInv

LEMMA HandleRefers ==
    ASSUME MessagesInv, NEW h \in DOMAIN handles
    PROVE  handles[h] \in DOMAIN messages /\ handles[h] \in Nat /\ Referred(handles[h])
<1>1. handles[h] \in DOMAIN messages /\ messages \in Seq(Record)
  BY DEF MessagesInv, Tables
<1>2. handles[h] \in Nat
  BY <1>1
<1> QED BY <1>1, <1>2 DEF Referred

LEMMA WorkerRefers ==
    ASSUME MessagesInv, NEW w \in Workers, worker[w].at \in AtWork
    PROVE  /\ worker[w].alloc \in DOMAIN messages /\ worker[w].alloc \in Nat
           /\ worker[w].at # "owned" => Holds(w, worker[w].alloc) /\ Referred(worker[w].alloc)
<1>1. worker[w].alloc \in DOMAIN messages /\ messages \in Seq(Record)
  BY DEF MessagesInv, Tables
<1>2. worker[w].alloc \in Nat
  BY <1>1
<1>3. worker[w].at # "owned" => Holds(w, worker[w].alloc)
  BY DEF Holds, AtWork
<1> QED BY <1>1, <1>2, <1>3 DEF Referred

LEMMA BorrowKeeps ==
    ASSUME MessagesInv, NEW w \in Workers, NEW h \in DOMAIN handles, Borrow(w, h)
    PROVE  MessagesInv'
<1> DEFINE s == [at |-> "borrowing", alloc |-> handles[h]]
<1>1. handles[h] \in DOMAIN messages /\ handles[h] \in Nat /\ Referred(handles[h])
  BY HandleRefers
<1>2. s \in Doing /\ s.at = "borrowing" /\ s.alloc = handles[h]
  BY <1>1 DEF Doing
<1>3. Turn(w, s) /\ UNCHANGED <<messages, handles, nextHandle, views, queue, overwritten>>
  BY DEF Borrow
<1> HIDE DEF s
<1> QED BY <1>1, <1>2, <1>3, TurnKeeps

LEMMA EndsKeep ==
    ASSUME MessagesInv, NEW w \in Workers, EndBorrow(w) \/ DecryptShared(w)
    PROVE  MessagesInv'
<1>1. Turn(w, Idle) /\ UNCHANGED <<messages, handles, nextHandle, views, queue, overwritten>>
  BY DEF EndBorrow, DecryptShared
<1>2. Idle.at \notin AtWork
  BY IdleGives DEF AtWork
<1> QED BY <1>1, <1>2, IdleGives, TurnKeeps

LEMMA ForwardBeginKeeps ==
    ASSUME MessagesInv, NEW w \in Workers, NEW h \in DOMAIN handles,
           NEW k \in Kinds, NEW t \in Serializers, ForwardBegin(w, h, k, t)
    PROVE  MessagesInv'
<1> DEFINE s == [at |-> "encoding", alloc |-> handles[h], kind |-> k, target |-> t]
<1>1. handles[h] \in DOMAIN messages /\ handles[h] \in Nat /\ Referred(handles[h])
  BY HandleRefers
<1>2. s \in Doing /\ s.at = "encoding" /\ s.alloc = handles[h]
  BY <1>1 DEF Doing
<1>3. Turn(w, s) /\ UNCHANGED <<messages, handles, nextHandle, views, queue, overwritten>>
  BY DEF ForwardBegin
<1> HIDE DEF s
<1> QED BY <1>1, <1>2, <1>3, TurnKeeps

LEMMA ConsumeKeeps ==
    ASSUME MessagesInv, NEW w \in Workers, NEW h \in DOMAIN handles, NEW c \in Ciphers,
           Consume(w, h, c)
    PROVE  MessagesInv'
<1> DEFINE s == [at |-> "removed", alloc |-> handles[h], cipher |-> c]
<1>1. handles[h] \in DOMAIN messages /\ handles[h] \in Nat /\ Referred(handles[h])
  BY HandleRefers
<1>2. s \in Doing /\ s.at = "removed" /\ s.alloc = handles[h]
  BY <1>1 DEF Doing
<1>3. /\ Turn(w, s) /\ UNCHANGED <<messages, nextHandle, views, queue, overwritten>>
      /\ DOMAIN handles' \subseteq DOMAIN handles
      /\ \A g \in DOMAIN handles' : handles'[g] = handles[g]
  BY DEF Consume, RemoveHandle
<1> HIDE DEF s
<1> QED BY <1>1, <1>2, <1>3, TurnKeeps

LEMMA ResolveKeyKeeps ==
    ASSUME MessagesInv, NEW w \in Workers, ResolveKey(w)
    PROVE  MessagesInv'
<1>1. /\ worker[w].at = "removed" /\ worker[w] \in Doing
      /\ UNCHANGED <<messages, handles, nextHandle, views, queue, overwritten>>
  BY DEF ResolveKey, MessagesInv, Tables
<1>2. CASE Turn(w, Idle)
  <2>1. Idle.at \notin AtWork
    BY IdleGives DEF AtWork
  <2> QED BY <1>1, <1>2, <2>1, IdleGives, TurnKeeps
<1>3. CASE Turn(w, [worker[w] EXCEPT !.at = "keyed"])
  <2> DEFINE s == [worker[w] EXCEPT !.at = "keyed"]
  <2>1. worker[w].alloc \in DOMAIN messages /\ Referred(worker[w].alloc)
    BY <1>1, WorkerRefers DEF AtWork
  <2>2. worker[w] \in [at : {"removed", "keyed", "owned", "shared"}, alloc : Nat, cipher : Ciphers]
    BY <1>1 DEF Doing, Idle
  <2>3. s \in Doing /\ s.at = "keyed" /\ s.alloc = worker[w].alloc
    BY <2>2 DEF Doing
  <2> HIDE DEF s
  <2> QED BY <1>1, <1>3, <2>1, <2>3, TurnKeeps DEF s
<1> QED BY <1>2, <1>3 DEF ResolveKey

LEMMA ForwardEncodeKeeps ==
    ASSUME MessagesInv, NEW w \in Workers, ForwardEncode(w)
    PROVE  MessagesInv'
<1> DEFINE a == worker[w].alloc
           wire == Forwarded(messages[a], worker[w].kind, worker[w].target)
           shares == Contiguous(messages[a]) /\ PayloadOf(messages[a]) # NoPayload
           f == [alloc |-> a, kind |-> worker[w].kind, target |-> worker[w].target,
                 wire |-> wire, shares |-> shares]
           s == [at |-> "sending", frame |-> f]
<1>1. /\ worker[w].at = "encoding" /\ worker[w] \in Doing
      /\ UNCHANGED <<messages, handles, nextHandle, views, queue, overwritten>>
  BY DEF ForwardEncode, MessagesInv, Tables
<1>2. a \in DOMAIN messages /\ a \in Nat /\ Referred(a)
  BY <1>1, WorkerRefers DEF AtWork
<1>3. Turn(w, Idle) \/ Turn(w, s)
  BY DEF ForwardEncode
<1>4. CASE Turn(w, Idle)
  <2>1. Idle.at \notin AtWork
    BY IdleGives DEF AtWork
  <2> QED BY <1>1, <1>4, <2>1, IdleGives, TurnKeeps
<1>5. CASE Turn(w, s)
  <2>1. worker[w].kind \in Kinds /\ worker[w].target \in Serializers
    BY <1>1 DEF Doing, Idle
  <2>2. messages[a] \in Record
    BY <1>2 DEF MessagesInv, Tables
  <2>3. wire \in Wires
    BY <2>1, <2>2 DEF Wires
  <2>4. shares \in BOOLEAN
    OBVIOUS
  <2> HIDE DEF wire, shares, a
  <2>5. f \in OutFrame /\ f.alloc = a
    BY <1>2, <2>1, <2>3, <2>4 DEF OutFrame
  <2> HIDE DEF f
  <2>6. s \in Doing /\ s.at = "sending" /\ s.frame = f
    BY <2>5 DEF Doing
  <2> HIDE DEF s
  <2>7. /\ worker'[w] = s /\ worker' \in [Workers -> Doing]
        /\ \A u \in Workers : u # w => worker'[u] = worker[u]
    BY <1>5, <2>6, TurnGives
  <2>8. Tables'
    <3>1. \A u \in Workers : worker'[u].at \in AtWork => worker'[u].alloc \in DOMAIN messages
      BY <2>6, <2>7 DEF MessagesInv, Tables, AtWork
    <3> QED BY <1>1, <2>7, <3>1 DEF MessagesInv, Tables
  <2>9. \A b \in DOMAIN messages : Referred(b)' => Referred(b)
    BY <1>1, <2>6, <2>7 DEF Referred, Holds
  <2>10. \A u \in Workers, b \in DOMAIN messages : OwnedBy(u, b)' => OwnedBy(u, b)
    BY <2>6, <2>7 DEF OwnedBy
  <2>11. ASSUME NEW b \in DOMAIN messages, SharedFrames(b)' # {}
         PROVE  SharedFrames(b) # {} \/ Referred(b)
    <3>1. CASE b = a
      BY <1>2, <3>1
    <3>2. CASE b # a
      <4>1. SharedFrames(b)' \subseteq SharedFrames(b)
        BY <1>1, <2>5, <2>6, <2>7, <3>2 DEF SharedFrames
      <4> QED BY <2>11, <4>1
    <3> QED BY <3>1, <3>2
  <2>12. OwnedAlone' /\ OverwrittenGone'
    BY <1>1, <2>9, <2>10, <2>11, ReferencesFollow
  <2> QED BY <2>8, <2>12 DEF MessagesInv
<1> QED BY <1>3, <1>4, <1>5

(* The frames of the queue: what an operation on it leaves. *)
LEMMA QueueAppended ==
    ASSUME NEW q \in Seq(OutFrame), NEW f \in OutFrame
    PROVE  /\ Append(q, f) \in Seq(OutFrame) /\ Len(Append(q, f)) = Len(q) + 1 /\ Len(q) \in Nat
           /\ \A i \in DOMAIN Append(q, f) :
                 (i \in DOMAIN q /\ Append(q, f)[i] = q[i]) \/ Append(q, f)[i] = f
OBVIOUS

LEMMA QueueTail ==
    ASSUME NEW q \in Seq(OutFrame), q # <<>>
    PROVE  /\ Tail(q) \in Seq(OutFrame) /\ Len(Tail(q)) = Len(q) - 1 /\ Len(q) \in Nat
           /\ \A i \in DOMAIN Tail(q) : i + 1 \in DOMAIN q /\ Tail(q)[i] = q[i + 1]
OBVIOUS

LEMMA ForwardSendKeeps ==
    ASSUME MessagesInv, NEW w \in Workers, ForwardSend(w)
    PROVE  MessagesInv'
<1> DEFINE f == worker[w].frame
<1>1. /\ worker[w].at = "sending" /\ worker[w] \in Doing /\ Turn(w, Idle)
      /\ UNCHANGED <<messages, handles, nextHandle, views, overwritten>>
      /\ queue \in Seq(OutFrame)
  BY DEF ForwardSend, MessagesInv, Tables
<1>2. f \in OutFrame
  BY <1>1 DEF Doing, Idle
<1>3. /\ worker'[w] = Idle /\ worker' \in [Workers -> Doing]
      /\ \A u \in Workers : u # w => worker'[u] = worker[u]
  BY <1>1, IdleGives, TurnGives
<1>4. CASE queue' = queue
  <2>1. Idle.at \notin AtWork
    BY IdleGives DEF AtWork
  <2> QED BY <1>1, <1>4, <2>1, IdleGives, TurnKeeps
<1>5. CASE Len(queue) < MaxQueue /\ queue' = Append(queue, f)
  <2> HIDE DEF f
  <2>1. /\ queue' \in Seq(OutFrame) /\ Len(queue') = Len(queue) + 1 /\ Len(queue) \in Nat
        /\ \A i \in DOMAIN queue' :
              (i \in DOMAIN queue /\ queue'[i] = queue[i]) \/ queue'[i] = f
    BY <1>1, <1>2, <1>5, QueueAppended
  <2>2. Tables'
    <3>1. \A u \in Workers : worker'[u].at \in AtWork => worker'[u].alloc \in DOMAIN messages
      BY <1>3, IdleGives DEF MessagesInv, Tables, AtWork
    <3>2. Len(queue') <= MaxQueue
      BY <1>5, <2>1, MessagesAssumption
    <3> QED BY <1>1, <1>3, <2>1, <3>1, <3>2 DEF MessagesInv, Tables
  <2>3. \A a \in DOMAIN messages : Referred(a)' => Referred(a)
    BY <1>1, <1>3, IdleGives DEF Referred, Holds
  <2>4. \A u \in Workers, a \in DOMAIN messages : OwnedBy(u, a)' => OwnedBy(u, a)
    BY <1>3, IdleGives DEF OwnedBy
  <2>5. ASSUME NEW a \in DOMAIN messages, SharedFrames(a)' # {}
        PROVE  SharedFrames(a) # {}
    <3>1. ASSUME NEW i \in DOMAIN queue', queue'[i].alloc = a, queue'[i].shares
          PROVE  SharedFrames(a) # {}
      <4>1. CASE i \in DOMAIN queue /\ queue'[i] = queue[i]
        BY <3>1, <4>1 DEF SharedFrames
      <4>2. CASE queue'[i] = f
        BY <1>1, <3>1, <4>2 DEF SharedFrames, f
      <4> QED BY <2>1, <4>1, <4>2
    <3>2. ASSUME NEW u \in Workers, worker'[u].at = "sending",
                 worker'[u].frame.alloc = a, worker'[u].frame.shares
          PROVE  SharedFrames(a) # {}
      <4>1. worker'[u] = worker[u]
        BY <1>3, <3>2, IdleGives
      <4> QED BY <3>2, <4>1 DEF SharedFrames
    <3> QED BY <2>5, <3>1, <3>2 DEF SharedFrames
  <2>6. OwnedAlone' /\ OverwrittenGone'
    BY <1>1, <2>3, <2>4, <2>5, ReferencesFollow
  <2> QED BY <2>2, <2>6 DEF MessagesInv
<1> QED BY <1>4, <1>5 DEF ForwardSend

LEMMA FlushKeeps ==
    ASSUME MessagesInv, Flush
    PROVE  MessagesInv'
<1>1. /\ queue # <<>> /\ queue' = Tail(queue) /\ queue \in Seq(OutFrame)
      /\ UNCHANGED <<messages, handles, nextHandle, views, worker, overwritten>>
  BY DEF Flush, MessagesInv, Tables
<1>2. /\ queue' \in Seq(OutFrame) /\ Len(queue') = Len(queue) - 1 /\ Len(queue) \in Nat
      /\ \A i \in DOMAIN queue' : i + 1 \in DOMAIN queue /\ queue'[i] = queue[i + 1]
  BY <1>1, QueueTail
<1>3. Tables'
  <2>1. Len(queue') <= MaxQueue
    BY <1>2, MessagesAssumption DEF MessagesInv, Tables
  <2> QED BY <1>1, <1>2, <2>1 DEF MessagesInv, Tables
<1>4. \A a : Referred(a)' <=> Referred(a)
  BY <1>1 DEF Referred, Holds
<1>5. \A u \in Workers, a \in DOMAIN messages : OwnedBy(u, a)' => OwnedBy(u, a)
  BY <1>1 DEF OwnedBy
<1>6. ASSUME NEW a \in DOMAIN messages, SharedFrames(a)' # {}
      PROVE  SharedFrames(a) # {}
  <2>1. ASSUME NEW i \in DOMAIN queue', queue'[i].alloc = a, queue'[i].shares
        PROVE  SharedFrames(a) # {}
    BY <1>2, <2>1 DEF SharedFrames
  <2> QED BY <1>1, <1>6, <2>1 DEF SharedFrames
<1>7. OwnedAlone' /\ OverwrittenGone'
  BY <1>1, <1>4, <1>5, <1>6, ReferencesFollow
<1> QED BY <1>3, <1>7 DEF MessagesInv

(* The sets that Owners counts are finite. *)
LEMMA OwnersFinite ==
    ASSUME MessagesInv, NEW a
    PROVE  /\ IsFiniteSet({h \in DOMAIN handles : handles[h] = a})
           /\ IsFiniteSet({v \in DOMAIN views : views[v] = a})
           /\ IsFiniteSet({w \in Workers : Holds(w, a)})
<1>1. /\ nextHandle \in Nat \ {0}
      /\ DOMAIN handles \subseteq 1..(nextHandle - 1) /\ DOMAIN views \subseteq 1..MaxViews
  BY DEF MessagesInv, Tables
<1>2. IsFiniteSet(1..(nextHandle - 1)) /\ IsFiniteSet(1..MaxViews)
  BY <1>1, MessagesAssumption, FS_Interval
<1>3. /\ {h \in DOMAIN handles : handles[h] = a} \subseteq 1..(nextHandle - 1)
      /\ {v \in DOMAIN views : views[v] = a} \subseteq 1..MaxViews
      /\ {w \in Workers : Holds(w, a)} \subseteq Workers
  BY <1>1
<1> QED BY <1>2, <1>3, MessagesAssumption, FS_Subset

LEMMA OnlyOwner ==
    ASSUME MessagesInv, NEW w \in Workers, NEW a, Holds(w, a), Owners(a) = 1
    PROVE  /\ \A h \in DOMAIN handles : handles[h] # a
           /\ \A v \in DOMAIN views : views[v] # a
           /\ \A u \in Workers : Holds(u, a) => u = w
<1> DEFINE H == {h \in DOMAIN handles : handles[h] = a}
           V == {v \in DOMAIN views : views[v] = a}
           U == {u \in Workers : Holds(u, a)}
<1>1. IsFiniteSet(H) /\ IsFiniteSet(V) /\ IsFiniteSet(U)
  BY OwnersFinite
<1>2. w \in U
  OBVIOUS
<1>3. Cardinality(H) + Cardinality(V) + Cardinality(U) = 1
  BY DEF Owners
<1> HIDE DEF H, V, U
<1>4. Cardinality(H) \in Nat /\ Cardinality(V) \in Nat /\ Cardinality(U) \in Nat
  BY <1>1, FS_CardinalityType
<1>5. Cardinality(U) # 0
  BY <1>1, <1>2, FS_EmptySet
<1>6. Cardinality(H) = 0 /\ Cardinality(V) = 0 /\ Cardinality(U) = 1
  BY <1>3, <1>4, <1>5
<1>7. H = {} /\ V = {}
  BY <1>1, <1>6, FS_EmptySet
<1>8. \E x : U = {x}
  BY <1>1, <1>6, FS_Singleton
<1> QED BY <1>2, <1>7, <1>8 DEF H, V, U

LEMMA NoOwner ==
    ASSUME MessagesInv, NEW a, ~Referred(a)
    PROVE  Owners(a) = 0
<1>1. /\ {h \in DOMAIN handles : handles[h] = a} = {}
      /\ {v \in DOMAIN views : views[v] = a} = {}
      /\ {w \in Workers : Holds(w, a)} = {}
  BY DEF Referred
<1>2. Cardinality({}) = 0
  BY FS_EmptySet
<1> QED BY <1>1, <1>2 DEF Owners

LEMMA UnwrapKeeps ==
    ASSUME MessagesInv, NEW w \in Workers, Unwrap(w)
    PROVE  MessagesInv'
<1>0. PICK a : a = worker[w].alloc
  OBVIOUS
<1> DEFINE s(at) == [worker[w] EXCEPT !.at = at]
<1>1. /\ worker[w].at = "keyed" /\ worker[w] \in Doing
      /\ UNCHANGED <<messages, handles, nextHandle, views, queue, overwritten>>
  BY DEF Unwrap, MessagesInv, Tables
<1>2. a \in DOMAIN messages /\ a \in Nat /\ Referred(a) /\ Holds(w, a)
  BY <1>0, <1>1, WorkerRefers DEF AtWork
<1>3. worker[w] \in [at : {"removed", "keyed", "owned", "shared"}, alloc : Nat, cipher : Ciphers]
  BY <1>1 DEF Doing, Idle
<1>4. \A at \in {"owned", "shared"} : s(at) \in Doing /\ s(at).at = at /\ s(at).alloc = a
  BY <1>0, <1>3 DEF Doing
<1>5. CASE Owners(a) # 1
  <2>1. Turn(w, s("shared"))
    BY <1>0, <1>5 DEF Unwrap
  <2> DEFINE t == s("shared")
  <2>2. t \in Doing /\ t.at = "shared" /\ t.alloc = a /\ Turn(w, t)
    BY <1>4, <2>1
  <2> HIDE DEF t
  <2> QED BY <1>1, <1>2, <2>2, TurnKeeps
<1>6. CASE Owners(a) = 1
  <2> DEFINE t == s("owned")
  <2>1. t \in Doing /\ t.at = "owned" /\ t.alloc = a /\ Turn(w, t)
    BY <1>0, <1>4, <1>6 DEF Unwrap
  <2> HIDE DEF t
  <2>2. /\ worker'[w] = t /\ worker' \in [Workers -> Doing]
        /\ \A u \in Workers : u # w => worker'[u] = worker[u]
    BY <2>1, TurnGives
  <2>3. /\ \A h \in DOMAIN handles : handles[h] # a
        /\ \A v \in DOMAIN views : views[v] # a
        /\ \A u \in Workers : Holds(u, a) => u = w
    BY <1>2, <1>6, OnlyOwner
  <2>4. Tables'
    <3>1. \A u \in Workers : worker'[u].at \in AtWork => worker'[u].alloc \in DOMAIN messages
      BY <1>2, <2>1, <2>2 DEF MessagesInv, Tables, AtWork
    <3> QED BY <1>1, <2>2, <3>1 DEF MessagesInv, Tables
  <2>5. ~Referred(a)'
    <3>1. \A u \in Workers : u # w => ~Holds(u, a)'
      BY <2>2, <2>3 DEF Holds
    <3>2. ~Holds(w, a)'
      BY <2>1, <2>2 DEF Holds
    <3> QED BY <1>1, <2>3, <3>1, <3>2 DEF Referred
  <2>6. \A b : Referred(b)' => Referred(b)
    BY <1>1, <2>1, <2>2 DEF Referred, Holds
  <2>7. \A b : \A u \in Workers : OwnedBy(u, b)' => OwnedBy(u, b) \/ (u = w /\ b = a)
    BY <2>1, <2>2 DEF OwnedBy
  <2>8. \A u \in Workers : ~OwnedBy(u, a)
    BY <1>2 DEF MessagesInv, OwnedAlone
  <2>9. OwnedAlone'
    <3> SUFFICES ASSUME NEW u \in Workers, NEW b \in DOMAIN messages, OwnedBy(u, b)'
                 PROVE  ~Referred(b)' /\ \A x \in Workers : OwnedBy(x, b)' => x = u
      BY <1>1 DEF OwnedAlone
    <3>1. CASE b = a
      BY <2>5, <2>7, <2>8, <3>1
    <3>2. CASE b # a
      <4>1. OwnedBy(u, b) /\ \A x \in Workers : OwnedBy(x, b)' => OwnedBy(x, b)
        BY <2>7, <3>2
      <4>2. ~Referred(b) /\ \A x \in Workers : OwnedBy(x, b) => x = u
        BY <4>1 DEF MessagesInv, OwnedAlone
      <4> QED BY <2>6, <4>1, <4>2
    <3> QED BY <3>1, <3>2
  <2>10. OverwrittenGone'
    <3>1. a \notin overwritten
      BY <1>2 DEF MessagesInv, OverwrittenGone
    <3>2. \A b : SharedFrames(b)' \subseteq SharedFrames(b)
      BY <1>1, <2>1, <2>2 DEF SharedFrames
    <3> QED BY <1>1, <2>6, <2>7, <3>1, <3>2 DEF MessagesInv, OverwrittenGone
  <2> QED BY <2>4, <2>9, <2>10 DEF MessagesInv
<1> QED BY <1>5, <1>6

LEMMA DecryptOwnedKeeps ==
    ASSUME MessagesInv, NEW w \in Workers, DecryptOwned(w)
    PROVE  MessagesInv'
<1> DEFINE a == worker[w].alloc
<1>1. /\ worker[w].at = "owned" /\ Turn(w, Idle)
      /\ UNCHANGED <<messages, handles, nextHandle, views, queue>>
  BY DEF DecryptOwned
<1>2. a \in DOMAIN messages /\ OwnedBy(w, a)
  BY <1>1, WorkerRefers DEF AtWork, OwnedBy
<1>3. Idle.at \notin AtWork
  BY IdleGives DEF AtWork
<1>4. CASE overwritten' = overwritten
  BY <1>1, <1>3, <1>4, IdleGives, TurnKeeps
<1>5. CASE InPlace(w) /\ overwritten' = overwritten \cup {a}
  <2>1. SharedFrames(a) = {}
    BY <1>5 DEF InPlace
  <2> HIDE DEF a
  <2>2. /\ worker'[w] = Idle /\ worker' \in [Workers -> Doing]
        /\ \A u \in Workers : u # w => worker'[u] = worker[u]
    BY <1>1, IdleGives, TurnGives
  <2>3. Tables'
    <3>1. \A u \in Workers : worker'[u].at \in AtWork => worker'[u].alloc \in DOMAIN messages
      BY <1>3, <2>2 DEF MessagesInv, Tables
    <3> QED BY <1>1, <1>2, <1>5, <2>2, <3>1 DEF MessagesInv, Tables
  <2>4. \A b : Referred(b)' => Referred(b)
    BY <1>1, <2>2, IdleGives DEF Referred, Holds
  <2>5. \A b : \A u \in Workers : OwnedBy(u, b)' => OwnedBy(u, b) /\ u # w
    BY <2>2, IdleGives DEF OwnedBy
  <2>6. \A b : SharedFrames(b)' \subseteq SharedFrames(b)
    BY <1>1, <2>2, IdleGives DEF SharedFrames
  <2>7. /\ ~Referred(a) /\ \A u \in Workers : OwnedBy(u, a) => u = w
    BY <1>2 DEF MessagesInv, OwnedAlone
  <2>8. OwnedAlone'
    BY <1>1, <2>4, <2>5 DEF MessagesInv, OwnedAlone
  <2>9. OverwrittenGone'
    <3> SUFFICES ASSUME NEW b \in overwritten'
                 PROVE  /\ ~Referred(b)' /\ SharedFrames(b)' = {}
                        /\ \A u \in Workers : ~OwnedBy(u, b)'
      BY DEF OverwrittenGone
    <3>1. CASE b = a
      BY <2>1, <2>4, <2>5, <2>6, <2>7, <3>1
    <3>2. CASE b \in overwritten
      BY <2>4, <2>5, <2>6, <3>2 DEF MessagesInv, OverwrittenGone
    <3> QED BY <1>5, <3>1, <3>2
  <2> QED BY <2>3, <2>8, <2>9 DEF MessagesInv
<1> QED BY <1>4, <1>5 DEF DecryptOwned
-----------------------------------------------------------------------------
(* The tables: steps that leave the threads and the queue alone. *)
LEMMA StillSame ==
    ASSUME UNCHANGED <<worker, queue>>
    PROVE  /\ \A a : \A w \in Workers : OwnedBy(w, a)' <=> OwnedBy(w, a)
           /\ \A a : \A w \in Workers : Holds(w, a)' <=> Holds(w, a)
           /\ \A a : SharedFrames(a)' = SharedFrames(a)
BY DEF OwnedBy, Holds, SharedFrames

LEMMA TablesKeep ==
    ASSUME MessagesInv, UNCHANGED <<messages, worker, queue, overwritten>>,
           nextHandle' \in Nat \ {0}, DOMAIN handles' \subseteq 1..(nextHandle' - 1),
           DOMAIN views' \subseteq 1..MaxViews,
           \A h \in DOMAIN handles' : handles'[h] \in DOMAIN messages /\ Referred(handles'[h]),
           \A v \in DOMAIN views' : views'[v] \in DOMAIN messages /\ Referred(views'[v])
    PROVE  MessagesInv'
<1>1. Tables'
  BY DEF MessagesInv, Tables
<1>2. /\ \A a : \A w \in Workers : OwnedBy(w, a)' <=> OwnedBy(w, a)
      /\ \A a : \A w \in Workers : Holds(w, a)' <=> Holds(w, a)
      /\ \A a : SharedFrames(a)' = SharedFrames(a)
  BY StillSame
<1>3. \A a : Referred(a)' => Referred(a)
  BY <1>2 DEF Referred
<1>4. OwnedAlone' /\ OverwrittenGone'
  BY <1>2, <1>3, ReferencesFollow
<1> QED BY <1>1, <1>4 DEF MessagesInv

LEMMA ViewRefers ==
    ASSUME MessagesInv, NEW v \in DOMAIN views
    PROVE  views[v] \in DOMAIN messages /\ Referred(views[v])
BY DEF MessagesInv, Tables, Referred

LEMMA RetainKeeps ==
    ASSUME MessagesInv, NEW h \in DOMAIN handles, Retain(h)
    PROVE  MessagesInv'
<1>1. /\ handles' = With(handles, nextHandle, handles[h]) /\ nextHandle' = nextHandle + 1
      /\ UNCHANGED <<messages, views, worker, queue, overwritten>>
  BY DEF Retain, InsertHandle
<1>2. /\ DOMAIN handles' = DOMAIN handles \cup {nextHandle} /\ handles'[nextHandle] = handles[h]
      /\ \A g \in DOMAIN handles : g # nextHandle => handles'[g] = handles[g]
  BY <1>1 DEF With
<1>3. /\ nextHandle \in Nat \ {0}
      /\ DOMAIN handles \subseteq 1..(nextHandle - 1) /\ DOMAIN views \subseteq 1..MaxViews
  BY DEF MessagesInv, Tables
<1>4. nextHandle' \in Nat \ {0} /\ DOMAIN handles' \subseteq 1..(nextHandle' - 1)
  <2>0. nextHandle # 0
    BY <1>3
  <2>1. \A g \in DOMAIN handles' : g \in 1..nextHandle
    BY <1>2, <1>3, <2>0
  <2> QED BY <1>1, <1>3, <2>1
<1>5. \A g \in DOMAIN handles' : handles'[g] \in DOMAIN messages /\ Referred(handles'[g])
  BY <1>2, HandleRefers
<1> QED BY <1>1, <1>3, <1>4, <1>5, ViewRefers, TablesKeep

LEMMA ReleaseKeeps ==
    ASSUME MessagesInv, NEW h \in DOMAIN handles, Release(h)
    PROVE  MessagesInv'
<1>1. /\ DOMAIN handles' \subseteq DOMAIN handles
      /\ \A g \in DOMAIN handles' : handles'[g] = handles[g]
      /\ UNCHANGED <<messages, nextHandle, views, worker, queue, overwritten>>
  BY DEF Release, RemoveHandle
<1>2. /\ nextHandle \in Nat \ {0}
      /\ DOMAIN handles \subseteq 1..(nextHandle - 1) /\ DOMAIN views \subseteq 1..MaxViews
  BY DEF MessagesInv, Tables
<1>3. \A g \in DOMAIN handles' : handles'[g] \in DOMAIN messages /\ Referred(handles'[g])
  BY <1>1, HandleRefers
<1> QED BY <1>1, <1>2, <1>3, ViewRefers, TablesKeep

LEMMA ClearKeeps ==
    ASSUME MessagesInv, Clear
    PROVE  MessagesInv'
<1>1. /\ DOMAIN handles' = {}
      /\ UNCHANGED <<messages, nextHandle, views, worker, queue, overwritten>>
  BY DEF Clear
<1>2. nextHandle \in Nat \ {0} /\ DOMAIN views \subseteq 1..MaxViews
  BY DEF MessagesInv, Tables
<1> QED BY <1>1, <1>2, ViewRefers, TablesKeep

LEMMA ExportKeeps ==
    ASSUME MessagesInv, NEW h \in DOMAIN handles, Export(h)
    PROVE  MessagesInv'
<1>1. PICK v \in (1 .. MaxViews) \ DOMAIN views :
         /\ views' = With(views, v, handles[h])
         /\ UNCHANGED <<messages, handles, nextHandle, worker, queue, overwritten>>
  BY DEF Export
<1>2. /\ DOMAIN views' = DOMAIN views \cup {v} /\ views'[v] = handles[h]
      /\ \A u \in DOMAIN views : u # v => views'[u] = views[u]
  BY <1>1 DEF With
<1>3. /\ nextHandle \in Nat \ {0}
      /\ DOMAIN handles \subseteq 1..(nextHandle - 1) /\ DOMAIN views' \subseteq 1..MaxViews
  BY <1>2 DEF MessagesInv, Tables
<1>4. \A u \in DOMAIN views' : views'[u] \in DOMAIN messages /\ Referred(views'[u])
  BY <1>2, HandleRefers, ViewRefers
<1> QED BY <1>1, <1>3, <1>4, HandleRefers, TablesKeep

LEMMA FreeViewKeeps ==
    ASSUME MessagesInv, NEW v \in DOMAIN views, FreeView(v)
    PROVE  MessagesInv'
<1>1. /\ DOMAIN views' \subseteq DOMAIN views /\ \A u \in DOMAIN views' : views'[u] = views[u]
      /\ UNCHANGED <<messages, handles, nextHandle, worker, queue, overwritten>>
  BY DEF FreeView
<1>2. /\ nextHandle \in Nat \ {0}
      /\ DOMAIN handles \subseteq 1..(nextHandle - 1) /\ DOMAIN views \subseteq 1..MaxViews
  BY DEF MessagesInv, Tables
<1>3. \A u \in DOMAIN views' : views'[u] \in DOMAIN messages /\ Referred(views'[u])
  BY <1>1, ViewRefers
<1> QED BY <1>1, <1>2, <1>3, HandleRefers, TablesKeep

LEMMA PollFrameKeeps ==
    ASSUME MessagesInv, NEW i \in Inputs, Poll(i)
    PROVE  MessagesInv'
<1> DEFINE r == [serializer |-> i.serializer, segmented |-> i.segmented, raced |-> i \in Raced,
                 message |-> Parse(i.serializer, i.wire, i.segmented)]
<1>1. /\ Len(messages) < MaxMessages /\ messages' = Append(messages, r)
      /\ UNCHANGED <<views, worker, queue, overwritten>>
      /\ UNCHANGED <<handles, nextHandle>> \/ InsertHandle(Len(messages'))
  BY DEF Poll
<1>2. r \in Record
  BY DEF Record
<1> HIDE DEF r
<1>3. /\ messages \in Seq(Record)
      /\ nextHandle \in Nat \ {0} /\ DOMAIN handles \subseteq 1..(nextHandle - 1)
      /\ \A h \in DOMAIN handles : handles[h] \in DOMAIN messages
      /\ DOMAIN views \subseteq 1..MaxViews /\ overwritten \subseteq DOMAIN messages
      /\ \A v \in DOMAIN views : views[v] \in DOMAIN messages
      /\ \A w \in Workers : worker[w].at \in AtWork => worker[w].alloc \in DOMAIN messages
  BY DEF MessagesInv, Tables
<1>4. /\ messages' \in Seq(Record) /\ Len(messages') = Len(messages) + 1 /\ Len(messages) \in Nat
      /\ DOMAIN messages = 1..Len(messages) /\ DOMAIN messages' = 1..(Len(messages) + 1)
  BY <1>1, <1>2, <1>3
<1>5. /\ DOMAIN messages \subseteq DOMAIN messages' /\ Len(messages') <= MaxMessages
      /\ Len(messages') \in DOMAIN messages' /\ Len(messages') \notin DOMAIN messages
  BY <1>1, <1>4, MessagesAssumption
<1>6. /\ nextHandle' \in Nat \ {0} /\ DOMAIN handles' \subseteq 1..(nextHandle' - 1)
      /\ \A h \in DOMAIN handles' : \/ h \in DOMAIN handles /\ handles'[h] = handles[h]
                                    \/ handles'[h] = Len(messages')
  <2>1. CASE UNCHANGED <<handles, nextHandle>>
    BY <1>3, <2>1
  <2>2. CASE InsertHandle(Len(messages'))
    <3>1. nextHandle' = nextHandle + 1 /\ DOMAIN handles' = DOMAIN handles \cup {nextHandle}
      BY <2>2 DEF InsertHandle, With
    <3>2. \A h \in DOMAIN handles' : \/ h \in DOMAIN handles /\ handles'[h] = handles[h]
                                     \/ handles'[h] = Len(messages')
      BY <2>2 DEF InsertHandle, With
    <3>3. nextHandle # 0
      BY DEF MessagesInv, Tables
    <3>4. \A h \in DOMAIN handles' : h \in 1..nextHandle
      BY <1>3, <3>1, <3>3
    <3> QED BY <1>3, <3>1, <3>2, <3>4
  <2> QED BY <1>1, <2>1, <2>2
<1>7. Tables'
  <2>1. \A h \in DOMAIN handles' : handles'[h] \in DOMAIN messages'
    BY <1>3, <1>5, <1>6
  <2>2. /\ \A v \in DOMAIN views' : views'[v] \in DOMAIN messages'
        /\ \A w \in Workers : worker'[w].at \in AtWork => worker'[w].alloc \in DOMAIN messages'
        /\ overwritten' \subseteq DOMAIN messages'
    BY <1>1, <1>3, <1>5
  <2> QED BY <1>1, <1>4, <1>5, <1>6, <2>1, <2>2 DEF MessagesInv, Tables
<1>8. /\ \A a : \A w \in Workers : OwnedBy(w, a)' <=> OwnedBy(w, a)
      /\ \A a : \A w \in Workers : Holds(w, a)' <=> Holds(w, a)
      /\ \A a : SharedFrames(a)' = SharedFrames(a)
  BY <1>1, StillSame
<1>9. \A a \in DOMAIN messages : Referred(a)' => Referred(a)
  BY <1>1, <1>5, <1>6, <1>8 DEF Referred
<1>10. \A a \in DOMAIN messages', w \in Workers : a \notin DOMAIN messages => ~OwnedBy(w, a)'
  <2>1. \A a : \A w \in Workers : OwnedBy(w, a) => a \in DOMAIN messages
    BY <1>3 DEF OwnedBy, AtWork
  <2> QED BY <1>8, <2>1
<1>11. OwnedAlone' /\ OverwrittenGone'
  BY <1>1, <1>5, <1>8, <1>9, <1>10, ReferencesFollow
<1> QED BY <1>7, <1>11 DEF MessagesInv

LEMMA MessagesStep ==
    ASSUME MessagesInv, [MessagesNext]_messageVars PROVE MessagesInv'
<1>1. CASE UNCHANGED messageVars
  <2>1. UNCHANGED <<messages, handles, nextHandle, views, worker, queue, overwritten>>
    BY <1>1 DEF messageVars
  <2>2. /\ nextHandle \in Nat \ {0}
        /\ DOMAIN handles \subseteq 1..(nextHandle - 1) /\ DOMAIN views \subseteq 1..MaxViews
    BY DEF MessagesInv, Tables
  <2> QED BY <2>1, <2>2, HandleRefers, ViewRefers, TablesKeep
<1>2. ASSUME NEW i \in Inputs, Poll(i) PROVE MessagesInv'
  BY <1>2, PollFrameKeeps
<1>3. CASE IsolateCall
  <2>1. ASSUME NEW h \in DOMAIN handles, Retain(h) \/ Release(h) \/ Export(h) PROVE MessagesInv'
    BY <2>1, RetainKeeps, ReleaseKeeps, ExportKeeps
  <2>2. ASSUME NEW v \in DOMAIN views, FreeView(v) PROVE MessagesInv'
    BY <2>2, FreeViewKeeps
  <2>3. ASSUME NEW w \in Workers, NEW h \in DOMAIN handles, Borrow(w, h) PROVE MessagesInv'
    BY <2>3, BorrowKeeps
  <2>4. ASSUME NEW w \in Workers, NEW h \in DOMAIN handles, NEW k \in Kinds, NEW s \in Serializers,
               ForwardBegin(w, h, k, s)
        PROVE  MessagesInv'
    BY <2>4, ForwardBeginKeeps
  <2>5. ASSUME NEW w \in Workers, NEW h \in DOMAIN handles, NEW c \in Ciphers, Consume(w, h, c)
        PROVE  MessagesInv'
    BY <2>5, ConsumeKeeps
  <2>6. ASSUME NEW w \in Workers, EndBorrow(w) \/ DecryptShared(w) PROVE MessagesInv'
    BY <2>6, EndsKeep
  <2>7. ASSUME NEW w \in Workers, ForwardEncode(w) \/ ForwardSend(w) PROVE MessagesInv'
    BY <2>7, ForwardEncodeKeeps, ForwardSendKeeps
  <2>8. ASSUME NEW w \in Workers, ResolveKey(w) \/ Unwrap(w) PROVE MessagesInv'
    BY <2>8, ResolveKeyKeeps, UnwrapKeeps
  <2>9. ASSUME NEW w \in Workers, DecryptOwned(w) PROVE MessagesInv'
    BY <2>9, DecryptOwnedKeeps
  <2>10. CASE Flush
    BY <2>10, FlushKeeps
  <2>11. CASE Clear
    BY <2>11, ClearKeeps
  <2> QED BY <1>3, <2>1, <2>2, <2>3, <2>4, <2>5, <2>6, <2>7, <2>8, <2>9, <2>10, <2>11
          DEF IsolateCall
<1> QED BY <1>1, <1>2, <1>3 DEF MessagesNext

(* Decryption in the receive buffer is invisible to everybody else, for    *)
(* any frames and any number of threads, handles, views and forwards: once *)
(* the buffer of a message was overwritten, no handle, view or running     *)
(* call refers to the message and no frame on its way out has its bytes.   *)
THEOREM NeverOverwrittenHolds == MessagesSpec => []NeverOverwritten
<1>1. MessagesInv => NeverOverwritten
  <2> SUFFICES ASSUME MessagesInv PROVE NeverOverwritten
    OBVIOUS
  <2>1. \A v \in DOMAIN views : v <= MaxViews
    BY MessagesAssumption DEF MessagesInv, Tables
  <2>2. MessagesTypeOK
    BY <2>1 DEF MessagesInv, Tables, MessagesTypeOK
  <2>3. \A a \in overwritten : Owners(a) = 0 /\ SharedFrames(a) = {}
    BY NoOwner DEF MessagesInv, OverwrittenGone
  <2> QED BY <2>2, <2>3 DEF NeverOverwritten
<1> QED BY <1>1, MessagesInvInit, MessagesStep, PTL DEF MessagesSpec
-----------------------------------------------------------------------------
(***************************************************************************)
(* MqttStream.  Flattening the channel and adding up the outbound sizes    *)
(* are recursive functions: Iteration shows that they exist, a smallest    *)
(* counterexample what they give.                                          *)
(***************************************************************************)

(* A nonempty set of numbers has a smallest. *)
LEMMA SmallestNumber ==
    ASSUME NEW T \in SUBSET Nat, T # {}
    PROVE  \E m \in T : \A k \in T : m <= k
<1>1. PICK n \in T : TRUE
  OBVIOUS
<1> DEFINE F == {0..k : k \in {j \in T : j <= n}}
<1>2. /\ IsFiniteSet(0..n)
      /\ F \in SUBSET SUBSET (0..n)
      /\ F # {}
  <2>1. IsFiniteSet(0..n)
    BY <1>1, FS_Interval
  <2>2. 0..n \in F
    BY <1>1
  <2>3. ASSUME NEW k \in T, k <= n PROVE 0..k \in SUBSET (0..n)
    BY <1>1, <2>3
  <2> QED BY <2>1, <2>2, <2>3
<1>3. IsWellFoundedOn(StrictSubsetOrdering(0..n), SUBSET (0..n))
  BY <1>2, FS_FiniteSubsetsOfFinite, FS_StrictSubsetOrderingWellFounded
<1>4. PICK s \in F : \A r \in F : <<r, s>> \notin StrictSubsetOrdering(0..n)
  <2> HIDE DEF F
  <2> QED BY <1>2, <1>3, WFMin
<1>5. PICK m \in T : m <= n /\ s = 0..m
  BY <1>4
<1>6. ASSUME NEW k \in T, k < m PROVE FALSE
  <2>1. 0..k \in F
    BY <1>1, <1>5, <1>6
  <2>2. 0..k \subseteq 0..m /\ 0..k # 0..m
    BY <1>5, <1>6
  <2> QED BY <1>2, <1>4, <1>5, <2>1, <2>2 DEF StrictSubsetOrdering
<1> QED BY <1>5, <1>6

(* A function of numbers may be defined step by step. *)
Iterates(f, s0, N, step) == f[0] = s0 /\ \A i \in 1..N : f[i] = step[i][f[i - 1]]

LEMMA Iteration ==
    ASSUME NEW S, NEW s0 \in S, NEW N \in Nat, NEW step \in [Nat \ {0} -> [S -> S]]
    PROVE  \E f \in [0..N -> S] : Iterates(f, s0, N, step)
<1> DEFINE Good(n, f) == f \in [0..n -> S] /\ f[0] = s0
                         /\ \A i \in 1..n : f[i] = step[i][f[i - 1]]
           Amiss == {n \in Nat : ~\E f : Good(n, f)}
<1> SUFFICES ASSUME Amiss # {} PROVE FALSE
  BY DEF Iterates
<1>1. PICK m \in Amiss : \A k \in Amiss : m <= k
  <2> HIDE DEF Amiss
  <2>1. Amiss \in SUBSET Nat
    BY DEF Amiss
  <2> QED BY <2>1, SmallestNumber
<1>2. m # 0
  <2> DEFINE g == [i \in 0..0 |-> s0]
  <2>1. g \in [0..0 -> S] /\ g[0] = s0
    OBVIOUS
  <2>2. 1..0 = {}
    OBVIOUS
  <2> HIDE DEF g
  <2>3. Good(0, g)
    BY <2>1, <2>2
  <2> QED BY <2>3
<1>3. m \in Nat /\ m - 1 \in Nat /\ m - 1 \notin Amiss
  <2>1. m \in Nat
    BY <1>1
  <2> HIDE DEF Amiss
  <2> QED BY <1>1, <1>2, <2>1
<1>4. PICK f : Good(m - 1, f)
  BY <1>3
<1> DEFINE g == [i \in 0..m |-> IF i = m THEN step[m][f[m - 1]] ELSE f[i]]
<1>5. Good(m, g)
  <2>1. f[m - 1] \in S
    BY <1>3, <1>4
  <2>2. step[m][f[m - 1]] \in S
    BY <1>2, <1>3, <2>1
  <2>3. ASSUME NEW i \in 0..m, i # m PROVE i \in 0..(m - 1) /\ g[i] = f[i]
    BY <1>3, <2>3
  <2>4. g[m] = step[m][f[m - 1]]
    BY <1>3
  <2>5. g \in [0..m -> S]
    BY <1>4, <2>2, <2>3, <2>4
  <2>6. g[0] = s0
    BY <1>2, <1>3, <1>4, <2>3
  <2>7. ASSUME NEW i \in 1..m PROVE g[i] = step[i][g[i - 1]]
    <3>1. i - 1 \in 0..m /\ i - 1 # m
      BY <1>3
    <3>2. g[i - 1] = f[i - 1]
      BY <2>3, <3>1
    <3>3. CASE i = m
      BY <2>4, <3>2, <3>3
    <3>4. CASE i # m
      <4>1. i \in 1..(m - 1) /\ g[i] = f[i]
        BY <1>3, <2>3, <3>4
      <4> HIDE DEF g
      <4> QED BY <1>4, <4>1, <3>2
    <3> QED BY <3>3, <3>4
  <2> HIDE DEF g
  <2> QED BY <2>5, <2>6, <2>7
<1> QED BY <1>1, <1>5

ByteStrings == Seq(Nat)

(* Concatenation of byte strings. *)
LEMMA Concats ==
    /\ \A x, y \in ByteStrings : x \o y \in ByteStrings /\ Len(x \o y) = Len(x) + Len(y)
    /\ \A x, y, z \in ByteStrings : (x \o y) \o z = x \o (y \o z)
    /\ \A x \in ByteStrings : x \o <<>> = x /\ <<>> \o x = x
    /\ <<>> \in ByteStrings
<1>1. <<>> \in ByteStrings
  BY DEF ByteStrings
<1>2. \A x, y \in ByteStrings : x \o y \in ByteStrings /\ Len(x \o y) = Len(x) + Len(y)
  BY ConcatProperties DEF ByteStrings
<1>3. \A x, y, z \in ByteStrings : (x \o y) \o z = x \o (y \o z)
  BY SMTT(30), ConcatAssociative DEF ByteStrings
<1>4. \A x \in ByteStrings : x \o <<>> = x /\ <<>> \o x = x
  BY ConcatEmptySeq DEF ByteStrings
<1> QED BY <1>1, <1>2, <1>3, <1>4

(* A byte string cut in two. *)
LEMMA Cut ==
    ASSUME NEW x \in ByteStrings, NEW n \in 0..Len(x)
    PROVE  /\ SubSeq(x, 1, n) \in ByteStrings /\ SubSeq(x, n + 1, Len(x)) \in ByteStrings
           /\ Len(SubSeq(x, 1, n)) = n
           /\ x = SubSeq(x, 1, n) \o SubSeq(x, n + 1, Len(x))
<1>1. x \in Seq(Nat) /\ Len(x) \in Nat /\ n \in Nat /\ n <= Len(x)
  BY DEF ByteStrings
<1>2. SubSeq(x, 1, n) \o SubSeq(x, n + 1, Len(x)) = SubSeq(x, 1, Len(x))
  <2>1. 1 \in 1..(Len(x) + 1) /\ n \in (1 - 1)..Len(x) /\ Len(x) \in n..Len(x)
    BY <1>1
  <2> QED BY <1>1, <2>1, ConcatAdjacentSubSeq
<1>3. SubSeq(x, 1, Len(x)) = x
  BY <1>1, SubSeqFull
<1>4. SubSeq(x, 1, n) \in Seq(Nat) /\ Len(SubSeq(x, 1, n)) = n
  BY <1>1
<1>5. SubSeq(x, n + 1, Len(x)) \in Seq(Nat)
  BY <1>1
<1> QED BY <1>2, <1>3, <1>4, <1>5 DEF ByteStrings

(* FlattenSeq, step by step. *)
FlatOf(f, ss) == f[0] = <<>> /\ \A i \in 1..Len(ss) : f[i] = f[i - 1] \o ss[i]

LEMMA FlatSteps ==
    ASSUME NEW ss \in Seq(ByteStrings)
    PROVE  \E f \in [0..Len(ss) -> ByteStrings] : FlatOf(f, ss) /\ FlattenSeq(ss) = f[Len(ss)]
<1> DEFINE N == Len(ss)
           Nth(i) == IF i <= N THEN ss[i] ELSE <<>>
           step == [i \in Nat \ {0} |-> [x \in ByteStrings |-> x \o Nth(i)]]
<1>1. N \in Nat /\ \A i \in 1..N : ss[i] \in ByteStrings
  OBVIOUS
<1>2. step \in [Nat \ {0} -> [ByteStrings -> ByteStrings]]
  <2>1. \A i \in Nat \ {0} : Nth(i) \in ByteStrings
    BY <1>1, Concats
  <2> HIDE DEF Nth
  <2> QED BY <2>1, Concats
<1>3. \A i \in 1..N, x \in ByteStrings : step[i][x] = x \o ss[i]
  <2>1. \A i \in 1..N : i \in Nat \ {0} /\ Nth(i) = ss[i]
    BY <1>1
  <2> HIDE DEF Nth, N
  <2> QED BY <2>1
<1> HIDE DEF step
<1>4. PICK f \in [0..N -> ByteStrings] : Iterates(f, <<>>, N, step)
  <2> HIDE DEF N
  <2> QED BY <1>1, <1>2, Concats, Iteration
<1>5. FlatOf(f, ss)
  <2>1. ASSUME NEW i \in 1..N PROVE f[i] = f[i - 1] \o ss[i]
    <3>1. i - 1 \in 0..N
      BY <1>1
    <3> QED BY <1>1, <1>3, <1>4, <3>1 DEF Iterates
  <2> QED BY <1>4, <2>1 DEF FlatOf, Iterates
<1>6. CASE N = 0
  <2>1. FlattenSeq(ss) = ss /\ ss = <<>>
    BY <1>6 DEF FlattenSeq
  <2> QED BY <1>4, <1>5, <1>6, <2>1 DEF FlatOf
<1>7. CASE N # 0
  <2> DEFINE Is(h) == h = [i \in 1..N |-> IF i = 1 THEN ss[i] ELSE h[i - 1] \o ss[i]]
             h0 == [i \in 1..N |-> f[i]]
             g == CHOOSE h : Is(h)
  <2>1. Is(h0)
    <3>1. ASSUME NEW i \in 1..N
          PROVE  h0[i] = IF i = 1 THEN ss[i] ELSE h0[i - 1] \o ss[i]
      <4>1. f[i] = f[i - 1] \o ss[i]
        BY <1>5 DEF FlatOf
      <4>2. CASE i = 1
        <5>1. f[i - 1] = <<>>
          BY <1>5, <4>2 DEF FlatOf
        <5> QED BY <1>1, <4>1, <4>2, <5>1, Concats
      <4>3. CASE i # 1
        <5>1. i - 1 \in 1..N
          BY <1>1, <4>3
        <5> QED BY <4>1, <4>3, <5>1
      <4> QED BY <4>2, <4>3
    <3> HIDE DEF N
    <3> QED BY <3>1
  <2>2. Is(g)
    <3> HIDE DEF Is, h0
    <3> QED BY <2>1
  <2>3. FlattenSeq(ss) = g[N]
    BY <1>7 DEF FlattenSeq
  <2>4. \A i \in 1..N : g[i] = IF i = 1 THEN ss[i] ELSE g[i - 1] \o ss[i]
    <3> HIDE DEF g
    <3> QED BY <2>2
  <2> HIDE DEF g, N, Is
  <2> DEFINE Amiss == {i \in 1..N : g[i] # f[i]}
  <2>5. Amiss = {}
    <3> SUFFICES ASSUME Amiss # {} PROVE FALSE
      OBVIOUS
    <3>1. Amiss \in SUBSET Nat
      BY <1>1
    <3>2. PICK m \in Amiss : \A k \in Amiss : m <= k
      <4> HIDE DEF Amiss
      <4> QED BY <3>1, SmallestNumber
    <3>3. m \in 1..N /\ f[m] = f[m - 1] \o ss[m] /\ g[m] # f[m]
      BY <1>5, <3>2 DEF FlatOf, N
    <3>4. CASE m = 1
      <4>1. f[m - 1] = <<>>
        BY <1>5, <3>4 DEF FlatOf
      <4> QED BY <1>1, <2>4, <3>3, <3>4, <4>1, Concats
    <3>5. CASE m # 1
      <4>1. m - 1 \in 1..N /\ m - 1 \notin Amiss
        BY <1>1, <3>1, <3>2, <3>3, <3>5
      <4> QED BY <2>4, <3>3, <3>5, <4>1
    <3> QED BY <3>4, <3>5
  <2>6. g[N] = f[N]
    BY <1>1, <1>7, <2>5
  <2> QED BY <1>5, <2>3, <2>6 DEF N
<1> QED BY <1>6, <1>7

(* Two ways of flattening with the same first lists agree on them. *)
LEMMA FlatAgree ==
    ASSUME NEW ss \in Seq(ByteStrings), NEW tt \in Seq(ByteStrings), Len(ss) <= Len(tt),
           \A i \in 1..Len(ss) : ss[i] = tt[i],
           NEW f, FlatOf(f, ss), NEW g, FlatOf(g, tt)
    PROVE  \A i \in 0..Len(ss) : f[i] = g[i]
<1> DEFINE Amiss == {i \in 0..Len(ss) : f[i] # g[i]}
<1> SUFFICES ASSUME Amiss # {} PROVE FALSE
  OBVIOUS
<1>1. Amiss \in SUBSET Nat /\ Len(ss) \in Nat /\ Len(tt) \in Nat
  OBVIOUS
<1>2. PICK m \in Amiss : \A k \in Amiss : m <= k
  <2> HIDE DEF Amiss
  <2> QED BY <1>1, SmallestNumber
<1>3. m # 0
  BY <1>2 DEF FlatOf
<1>4. m \in 1..Len(ss) /\ m \in 1..Len(tt) /\ m - 1 \in 0..Len(ss) /\ m - 1 \notin Amiss
  BY <1>1, <1>2, <1>3
<1> QED BY <1>2, <1>4 DEF FlatOf

(* What FlattenSeq gives. *)
LEMMA FlatEmpty == FlattenSeq(<<>>) = <<>>
BY DEF FlattenSeq

LEMMA FlatType == ASSUME NEW ss \in Seq(ByteStrings) PROVE FlattenSeq(ss) \in ByteStrings
BY FlatSteps

LEMMA FlatAppend ==
    ASSUME NEW ss \in Seq(ByteStrings), NEW x \in ByteStrings
    PROVE  FlattenSeq(Append(ss, x)) = FlattenSeq(ss) \o x
<1> DEFINE tt == Append(ss, x)
<1>1. /\ tt \in Seq(ByteStrings) /\ Len(tt) = Len(ss) + 1 /\ Len(ss) \in Nat
      /\ tt[Len(tt)] = x /\ \A i \in 1..Len(ss) : ss[i] = tt[i]
  OBVIOUS
<1> HIDE DEF tt
<1>2. PICK f \in [0..Len(ss) -> ByteStrings] : FlatOf(f, ss) /\ FlattenSeq(ss) = f[Len(ss)]
  BY FlatSteps
<1>3. PICK g \in [0..Len(tt) -> ByteStrings] : FlatOf(g, tt) /\ FlattenSeq(tt) = g[Len(tt)]
  BY <1>1, FlatSteps
<1>4. f[Len(ss)] = g[Len(ss)]
  BY <1>1, <1>2, <1>3, FlatAgree
<1>5. g[Len(tt)] = g[Len(ss)] \o tt[Len(tt)]
  <2>1. Len(tt) \in 1..Len(tt) /\ Len(tt) - 1 = Len(ss)
    BY <1>1
  <2> QED BY <1>3, <2>1 DEF FlatOf
<1> QED BY <1>1, <1>2, <1>3, <1>4, <1>5 DEF tt

LEMMA FlatSplit ==
    ASSUME NEW ss \in Seq(ByteStrings), NEW n \in 0..Len(ss)
    PROVE  FlattenSeq(ss)
             = FlattenSeq(SubSeq(ss, 1, n)) \o FlattenSeq(SubSeq(ss, n + 1, Len(ss)))
<1> DEFINE N == Len(ss)
           aa == SubSeq(ss, 1, n)
           bb == SubSeq(ss, n + 1, N)
<1>1. /\ N \in Nat /\ n \in Nat /\ n <= N
      /\ aa \in Seq(ByteStrings) /\ Len(aa) = n /\ \A i \in 1..n : aa[i] = ss[i]
      /\ bb \in Seq(ByteStrings) /\ Len(bb) = N - n /\ \A i \in 1..(N - n) : bb[i] = ss[n + i]
  OBVIOUS
<1> HIDE DEF aa, bb
<1>2. PICK f \in [0..N -> ByteStrings] : FlatOf(f, ss) /\ FlattenSeq(ss) = f[N]
  BY FlatSteps
<1>3. PICK a \in [0..n -> ByteStrings] : FlatOf(a, aa) /\ FlattenSeq(aa) = a[n]
  BY <1>1, FlatSteps
<1>4. PICK b \in [0..(N - n) -> ByteStrings] : FlatOf(b, bb) /\ FlattenSeq(bb) = b[N - n]
  BY <1>1, FlatSteps
<1>5. a[n] = f[n]
  BY SMTT(30), <1>1, <1>2, <1>3, FlatAgree
<1> DEFINE Amiss == {i \in 0..(N - n) : f[n + i] # f[n] \o b[i]}
<1>6. Amiss = {}
  <2> SUFFICES ASSUME Amiss # {} PROVE FALSE
    OBVIOUS
  <2>1. Amiss \in SUBSET Nat
    BY <1>1
  <2>2. PICK m \in Amiss : \A k \in Amiss : m <= k
    <3> HIDE DEF Amiss
    <3> QED BY <2>1, SmallestNumber
  <2>3. m \in 0..(N - n) /\ f[n + m] # f[n] \o b[m]
    BY <2>2
  <2>4. f[n] \in ByteStrings
    BY <1>1, <1>2
  <2>5. CASE m = 0
    <3>1. b[m] = <<>> /\ n + m = n
      BY <1>1, <1>4, <2>5 DEF FlatOf
    <3> QED BY <2>3, <2>4, <3>1, Concats
  <2>6. CASE m # 0
    <3>1. /\ m \in 1..(N - n) /\ n + m \in 1..N /\ m - 1 \in 0..(N - n)
          /\ (n + m) - 1 = n + (m - 1) /\ m \in Nat /\ m - 1 \in Nat /\ ~(m <= m - 1)
      <4> HIDE DEF Amiss, N
      <4> QED BY <1>1, <2>3, <2>6
    <3>7. m - 1 \notin Amiss
      <4> HIDE DEF Amiss
      <4> QED BY <2>2, <3>1
    <3>2. f[n + m] = f[n + (m - 1)] \o ss[n + m]
      BY <1>2, <3>1 DEF FlatOf
    <3>3. f[n + (m - 1)] = f[n] \o b[m - 1]
      BY <3>1, <3>7
    <3>4. b[m] = b[m - 1] \o ss[n + m]
      BY <1>1, <1>4, <3>1 DEF FlatOf
    <3>5. b[m - 1] \in ByteStrings /\ ss[n + m] \in ByteStrings
      <4> HIDE DEF Amiss
      <4> QED BY <1>4, <3>1
    <3> HIDE DEF Amiss
    <3>8. (f[n] \o b[m - 1]) \o ss[n + m] = f[n] \o (b[m - 1] \o ss[n + m])
      BY <2>4, <3>5, Concats
    <3> QED BY <2>3, <3>2, <3>3, <3>4, <3>8
  <2> QED BY <2>5, <2>6
<1>7. N - n \in 0..(N - n) /\ n + (N - n) = N
  BY <1>1
<1>8. f[N] = f[n] \o b[N - n]
  BY <1>6, <1>7
<1> QED BY <1>2, <1>3, <1>4, <1>5, <1>8 DEF aa, bb

(* Sum, step by step. *)
SumOf(f, s) == f[0] = 0 /\ \A i \in 1..Len(s) : f[i] = f[i - 1] + s[i]

LEMMA SumSteps ==
    ASSUME NEW s \in Seq(Nat)
    PROVE  \E f \in [0..Len(s) -> Nat] : SumOf(f, s) /\ Sum(s) = f[Len(s)]
<1> DEFINE N == Len(s)
           Nth(i) == IF i <= N THEN s[i] ELSE 0
           step == [i \in Nat \ {0} |-> [x \in Nat |-> x + Nth(i)]]
<1>1. N \in Nat /\ \A i \in 1..N : s[i] \in Nat
  OBVIOUS
<1>2. step \in [Nat \ {0} -> [Nat -> Nat]]
  <2>1. \A i \in Nat \ {0} : Nth(i) \in Nat
    BY <1>1
  <2> HIDE DEF Nth
  <2> QED BY <2>1
<1>3. \A i \in 1..N, x \in Nat : step[i][x] = x + s[i]
  <2>1. \A i \in 1..N : i \in Nat \ {0} /\ Nth(i) = s[i]
    BY <1>1
  <2> HIDE DEF Nth, N
  <2> QED BY <2>1
<1> HIDE DEF step
<1>4. PICK f \in [0..N -> Nat] : Iterates(f, 0, N, step)
  <2> HIDE DEF N
  <2> QED BY <1>1, <1>2, Iteration
<1>5. SumOf(f, s)
  <2>1. ASSUME NEW i \in 1..N PROVE f[i] = f[i - 1] + s[i]
    <3>1. i - 1 \in 0..N
      BY <1>1
    <3> QED BY <1>1, <1>3, <1>4, <3>1 DEF Iterates
  <2> QED BY <1>4, <2>1 DEF SumOf, Iterates
<1> DEFINE Is(h) == h = [k \in 0..N |-> IF k = 0 THEN 0 ELSE h[k - 1] + s[k]]
           g == CHOOSE h : Is(h)
<1>6. Is(f)
  <2>1. ASSUME NEW k \in 0..N PROVE f[k] = IF k = 0 THEN 0 ELSE f[k - 1] + s[k]
    BY <1>1, <1>5 DEF SumOf
  <2> HIDE DEF N
  <2> QED BY <1>4, <2>1
<1>7. Is(g)
  <2> HIDE DEF Is
  <2> QED BY <1>6
<1>8. Sum(s) = g[N]
  BY DEF Sum
<1> HIDE DEF g
<1>9. g \in [0..N -> Nat] /\ SumOf(g, s)
  <2>1. /\ \A k \in 0..N : g[k] = IF k = 0 THEN 0 ELSE g[k - 1] + s[k]
        /\ DOMAIN g = 0..N /\ g = [k \in 0..N |-> g[k]]
    <3> HIDE DEF N
    <3> QED BY <1>7
  <2>2. SumOf(g, s)
    <3>1. 0 \in 0..N /\ \A i \in 1..N : i \in 0..N /\ i # 0
      BY <1>1
    <3> QED BY <2>1, <3>1 DEF SumOf
  <2> DEFINE Amiss == {k \in 0..N : g[k] # f[k]}
  <2>3. Amiss = {}
    <3> SUFFICES ASSUME Amiss # {} PROVE FALSE
      OBVIOUS
    <3>1. Amiss \in SUBSET Nat
      BY <1>1
    <3>2. PICK m \in Amiss : \A k \in Amiss : m <= k
      <4> HIDE DEF Amiss
      <4> QED BY <3>1, SmallestNumber
    <3>3. m # 0
      BY <1>5, <2>2, <3>2 DEF SumOf
    <3>4. m \in Nat /\ m \in 1..N /\ m - 1 \in 0..N /\ ~(m <= m - 1)
      BY <1>1, <3>2, <3>3
    <3>5. m - 1 \notin Amiss
      <4> HIDE DEF Amiss
      <4> QED BY <3>2, <3>4
    <3>6. g[m] # f[m] /\ g[m - 1] = f[m - 1]
      BY <3>2, <3>4, <3>5
    <3> HIDE DEF Amiss
    <3> QED BY <1>5, <2>2, <3>4, <3>6 DEF SumOf
  <2>4. \A k \in 0..N : g[k] \in Nat
    <3>1. \A k \in 0..N : g[k] = f[k]
      BY <2>3
    <3> HIDE DEF N
    <3> QED BY <1>4, <3>1
  <2> HIDE DEF N
  <2> QED BY <2>1, <2>2, <2>4
<1> QED BY <1>8, <1>9 DEF N

(* Sums of lists that are the same but for a first part of weight w. *)
LEMMA SumsAgree ==
    ASSUME NEW s \in Seq(Nat), NEW t \in Seq(Nat), NEW d \in Nat, Len(s) + d <= Len(t),
           \A i \in 1..Len(s) : s[i] = t[d + i],
           NEW f \in [0..Len(s) -> Nat], SumOf(f, s),
           NEW g \in [0..Len(t) -> Nat], SumOf(g, t)
    PROVE  \A i \in 0..Len(s) : g[d + i] = g[d] + f[i]
<1> DEFINE Amiss == {i \in 0..Len(s) : g[d + i] # g[d] + f[i]}
<1> SUFFICES ASSUME Amiss # {} PROVE FALSE
  OBVIOUS
<1>1. Amiss \in SUBSET Nat /\ Len(s) \in Nat /\ Len(t) \in Nat
  OBVIOUS
<1>2. PICK m \in Amiss : \A k \in Amiss : m <= k
  <2> HIDE DEF Amiss
  <2> QED BY <1>1, SmallestNumber
<1>3. g[d] \in Nat
  <2> HIDE DEF Amiss
  <2>1. d \in 0..Len(t)
    BY <1>1
  <2> QED BY <2>1
<1>4. m \in 0..Len(s) /\ g[d + m] # g[d] + f[m]
  BY <1>2
<1>5. m # 0
  <2>1. f[0] = 0
    BY DEF SumOf
  <2> QED BY <1>3, <1>4, <2>1
<1>6. /\ m \in Nat /\ m \in 1..Len(s) /\ m - 1 \in 0..Len(s) /\ ~(m <= m - 1)
      /\ d + m \in 1..Len(t) /\ (d + m) - 1 = d + (m - 1) /\ d + (m - 1) \in 0..Len(t)
  <2> HIDE DEF Amiss
  <2> QED BY <1>1, <1>4, <1>5
<1>7. m - 1 \notin Amiss
  <2> HIDE DEF Amiss
  <2> QED BY <1>2, <1>6
<1>8. g[d + (m - 1)] = g[d] + f[m - 1]
  BY <1>6, <1>7
<1>9. f[m] = f[m - 1] + s[m] /\ g[d + m] = g[d + (m - 1)] + t[d + m]
  <2> HIDE DEF Amiss
  <2> QED BY <1>6 DEF SumOf
<1> HIDE DEF Amiss
<1>10. f[m - 1] \in Nat /\ s[m] \in Nat /\ s[m] = t[d + m]
  <2>1. f[m - 1] \in Nat
    BY <1>6
  <2>2. s[m] \in Nat
    BY <1>1, <1>6, ElementOfSeq
  <2>3. s[m] = t[d + m]
    BY <1>6
  <2> QED BY <2>1, <2>2, <2>3
<1>11. (g[d] + f[m - 1]) + s[m] = g[d] + (f[m - 1] + s[m])
  BY <1>3, <1>10
<1> QED BY <1>4, <1>8, <1>9, <1>10, <1>11

LEMMA SumType == ASSUME NEW s \in Seq(Nat) PROVE Sum(s) \in Nat
<1>1. PICK f \in [0..Len(s) -> Nat] : Sum(s) = f[Len(s)]
  BY SumSteps
<1> QED BY <1>1

LEMMA SumEmpty == Sum(<<>>) = 0
<1>1. <<>> \in Seq(Nat) /\ Len(<<>>) = 0
  OBVIOUS
<1> QED BY <1>1, SumSteps DEF SumOf

LEMMA SumAppend ==
    ASSUME NEW s \in Seq(Nat), NEW n \in Nat PROVE Sum(Append(s, n)) = Sum(s) + n
<1> DEFINE t == Append(s, n)
<1>1. /\ t \in Seq(Nat) /\ Len(t) = Len(s) + 1 /\ Len(s) \in Nat /\ t[Len(t)] = n
      /\ \A i \in 1..Len(s) : s[i] = t[0 + i]
  OBVIOUS
<1> HIDE DEF t
<1>2. PICK f \in [0..Len(s) -> Nat] : SumOf(f, s) /\ Sum(s) = f[Len(s)]
  BY SumSteps
<1>3. PICK g \in [0..Len(t) -> Nat] : SumOf(g, t) /\ Sum(t) = g[Len(t)]
  BY <1>1, SumSteps
<1>4. \A i \in 0..Len(s) : g[0 + i] = g[0] + f[i]
  <2>1. Len(s) + 0 <= Len(t) /\ 0 \in Nat
    BY <1>1
  <2> QED BY <1>1, <1>2, <1>3, <2>1, SumsAgree
<1>5. g[Len(s)] = f[Len(s)]
  <2>1. g[0] = 0
    BY <1>3 DEF SumOf
  <2>2. 0 + Len(s) = Len(s) /\ Len(s) \in 0..Len(s) /\ f[Len(s)] \in Nat
    BY SMTT(30), <1>1
  <2>3. g[0 + Len(s)] = g[0] + f[Len(s)]
    BY <1>4, <2>2
  <2> QED BY <2>1, <2>2, <2>3
<1>6. g[Len(t)] = g[Len(s)] + n
  <2>1. Len(t) \in 1..Len(t) /\ Len(t) - 1 = Len(s)
    BY <1>1
  <2> QED BY <1>1, <1>3, <2>1 DEF SumOf
<1> QED BY <1>2, <1>3, <1>5, <1>6 DEF t

LEMMA SumTail ==
    ASSUME NEW s \in Seq(Nat), s # <<>> PROVE Sum(s) = Head(s) + Sum(Tail(s))
<1> DEFINE t == Tail(s)
<1>1. /\ t \in Seq(Nat) /\ Len(s) = Len(t) + 1 /\ Len(t) \in Nat /\ Head(s) = s[1]
      /\ \A i \in 1..Len(t) : t[i] = s[1 + i]
  OBVIOUS
<1> HIDE DEF t
<1>2. PICK f \in [0..Len(t) -> Nat] : SumOf(f, t) /\ Sum(t) = f[Len(t)]
  BY <1>1, SumSteps
<1>3. PICK g \in [0..Len(s) -> Nat] : SumOf(g, s) /\ Sum(s) = g[Len(s)]
  BY <1>1, SumSteps
<1>4. \A i \in 0..Len(t) : g[1 + i] = g[1] + f[i]
  <2>1. Len(t) + 1 <= Len(s) /\ 1 \in Nat
    BY <1>1
  <2> QED BY <1>1, <1>2, <1>3, <2>1, SumsAgree
<1>5. g[1] = s[1]
  <2>1. 1 \in 1..Len(s) /\ 1 - 1 = 0 /\ s[1] \in Nat
    BY <1>1
  <2>2. g[1] = g[1 - 1] + s[1] /\ g[0] = 0
    BY <1>3, <2>1 DEF SumOf
  <2> QED BY <2>1, <2>2
<1>6. 1 + Len(t) = Len(s) /\ Len(t) \in 0..Len(t)
  BY <1>1
<1> QED BY <1>1, <1>2, <1>3, <1>4, <1>5, <1>6 DEF t

(***************************************************************************)
(* The invariant.  Stream is everything the peer has sent, from what Dart  *)
(* has to what the reader has not read: only the peer adds to it, every    *)
(* other step moves bytes along.                                           *)
(***************************************************************************)
BytesOf(list) == [i \in 1..Len(list) |-> list[i].bytes]
Stream == got \o Available \o hand \o pending \o rest \o FlattenSeq(BytesOf(arrived))
AllThere == Stream = [k \in 1..born |-> k]

(* Where the reader is tells what it holds.                                *)
ReaderPlaces ==
    /\ reader # "send" => hand = <<>>
    /\ rest # <<>> => \/ reader = "store"
                      \/ reader \in {"send", "swap", "notify"} /\ cont = "store"
    /\ mode = "tcp" => /\ pending = <<>> /\ rest = <<>> /\ cont = "read"
                       /\ reader \in {"read", "send", "swap", "notify", "done"}
    /\ \A i \in 1..Len(arrived) : arrived[i].kind # "data" => arrived[i].bytes = <<>>

WriterHolds == writer # "writing" => writing = Nothing

MqttInv == BudgetKept /\ ReaderPlaces /\ WriterHolds /\ AllThere
-----------------------------------------------------------------------------
(* What Dart takes moves along. *)
LEMMA MaxIn ==
    ASSUME NEW N \in Nat, NEW S \in SUBSET (0..N), S # {}
    PROVE  Max(S) \in S
<1> DEFINE T == {N - k : k \in S}
<1>1. T \in SUBSET Nat /\ T # {}
  <2>1. \A k \in S : N - k \in Nat
    OBVIOUS
  <2> QED BY <2>1
<1>2. PICK m \in T : \A k \in T : m <= k
  <2> HIDE DEF T
  <2> QED BY <1>1, SmallestNumber
<1>3. PICK x \in S : m = N - x
  BY <1>2
<1>4. \A y \in S : x >= y
  <2> TAKE y \in S
  <2>1. N - x <= N - y
    BY <1>2, <1>3
  <2>2. x \in 0..N /\ y \in 0..N
    OBVIOUS
  <2> HIDE DEF T
  <2> QED BY <2>1, <2>2
<1> QED BY <1>4 DEF Max

LEMMA FetchedIn ==
    ASSUME chunks \in Seq(ByteStrings)
    PROVE  Fetched \in 0..Len(chunks)
<1> DEFINE S == {k \in 0..Len(chunks) :
                   k = 0 \/ Len(split \o FlattenSeq(SubSeq(chunks, 1, k - 1))) < PollLimit}
<1>1. Len(chunks) \in Nat /\ S \in SUBSET (0..Len(chunks)) /\ 0 \in S
  OBVIOUS
<1>2. Fetched = Max(S)
  BY DEF Fetched
<1> HIDE DEF S
<1> QED BY <1>1, <1>2, MaxIn

LEMMA ReceiveMoves ==
    ASSUME got \in ByteStrings, split \in ByteStrings, chunks \in Seq(ByteStrings),
           PollLimit \in Nat, Receive
    PROVE  /\ got' \in ByteStrings /\ split' \in ByteStrings
           /\ chunks' \in Seq(ByteStrings) /\ Len(chunks') <= Len(chunks)
           /\ (got \o Available)' = got \o Available
<1>1. PICK F : F = Fetched
  OBVIOUS
<1>2. F \in 0..Len(chunks) /\ Len(chunks) \in Nat /\ F \in Nat
  BY <1>1, FetchedIn
<1>3. PICK c1 : c1 = SubSeq(chunks, 1, F)
  OBVIOUS
<1>4. PICK c2 : c2 = SubSeq(chunks, F + 1, Len(chunks))
  OBVIOUS
<1>5. c1 \in Seq(ByteStrings) /\ c2 \in Seq(ByteStrings) /\ Len(c2) <= Len(chunks)
  BY <1>2, <1>3, <1>4
<1>6. FlattenSeq(chunks) = FlattenSeq(c1) \o FlattenSeq(c2)
  BY <1>2, <1>3, <1>4, FlatSplit
<1>7. PICK f1 : f1 = FlattenSeq(c1)
  OBVIOUS
<1>8. PICK f2 : f2 = FlattenSeq(c2)
  OBVIOUS
<1>9. f1 \in ByteStrings /\ f2 \in ByteStrings
  BY <1>5, <1>7, <1>8, FlatType
<1>10. PICK all : all = split \o f1
  OBVIOUS
<1>11. all \in ByteStrings /\ Len(all) \in Nat
  BY <1>9, <1>10, Concats DEF ByteStrings
<1>12. PICK n : n = IF Len(all) < PollLimit THEN Len(all) ELSE PollLimit
  OBVIOUS
<1>13. n \in 0..Len(all)
  BY <1>11, <1>12
<1>14. PICK x : x = SubSeq(all, 1, n)
  OBVIOUS
<1>15. PICK y : y = SubSeq(all, n + 1, Len(all))
  OBVIOUS
<1>16. x \in ByteStrings /\ y \in ByteStrings /\ all = x \o y
  BY <1>11, <1>13, <1>14, <1>15, Cut
<1>17. got' = got \o x /\ split' = y /\ chunks' = c2
  BY <1>1, <1>3, <1>4, <1>7, <1>10, <1>12, <1>14, <1>15 DEF Receive
<1>18. (got \o Available)' = (got \o x) \o (y \o f2)
  BY <1>17, <1>8 DEF Available
<1>19. got \o Available = got \o (split \o (f1 \o f2))
  BY <1>6, <1>7, <1>8 DEF Available
<1>20. split \o (f1 \o f2) = (x \o y) \o f2
  <2>1. split \o (f1 \o f2) = (split \o f1) \o f2
    BY <1>9, Concats
  <2> QED BY <1>10, <1>16, <2>1
<1>21. (x \o y) \o f2 = x \o (y \o f2)
  BY <1>9, <1>16, Concats
<1>22. y \o f2 \in ByteStrings
  BY <1>9, <1>16, Concats
<1>23. (got \o x) \o (y \o f2) = got \o (x \o (y \o f2))
  BY <1>16, <1>22, Concats
<1>24. got' \in ByteStrings
  BY <1>16, <1>17, Concats
<1> QED BY <1>5, <1>16, <1>17, <1>18, <1>19, <1>20, <1>21, <1>23, <1>24

(* What the peer sent and the reader has not read. *)
LEMMA WaitingBytes ==
    ASSUME NEW list \in Seq(Item)
    PROVE  BytesOf(list) \in Seq(ByteStrings) /\ Len(BytesOf(list)) = Len(list)
<1>1. Len(list) \in Nat /\ \A i \in 1..Len(list) : list[i].bytes \in ByteStrings
  <2>1. \A it \in Item : it.bytes \in ByteStrings
    BY DEF Item, ByteStrings
  <2> QED BY <2>1, ElementOfSeq
<1>2. BytesOf(list) \in [1..Len(list) -> ByteStrings]
  BY <1>1 DEF BytesOf
<1> QED BY <1>1, <1>2, LenProperties, IsASeq DEF BytesOf

LEMMA WaitingAppend ==
    ASSUME NEW list \in Seq(Item), NEW it \in Item
    PROVE  FlattenSeq(BytesOf(Append(list, it))) = FlattenSeq(BytesOf(list)) \o it.bytes
<1>1. BytesOf(Append(list, it)) = Append(BytesOf(list), it.bytes)
  <2> DEFINE a == BytesOf(Append(list, it))
             b == Append(BytesOf(list), it.bytes)
  <2>1. /\ a \in Seq(ByteStrings) /\ Len(a) = Len(list) + 1 /\ Len(list) \in Nat
        /\ b \in Seq(ByteStrings) /\ Len(b) = Len(list) + 1
    <3>1. it.bytes \in ByteStrings /\ Append(list, it) \in Seq(Item)
      BY DEF Item, ByteStrings
    <3>4. Len(Append(list, it)) = Len(list) + 1
      OBVIOUS
    <3>2. a \in Seq(ByteStrings) /\ Len(a) = Len(list) + 1
      BY <3>1, <3>4, WaitingBytes
    <3>3. b \in Seq(ByteStrings) /\ Len(b) = Len(list) + 1
      BY <3>1, WaitingBytes, AppendProperties
    <3> QED BY <3>2, <3>3
  <2>2. ASSUME NEW i \in 1..(Len(list) + 1) PROVE a[i] = b[i]
    BY WaitingBytes DEF BytesOf
  <2> HIDE DEF a, b
  <2> QED BY <2>1, <2>2, SeqEqual DEF a, b
<1>2. it.bytes \in ByteStrings
  BY DEF Item, ByteStrings
<1> QED BY <1>1, <1>2, WaitingBytes, FlatAppend

LEMMA WaitingHead ==
    ASSUME NEW list \in Seq(Item), list # <<>>
    PROVE  FlattenSeq(BytesOf(list)) = Head(list).bytes \o FlattenSeq(BytesOf(Tail(list)))
<1> DEFINE a == BytesOf(list)
<1>1. /\ a \in Seq(ByteStrings) /\ Len(a) = Len(list) /\ Len(list) \in Nat /\ 1 <= Len(list)
      /\ a[1] = Head(list).bytes /\ a[1] \in ByteStrings
  BY WaitingBytes DEF BytesOf
<1>2. BytesOf(Tail(list)) = SubSeq(a, 2, Len(a))
  <2> DEFINE b == BytesOf(Tail(list))
             c == SubSeq(a, 2, Len(a))
  <2>1. /\ b \in Seq(ByteStrings) /\ Len(b) = Len(list) - 1
        /\ c \in Seq(ByteStrings) /\ Len(c) = Len(list) - 1
    <3>1. Tail(list) \in Seq(Item) /\ Len(Tail(list)) = Len(list) - 1
      OBVIOUS
    <3>2. b \in Seq(ByteStrings) /\ Len(b) = Len(list) - 1
      BY <3>1, WaitingBytes
    <3>3. c \in Seq(ByteStrings) /\ Len(c) = Len(list) - 1
      <4> HIDE DEF a
      <4> QED BY <1>1
    <3> QED BY <3>2, <3>3
  <2>2. ASSUME NEW i \in 1..(Len(list) - 1) PROVE b[i] = c[i]
    <3>1. /\ Tail(list)[i] = list[i + 1] /\ Len(Tail(list)) = Len(list) - 1
          /\ i + 1 \in 1..Len(list)
      OBVIOUS
    <3>2. b[i] = list[i + 1].bytes
      BY <3>1 DEF BytesOf
    <3>3. a[i + 1] = list[i + 1].bytes
      BY <3>1 DEF BytesOf
    <3>4. c[i] = a[i + 1]
      <4> HIDE DEF a
      <4> QED BY <1>1, <3>1
    <3> QED BY <3>2, <3>3, <3>4
  <2> HIDE DEF b, c
  <2> QED BY <2>1, <2>2, SeqEqual DEF b, c
<1> HIDE DEF a
<1>3. SubSeq(a, 1, 1) = Append(<<>>, a[1])
  <2>1. SubSeq(a, 1, 1) \in Seq(ByteStrings) /\ Len(SubSeq(a, 1, 1)) = 1
        /\ SubSeq(a, 1, 1)[1] = a[1]
    BY <1>1
  <2>2. Append(<<>>, a[1]) \in Seq(ByteStrings) /\ Len(Append(<<>>, a[1])) = 1
        /\ Append(<<>>, a[1])[1] = a[1]
    BY <1>1
  <2>3. \A i \in 1..1 : i = 1
    OBVIOUS
  <2> QED BY <2>1, <2>2, <2>3, SeqEqual
<1>4. FlattenSeq(SubSeq(a, 1, 1)) = a[1]
  <2>1. <<>> \in Seq(ByteStrings)
    OBVIOUS
  <2> QED BY <1>1, <1>3, <2>1, FlatAppend, FlatEmpty, Concats
<1>5. FlattenSeq(a) = FlattenSeq(SubSeq(a, 1, 1)) \o FlattenSeq(SubSeq(a, 1 + 1, Len(a)))
  BY <1>1, FlatSplit
<1>6. 1 + 1 = 2
  OBVIOUS
<1> QED BY <1>1, <1>2, <1>4, <1>5, <1>6 DEF a

(* The parts of the stream, and the ways to move bytes between them.       *)
Ahead == FlattenSeq(BytesOf(arrived))
Line(t, h, p, r, a) == t \o h \o p \o r \o a

LEMMA Associative == \A x, y, z \in ByteStrings : (x \o y) \o z = x \o (y \o z)
BY Concats

(* The chunk at hand goes to the channel, the pending bytes to the hand,   *)
(* bytes of the rest to the pending ones and to the hand, the first bytes  *)
(* ahead to the rest; and more may come.                                   *)
LEMMA LineSend ==
    ASSUME NEW t \in ByteStrings, NEW h \in ByteStrings, NEW p, NEW r, NEW a
    PROVE  Line(t, h, p, r, a) = Line(t \o h, <<>>, p, r, a)
<1>1. t \o h \in ByteStrings
  BY Concats
<1>2. (t \o h) \o <<>> = t \o h
  BY <1>1, Concats
<1> QED BY <1>2 DEF Line

LEMMA LineFlush ==
    ASSUME NEW t \in ByteStrings, NEW p \in ByteStrings, NEW r, NEW a
    PROVE  Line(t, <<>>, p, r, a) = Line(t, p, <<>>, r, a)
<1>1. t \o p \in ByteStrings
  BY Concats
<1>2. (t \o p) \o <<>> = t \o p /\ t \o <<>> = t
  BY <1>1, Concats
<1> QED BY <1>2 DEF Line

LEMMA LineStore ==
    ASSUME NEW t \in ByteStrings, NEW h \in ByteStrings, NEW p \in ByteStrings,
           NEW b \in ByteStrings, NEW r \in ByteStrings, NEW a
    PROVE  Line(t, h, p, b \o r, a) = Line(t, h, p \o b, r, a)
<1>1. PICK th \in ByteStrings : th = t \o h
  BY Concats
<1>2. PICK thp \in ByteStrings : thp = th \o p
  BY <1>1, Concats
<1>3. thp \o (b \o r) = (thp \o b) \o r
  BY SMTT(30), <1>2, Associative
<1>4. (th \o p) \o b = th \o (p \o b)
  BY SMTT(30), <1>1, Associative
<1> QED BY <1>1, <1>2, <1>3, <1>4 DEF Line

LEMMA LineRead ==
    ASSUME NEW t \in ByteStrings, NEW h \in ByteStrings, NEW p \in ByteStrings,
           NEW b \in ByteStrings, NEW a \in ByteStrings
    PROVE  Line(t, h, p, <<>>, b \o a) = Line(t, h, p, b, a)
<1>1. PICK th \in ByteStrings : th = t \o h
  BY Concats
<1>2. PICK thp \in ByteStrings : thp = th \o p
  BY <1>1, Concats
<1>3. thp \o <<>> = thp
  BY <1>2, Concats
<1>4. thp \o (b \o a) = (thp \o b) \o a
  BY SMTT(30), <1>2, Associative
<1> QED BY <1>1, <1>2, <1>3, <1>4 DEF Line

LEMMA LineFront ==
    ASSUME NEW t \in ByteStrings, NEW h \in ByteStrings, NEW p \in ByteStrings,
           NEW r \in ByteStrings
    PROVE  t \o h \o p \o r \in ByteStrings
<1>1. PICK th \in ByteStrings : th = t \o h
  BY Concats
<1>2. PICK thp \in ByteStrings : thp = th \o p
  BY <1>1, Concats
<1>3. thp \o r \in ByteStrings
  BY Concats
<1> QED BY <1>1, <1>2, <1>3

LEMMA StreamParts ==
    ASSUME MqttTypeOK
    PROVE  /\ got \in ByteStrings /\ split \in ByteStrings /\ chunks \in Seq(ByteStrings)
           /\ hand \in ByteStrings /\ pending \in ByteStrings /\ rest \in ByteStrings
           /\ arrived \in Seq(Item) /\ Ahead \in ByteStrings
           /\ got \o Available \in ByteStrings /\ Available \in ByteStrings
           /\ Stream = Line(got \o Available, hand, pending, rest, Ahead)
<1>1. /\ got \in ByteStrings /\ split \in ByteStrings /\ chunks \in Seq(ByteStrings)
      /\ hand \in ByteStrings /\ pending \in ByteStrings /\ rest \in ByteStrings
      /\ arrived \in Seq(Item)
  BY DEF MqttTypeOK, ByteStrings
<1>2. Ahead \in ByteStrings
  BY <1>1, WaitingBytes, FlatType DEF Ahead
<1>3. Available \in ByteStrings
  BY <1>1, FlatType, Concats DEF Available
<1>4. got \o Available \in ByteStrings
  BY <1>1, <1>3, Concats
<1>5. Stream = Line(got \o Available, hand, pending, rest, Ahead)
  BY DEF Stream, Line, Ahead
<1> QED BY <1>1, <1>2, <1>3, <1>4, <1>5

LEMMA StreamNext == Stream' = Line((got \o Available)', hand', pending', rest', Ahead')
BY DEF Stream, Line, Ahead

(* Steps that do not move a byte, or only in Dart's hands. *)
LEMMA StillStream ==
    ASSUME UNCHANGED <<got, split, chunks, hand, pending, rest, arrived>>
    PROVE  Stream' = Stream
BY DEF Stream, Available

LEMMA FlushMoves ==
    ASSUME MqttTypeOK, hand = <<>>, NEW label, FlushTo(label),
           UNCHANGED <<got, split, chunks, rest, arrived>>
    PROVE  Stream' = Stream
<1>1. UNCHANGED <<got \o Available, rest, Ahead>>
  BY DEF Available, Ahead
<1>2. pending' = <<>> /\ hand' = pending
  BY DEF FlushTo, SendChunk
<1>3. Line(got \o Available, <<>>, pending, rest, Ahead)
        = Line(got \o Available, pending, <<>>, rest, Ahead)
  BY StreamParts, LineFlush
<1> QED BY <1>1, <1>2, <1>3, StreamParts, StreamNext

LEMMA ReadTcpStream ==
    ASSUME MqttTypeOK, ReaderPlaces, ReadTcp
    PROVE  Stream' = Stream
<1>1. UNCHANGED <<got \o Available, pending, rest, got, split, chunks>>
      /\ hand = <<>> /\ pending = <<>> /\ rest = <<>>
  BY DEF ReadTcp, ReaderOnly, dartVars, Available, ReaderPlaces
<1>2. CASE arrived = <<>>
  BY <1>1, <1>2, StillStream DEF ReadTcp
<1>3. CASE arrived # <<>>
  <2> DEFINE bytes == Head(arrived).bytes
  <2>1. arrived \in Seq(Item) /\ bytes \in ByteStrings /\ Len(bytes) \in Nat
        /\ Tail(arrived) \in Seq(Item) /\ Limit \in Nat
    <3>1. arrived \in Seq(Item) /\ Limit \in Nat
      BY MqttAssumption DEF MqttTypeOK
    <3>2. Tail(arrived) \in Seq(Item) /\ Head(arrived) \in Item
      BY <1>3, <3>1, HeadTailProperties
    <3>3. bytes \in ByteStrings
      BY <3>2 DEF Item, ByteStrings
    <3>4. Len(bytes) \in Nat
      BY <3>3 DEF ByteStrings
    <3> QED BY <3>1, <3>2, <3>3, <3>4
  <2>2. PICK t : t = FlattenSeq(BytesOf(Tail(arrived)))
    OBVIOUS
  <2>3. t \in ByteStrings /\ Ahead = bytes \o t
    BY <1>3, <2>1, <2>2, WaitingHead, WaitingBytes, FlatType DEF Ahead
  <2>4. hand' \in ByteStrings /\ Ahead' \in ByteStrings /\ Ahead = hand' \o Ahead'
    <3>1. CASE Len(bytes) <= Limit
      <4>1. arrived' = Tail(arrived) /\ hand' = bytes
        BY <1>3, <3>1 DEF ReadTcp, SendChunk
      <4> HIDE DEF bytes
      <4> QED BY <2>1, <2>2, <2>3, <4>1 DEF Ahead
    <3>2. CASE ~(Len(bytes) <= Limit)
      <4> DEFINE more == SubSeq(bytes, Limit + 1, Len(bytes))
                 it == [kind |-> "data", bytes |-> more]
      <4>1. arrived' = [arrived EXCEPT ![1] = it] /\ hand' = SubSeq(bytes, 1, Limit)
        BY <1>3, <3>2 DEF ReadTcp, SendChunk
      <4>2. Limit \in 0..Len(bytes)
        <5> HIDE DEF bytes
        <5> QED BY <2>1, <3>2
      <4>3. hand' \in ByteStrings /\ more \in ByteStrings /\ bytes = hand' \o more
        <5> HIDE DEF bytes
        <5> QED BY <2>1, <4>1, <4>2, Cut
      <4> HIDE DEF more
      <4>4. it \in Item
        BY <4>3 DEF Item, ByteStrings
      <4>5. arrived' \in Seq(Item) /\ arrived' # <<>> /\ Head(arrived') = it
            /\ Tail(arrived') = Tail(arrived)
        <5> HIDE DEF it
        <5>1. 1 \in 1..Len(arrived) /\ Len(arrived) \in Nat
          BY <1>3, <2>1
        <5>2. /\ arrived' \in Seq(Item) /\ Len(arrived') = Len(arrived)
              /\ \A j \in 1..Len(arrived) : arrived'[j] = IF j = 1 THEN it ELSE arrived[j]
          BY <2>1, <4>1, <4>4, <5>1, ExceptSeq
        <5>3. arrived' # <<>> /\ Head(arrived') = it
          BY <5>1, <5>2
        <5>4. /\ Tail(arrived') \in Seq(Item) /\ Len(Tail(arrived')) = Len(arrived) - 1
              /\ \A j \in 1..(Len(arrived) - 1) : Tail(arrived')[j] = arrived'[j + 1]
          BY <5>2, <5>3
        <5>5. /\ Len(Tail(arrived)) = Len(arrived) - 1
              /\ \A j \in 1..(Len(arrived) - 1) : Tail(arrived)[j] = arrived[j + 1]
          BY <1>3, <2>1
        <5>6. \A j \in 1..(Len(arrived) - 1) : Tail(arrived')[j] = Tail(arrived)[j]
          <6> TAKE j \in 1..(Len(arrived) - 1)
          <6>1. j + 1 \in 1..Len(arrived) /\ j + 1 # 1
            BY <5>1
          <6> QED BY <5>2, <5>4, <5>5, <6>1
        <5>7. Tail(arrived') = Tail(arrived)
          BY <2>1, <5>4, <5>5, <5>6, SeqEqual
        <5> QED BY <5>2, <5>3, <5>7
      <4>6. Ahead' = more \o t
        <5>1. it.bytes = more
          OBVIOUS
        <5> HIDE DEF it
        <5> QED BY <2>2, <4>5, <5>1, WaitingHead DEF Ahead
      <4>7. Ahead' \in ByteStrings
        BY <2>3, <4>3, <4>6, Concats
      <4>8. Ahead = hand' \o (more \o t)
        <5> HIDE DEF bytes
        <5> QED BY <2>3, <4>3, Associative
      <4> QED BY <4>3, <4>6, <4>7, <4>8
    <3> QED BY <3>1, <3>2
  <2>5. PICK g \in ByteStrings : g = got \o Available
    BY StreamParts
  <2>6. PICK h \in ByteStrings : h = hand'
    BY <2>4
  <2>7. PICK a \in ByteStrings : a = Ahead'
    BY <2>4
  <2>8. Line(g, <<>>, <<>>, <<>>, h \o a) = Line(g, <<>>, <<>>, h, a)
    BY Concats, LineRead
  <2>9. <<>> \in ByteStrings /\ h \o <<>> = h /\ <<>> \o h = h
    BY Concats
  <2>10. Line(g, <<>>, <<>>, h \o <<>>, a) = Line(g, <<>>, <<>> \o h, <<>>, a)
    <3>1. PICK e \in ByteStrings : e = <<>>
      BY <2>9
    <3>2. Line(g, e, e, h \o e, a) = Line(g, e, e \o h, e, a)
      BY LineStore
    <3> QED BY <3>1, <3>2
  <2>11. Line(g, <<>>, h, <<>>, a) = Line(g, h, <<>>, <<>>, a)
    BY LineFlush
  <2>12. Stream = Line(g, <<>>, <<>>, <<>>, h \o a)
    BY <1>1, <2>4, <2>5, <2>6, <2>7, StreamParts
  <2>13. Stream' = Line(g, h, <<>>, <<>>, a)
    BY <1>1, <2>5, <2>6, <2>7, StreamNext
  <2> QED BY <2>8, <2>9, <2>10, <2>11, <2>12, <2>13
<1> QED BY <1>2, <1>3

LEMMA ReadFrameStream ==
    ASSUME MqttTypeOK, ReaderPlaces, ReadFrame
    PROVE  Stream' = Stream
<1>1. UNCHANGED <<got \o Available, got, split, chunks>>
      /\ hand = <<>> /\ rest = <<>>
  BY DEF ReadFrame, ReaderOnly, dartVars, Available, ReaderPlaces
<1>2. CASE arrived = <<>>
  BY <1>1, <1>2, FlushMoves DEF ReadFrame
<1>3. CASE arrived # <<>>
  <2>1. arrived \in Seq(Item) /\ Tail(arrived) \in Seq(Item) /\ Head(arrived).bytes \in ByteStrings
    <3>1. arrived \in Seq(Item)
      BY DEF MqttTypeOK
    <3>2. Tail(arrived) \in Seq(Item) /\ Head(arrived) \in Item
      BY <1>3, <3>1, HeadTailProperties
    <3>3. Head(arrived).bytes \in ByteStrings
      BY <3>2 DEF Item, ByteStrings
    <3> QED BY <3>1, <3>2, <3>3
  <2>2. arrived' = Tail(arrived) /\ rest' = Head(arrived).bytes
    BY <1>3 DEF ReadFrame
  <2>3. Ahead = rest' \o Ahead' /\ Ahead' \in ByteStrings
    BY <1>3, <2>1, <2>2, WaitingHead, WaitingBytes, FlatType DEF Ahead
  <2>4. PICK g \in ByteStrings : g = got \o Available
    BY StreamParts
  <2>5. PICK r \in ByteStrings : r = rest'
    BY <2>1, <2>2
  <2>6. PICK a \in ByteStrings : a = Ahead'
    BY <2>3
  <2>7. Line(g, hand, pending, <<>>, r \o a) = Line(g, hand, pending, r, a)
    BY StreamParts, LineRead
  <2>8. Stream = Line(g, hand, pending, r, a)
    BY <1>1, <2>3, <2>4, <2>5, <2>6, <2>7, StreamParts
  <2>9. Stream' = Line(g, hand', pending', r, a)
    BY <1>1, <2>4, <2>5, <2>6, StreamNext
  <2>10. CASE Head(arrived).kind = "data"
    BY <1>3, <2>8, <2>9, <2>10 DEF ReadFrame
  <2>11. CASE Head(arrived).kind # "data"
    <3>1. hand' = pending /\ pending' = <<>>
      BY <1>1, <1>3, <2>11 DEF ReadFrame, FlushTo, SendChunk
    <3>2. Line(g, <<>>, pending, r, a) = Line(g, pending, <<>>, r, a)
      BY StreamParts, LineFlush
    <3> QED BY <1>1, <2>8, <2>9, <3>1, <3>2
  <2> QED BY <2>10, <2>11
<1> QED BY <1>2, <1>3

LEMMA StoreStream ==
    ASSUME MqttTypeOK, ReaderPlaces, Store
    PROVE  Stream' = Stream
<1>1. UNCHANGED <<got \o Available, Ahead, got, split, chunks, arrived>> /\ hand = <<>>
  BY DEF Store, ReaderOnly, dartVars, Available, ReaderPlaces, Ahead
<1>2. Limit \in Nat \ {0} /\ Len(pending) \in Nat /\ Len(rest) \in Nat /\ Len(pending) <= Limit
  BY MqttAssumption DEF MqttTypeOK
<1> DEFINE room == Limit - Len(pending)
           full == pending = <<>> /\ Len(rest) >= Limit
           taken == IF Len(rest) < room THEN Len(rest) ELSE room
           filled == pending \o SubSeq(rest, 1, taken)
<1>3. taken \in 0..Len(rest)
  BY <1>2
<1>4. PICK g \in ByteStrings : g = got \o Available
  BY StreamParts
<1>5. PICK p \in ByteStrings : p = pending
  BY StreamParts
<1>6. PICK a \in ByteStrings : a = Ahead
  BY StreamParts
<1>7. Stream = Line(g, <<>>, p, rest, a) /\ Stream' = Line(g, hand', pending', rest', a)
  BY <1>1, <1>4, <1>5, <1>6, StreamParts, StreamNext
<1>8. CASE rest = <<>>
  BY <1>1, <1>8, StillStream DEF Store
<1>9. CASE rest # <<>> /\ full
  <2>1. PICK x : x = SubSeq(rest, 1, Limit)
    OBVIOUS
  <2>2. PICK y : y = SubSeq(rest, Limit + 1, Len(rest))
    OBVIOUS
  <2>3. hand' = x /\ rest' = y /\ pending' = <<>> /\ p = <<>>
    BY <1>5, <1>9, <2>1, <2>2 DEF Store, SendChunk
  <2>4. Limit \in 0..Len(rest)
    BY <1>2, <1>9
  <2>5. x \in ByteStrings /\ y \in ByteStrings /\ rest = x \o y
    BY <2>1, <2>2, <2>4, StreamParts, Cut
  <2>6. Line(g, <<>>, <<>>, x \o y, a) = Line(g, <<>>, <<>> \o x, y, a)
    <3>1. PICK e \in ByteStrings : e = <<>>
      BY Concats
    <3>2. Line(g, e, e, x \o y, a) = Line(g, e, e \o x, y, a)
      BY <2>5, LineStore
    <3> QED BY <3>1, <3>2
  <2>7. <<>> \o x = x
    BY <2>5, Concats
  <2>8. Line(g, <<>>, x, y, a) = Line(g, x, <<>>, y, a)
    BY <2>5, LineFlush
  <2> QED BY <1>7, <2>3, <2>5, <2>6, <2>7, <2>8
<1>10. CASE rest # <<>> /\ ~full
  <2>1. PICK x : x = SubSeq(rest, 1, taken)
    OBVIOUS
  <2>2. PICK y : y = SubSeq(rest, taken + 1, Len(rest))
    OBVIOUS
  <2>3. x \in ByteStrings /\ y \in ByteStrings /\ rest = x \o y
    <3> HIDE DEF taken
    <3> QED BY <1>3, <2>1, <2>2, StreamParts, Cut
  <2>4. PICK z \in ByteStrings : z = p \o x
    BY <2>3, Concats
  <2>5. Line(g, <<>>, p, x \o y, a) = Line(g, <<>>, z, y, a)
    <3>1. Line(g, <<>>, p, x \o y, a) = Line(g, <<>>, p \o x, y, a)
      BY <2>3, LineStore, Concats
    <3> QED BY <2>4, <3>1
  <2>6. Line(g, <<>>, z, y, a) = Line(g, z, <<>>, y, a)
    BY <2>3, LineFlush
  <2>7. filled = z
    BY <1>5, <2>1, <2>4
  <2>8. CASE Len(filled) = Limit
    <3>1. hand' = filled /\ rest' = y /\ pending' = <<>>
      BY <1>10, <2>2, <2>8 DEF Store, SendChunk
    <3> HIDE DEF filled
    <3> QED BY <1>7, <2>3, <2>5, <2>6, <2>7, <3>1
  <2>9. CASE Len(filled) # Limit
    <3>1. hand' = hand /\ rest' = y /\ pending' = filled
      BY <1>10, <2>2, <2>9 DEF Store, SendChunk
    <3> HIDE DEF filled
    <3> QED BY <1>1, <1>7, <2>3, <2>5, <2>7, <3>1
  <2> QED BY <2>8, <2>9
<1> QED BY <1>8, <1>9, <1>10
-----------------------------------------------------------------------------
(* The steps of the reader keep the types: what it holds. *)
Places == {"top", "read", "react", "store", "tail", "send", "swap", "notify", "end", "done"}
Labels == {"top", "read", "react", "store", "end"}
ReaderTypes ==
    /\ reader \in Places /\ cont \in Labels /\ item \in Item /\ rest \in ByteStrings
    /\ pending \in ByteStrings /\ Len(pending) <= Limit /\ burst \in Nat
    /\ hand \in ByteStrings /\ Len(hand) <= Limit /\ arrived \in Seq(Item)
OtherTypes ==
    /\ graceful \in BOOLEAN /\ awake \in BOOLEAN /\ flag \in BOOLEAN
    /\ chunks \in Seq(ByteStrings) /\ Len(chunks) <= ChunkCapacity
    /\ controls \in Seq({"pong", "close"}) /\ Len(controls) <= 1
    /\ signals \in Seq({"ReaderClosed", "ReaderGracefulClose", "WriterClosed"})

LEMMA ReaderTyped == MqttTypeOK => ReaderTypes /\ OtherTypes
BY DEF MqttTypeOK, ReaderTypes, OtherTypes, Places, Labels, ByteStrings

LEMMA TypesFollow ==
    ASSUME MqttTypeOK, ReaderTypes', OtherTypes',
           UNCHANGED <<mode, items, born, peer, wakeup, dart, split, got, outVars, entry,
                       watcher>>
    PROVE  MqttTypeOK'
BY DEF MqttTypeOK, ReaderTypes, OtherTypes, Places, Labels, ByteStrings, outVars

LEMMA FlushTypes ==
    ASSUME ReaderTypes, NEW label \in Labels, FlushTo(label)
    PROVE  /\ reader' \in Places /\ cont' \in Labels
           /\ pending' \in ByteStrings /\ Len(pending') <= Limit
           /\ hand' \in ByteStrings /\ Len(hand') <= Limit
<1>1. <<>> \in ByteStrings /\ Len(<<>>) = 0 /\ Limit \in Nat
  BY MqttAssumption DEF ByteStrings
<1> QED BY <1>1 DEF ReaderTypes, FlushTo, SendChunk, Places, Labels

LEMMA FirstArrived ==
    ASSUME ReaderTypes, arrived # <<>>
    PROVE  /\ Tail(arrived) \in Seq(Item) /\ Head(arrived) \in Item
           /\ Head(arrived).bytes \in ByteStrings /\ Len(Head(arrived).bytes) \in Nat
<1>1. arrived \in Seq(Item)
  BY DEF ReaderTypes
<1>2. Tail(arrived) \in Seq(Item) /\ Head(arrived) \in Item
  BY <1>1, HeadTailProperties
<1>3. Head(arrived).bytes \in ByteStrings
  BY <1>2 DEF Item, ByteStrings
<1> QED BY <1>2, <1>3 DEF ByteStrings

LEMMA ReadTcpTypes ==
    ASSUME ReaderTypes, ReadTcp
    PROVE  ReaderTypes'
<1>0. Limit \in Nat
  BY MqttAssumption
<1>1. CASE arrived = <<>>
  <2>1. reader' = "done" /\ UNCHANGED <<arrived, hand, cont, item, rest, pending, burst>>
    BY <1>1 DEF ReadTcp, ReaderSignals
  <2> QED BY <2>1 DEF ReaderTypes, Places
<1>2. CASE arrived # <<>>
  <2>1. PICK b : b = Head(arrived).bytes
    OBVIOUS
  <2>2. b \in ByteStrings /\ Len(b) \in Nat /\ Tail(arrived) \in Seq(Item)
    BY <1>2, <2>1, FirstArrived
  <2>3. hand' \in ByteStrings /\ Len(hand') <= Limit /\ arrived' \in Seq(Item)
    <3>1. CASE Len(b) <= Limit
      <4>1. hand' = b /\ arrived' = Tail(arrived)
        BY <1>2, <2>1, <3>1 DEF ReadTcp, SendChunk
      <4> QED BY <2>2, <3>1, <4>1
    <3>2. CASE ~(Len(b) <= Limit)
      <4> DEFINE it == [kind |-> "data", bytes |-> SubSeq(b, Limit + 1, Len(b))]
      <4>1. hand' = SubSeq(b, 1, Limit) /\ arrived' = [arrived EXCEPT ![1] = it]
        BY <1>2, <2>1, <3>2 DEF ReadTcp, SendChunk
      <4>2. Limit \in 0..Len(b)
        BY <1>0, <2>2, <3>2
      <4>3. /\ SubSeq(b, 1, Limit) \in ByteStrings /\ Len(SubSeq(b, 1, Limit)) = Limit
            /\ SubSeq(b, Limit + 1, Len(b)) \in ByteStrings
        BY <2>2, <4>2, Cut
      <4>4. it \in Item
        BY <4>3 DEF Item, ByteStrings
      <4>5. arrived \in Seq(Item) /\ 1 \in 1..Len(arrived)
        BY <1>2 DEF ReaderTypes
      <4> HIDE DEF it
      <4>6. arrived' \in Seq(Item)
        BY <4>1, <4>4, <4>5, ExceptSeq
      <4> QED BY <1>0, <4>1, <4>3, <4>6
    <3> QED BY <3>1, <3>2
  <2>4. reader' = "send" /\ cont' = "read" /\ UNCHANGED <<item, rest, pending, burst>>
    BY <1>2 DEF ReadTcp, SendChunk
  <2> QED BY <2>3, <2>4 DEF ReaderTypes, Places, Labels
<1> QED BY <1>1, <1>2

LEMMA ReadFrameTypes ==
    ASSUME ReaderTypes, ReadFrame
    PROVE  ReaderTypes'
<1>0. "react" \in Labels /\ "end" \in Labels /\ burst' = burst
  BY DEF Labels, ReadFrame
<1>1. CASE arrived = <<>>
  <2>1. FlushTo("end") /\ UNCHANGED <<arrived, item, rest>>
    BY <1>1 DEF ReadFrame
  <2>2. /\ reader' \in Places /\ cont' \in Labels
        /\ pending' \in ByteStrings /\ Len(pending') <= Limit
        /\ hand' \in ByteStrings /\ Len(hand') <= Limit
    BY <1>0, <2>1, FlushTypes
  <2> QED BY <1>0, <2>1, <2>2 DEF ReaderTypes
<1>2. CASE arrived # <<>>
  <2>1. arrived' = Tail(arrived) /\ item' = Head(arrived) /\ rest' = Head(arrived).bytes
    BY <1>2 DEF ReadFrame
  <2>2. CASE Head(arrived).kind = "data"
    <3>1. reader' = "store" /\ UNCHANGED <<pending, hand, cont>>
      BY <1>2, <2>2 DEF ReadFrame
    <3> QED BY <1>0, <1>2, <2>1, <3>1, FirstArrived DEF ReaderTypes, Places
  <2>3. CASE Head(arrived).kind # "data"
    <3>1. FlushTo("react")
      BY <1>2, <2>3 DEF ReadFrame
    <3>2. /\ reader' \in Places /\ cont' \in Labels
          /\ pending' \in ByteStrings /\ Len(pending') <= Limit
          /\ hand' \in ByteStrings /\ Len(hand') <= Limit
      BY <1>0, <3>1, FlushTypes
    <3> QED BY <1>0, <1>2, <2>1, <3>2, FirstArrived DEF ReaderTypes
  <2> QED BY <2>2, <2>3
<1> QED BY <1>1, <1>2

LEMMA StoreTypes ==
    ASSUME ReaderTypes, Store
    PROVE  ReaderTypes'
<1>0. /\ Limit \in Nat \ {0} /\ Len(pending) \in Nat /\ Len(rest) \in Nat
      /\ Len(pending) <= Limit /\ pending \in ByteStrings /\ rest \in ByteStrings
      /\ <<>> \in ByteStrings /\ Len(<<>>) = 0 /\ burst \in Nat
  BY MqttAssumption DEF ReaderTypes, ByteStrings
<1> DEFINE room == Limit - Len(pending)
           full == pending = <<>> /\ Len(rest) >= Limit
           taken == IF Len(rest) < room THEN Len(rest) ELSE room
           filled == pending \o SubSeq(rest, 1, taken)
<1>1. taken \in 0..Len(rest) /\ taken <= room
  BY <1>0
<1>2. /\ SubSeq(rest, 1, taken) \in ByteStrings /\ Len(SubSeq(rest, 1, taken)) = taken
      /\ SubSeq(rest, taken + 1, Len(rest)) \in ByteStrings
  <2> HIDE DEF taken
  <2> QED BY <1>0, <1>1, Cut
<1>3. filled \in ByteStrings /\ Len(filled) <= Limit
  <2> HIDE DEF taken
  <2>1. filled \in ByteStrings /\ Len(filled) = Len(pending) + taken
    <3>1. PICK x : x = SubSeq(rest, 1, taken)
      OBVIOUS
    <3>2. x \in ByteStrings /\ Len(x) = taken /\ filled = pending \o x
      BY <1>2, <3>1
    <3> HIDE DEF filled
    <3> QED BY <1>0, <3>2, Concats
  <2> HIDE DEF filled
  <2> QED BY <1>0, <1>1, <2>1
<1>4. CASE rest = <<>>
  <2>1. /\ reader' = "tail" /\ UNCHANGED <<rest, pending, hand, cont, arrived, item>>
        /\ burst' \in {burst, burst + 1}
    BY <1>4 DEF Store
  <2> QED BY <1>0, <2>1 DEF ReaderTypes, Places
<1>5. CASE rest # <<>> /\ full
  <2>1. /\ reader' = "send" /\ cont' = "store" /\ hand' = SubSeq(rest, 1, Limit)
        /\ rest' = SubSeq(rest, Limit + 1, Len(rest)) /\ UNCHANGED <<burst, pending, arrived, item>>
    BY <1>5 DEF Store, SendChunk
  <2>2. Limit \in 0..Len(rest)
    BY <1>0, <1>5
  <2>3. /\ SubSeq(rest, 1, Limit) \in ByteStrings /\ Len(SubSeq(rest, 1, Limit)) = Limit
        /\ SubSeq(rest, Limit + 1, Len(rest)) \in ByteStrings
    BY <1>0, <2>2, Cut
  <2> QED BY <1>0, <2>1, <2>3 DEF ReaderTypes, Places, Labels
<1>6. CASE rest # <<>> /\ ~full /\ Len(filled) = Limit
  <2>1. /\ reader' = "send" /\ cont' = "store" /\ hand' = filled /\ pending' = <<>>
        /\ rest' = SubSeq(rest, taken + 1, Len(rest)) /\ burst' = 0 /\ UNCHANGED <<arrived, item>>
    BY <1>6 DEF Store, SendChunk
  <2> HIDE DEF filled, taken
  <2> QED BY <1>0, <1>2, <1>3, <2>1 DEF ReaderTypes, Places, Labels
<1>7. CASE rest # <<>> /\ ~full /\ Len(filled) # Limit
  <2>1. /\ pending' = filled /\ rest' = SubSeq(rest, taken + 1, Len(rest))
        /\ UNCHANGED <<burst, hand, cont, reader, arrived, item>>
    BY <1>7 DEF Store
  <2> HIDE DEF filled, taken
  <2> QED BY <1>0, <1>2, <1>3, <2>1 DEF ReaderTypes, Places, Labels
<1> QED BY <1>4, <1>5, <1>6, <1>7

LEMMA ReadTypes ==
    ASSUME MqttTypeOK, ReaderNext
    PROVE  MqttTypeOK'
<1>0. ReaderTypes /\ OtherTypes
  BY ReaderTyped
<1>1. CASE ReadTcp
  <2>1. OtherTypes'
    BY SMTT(30), <1>0, <1>1 DEF ReadTcp, ReaderOnly, dartVars, ReaderSignals, OtherTypes
  <2>2. ReaderTypes'
    BY <1>0, <1>1, ReadTcpTypes
  <2> QED BY <1>1, <2>1, <2>2, TypesFollow DEF ReadTcp, ReaderOnly, dartVars
<1>2. CASE Top
  <2>1. ReaderTypes'
    <3>1. burst' \in Nat /\ UNCHANGED <<arrived, item, rest>>
      BY <1>0, <1>2 DEF Top, ReaderTypes
    <3>2. CASE FlushTo("read")
      <4>1. "read" \in Labels
        BY DEF Labels
      <4>2. /\ reader' \in Places /\ cont' \in Labels
            /\ pending' \in ByteStrings /\ Len(pending') <= Limit
            /\ hand' \in ByteStrings /\ Len(hand') <= Limit
        BY <1>0, <3>2, <4>1, FlushTypes
      <4> QED BY <1>0, <3>1, <4>2 DEF ReaderTypes
    <3>3. CASE reader' = "read" /\ UNCHANGED <<pending, hand, cont>>
      BY <1>0, <3>1, <3>3 DEF ReaderTypes, Places
    <3> QED BY <1>2, <3>2, <3>3 DEF Top
  <2>2. OtherTypes'
    BY <1>0, <1>2 DEF Top, ReaderOnly, dartVars, OtherTypes
  <2> QED BY <1>2, <2>1, <2>2, TypesFollow DEF Top, ReaderOnly, dartVars
<1>3. CASE ReadFrame
  <2>1. OtherTypes'
    BY <1>0, <1>3 DEF ReadFrame, ReaderOnly, dartVars, OtherTypes
  <2>2. ReaderTypes'
    BY <1>0, <1>3, ReadFrameTypes
  <2> QED BY <1>3, <2>1, <2>2, TypesFollow DEF ReadFrame, ReaderOnly, dartVars
<1>4. CASE Store
  <2>1. OtherTypes'
    BY <1>0, <1>4 DEF Store, ReaderOnly, dartVars, OtherTypes
  <2>2. ReaderTypes'
    BY <1>0, <1>4, StoreTypes
  <2> QED BY <1>4, <2>1, <2>2, TypesFollow DEF Store, ReaderOnly, dartVars
<1>5. CASE Tail_
  <2>1. ReaderTypes'
    <3>1. UNCHANGED <<arrived, item, rest, burst>>
      BY <1>5 DEF Tail_
    <3>2. CASE FlushTo("top")
      <4>1. "top" \in Labels
        BY DEF Labels
      <4>2. /\ reader' \in Places /\ cont' \in Labels
            /\ pending' \in ByteStrings /\ Len(pending') <= Limit
            /\ hand' \in ByteStrings /\ Len(hand') <= Limit
        BY <1>0, <3>2, <4>1, FlushTypes
      <4> QED BY <1>0, <3>1, <4>2 DEF ReaderTypes
    <3>3. CASE reader' = "top" /\ UNCHANGED <<pending, hand, cont>>
      BY <1>0, <3>1, <3>3 DEF ReaderTypes, Places
    <3> QED BY <1>5, <3>2, <3>3 DEF Tail_
  <2>2. OtherTypes'
    BY <1>0, <1>5 DEF Tail_, ReaderOnly, dartVars, OtherTypes
  <2> QED BY <1>5, <2>1, <2>2, TypesFollow DEF Tail_, ReaderOnly, dartVars
<1>6. CASE React
  <2>1. ReaderTypes'
    BY <1>0, <1>6 DEF React, ReaderTypes, Places
  <2>2. graceful' \in BOOLEAN
    <3>0. \/ graceful' = (item.kind # "ping")
          \/ graceful' = (item.kind \in {"text", "close"})
      BY <1>6 DEF React
    <3>1. CASE graceful' = (item.kind # "ping")
      BY <3>1, Zenon
    <3>2. CASE graceful' = (item.kind \in {"text", "close"})
      <4>1. CASE item.kind \in {"text", "close"}
        BY <3>2, <4>1
      <4>2. CASE item.kind \notin {"text", "close"}
        BY <3>2, <4>2
      <4> QED BY <4>1, <4>2
    <3> QED BY <3>0, <3>1, <3>2
  <2>3. controls' \in Seq({"pong", "close"}) /\ Len(controls') <= 1
    <3>1. controls' = <<"pong">> \/ controls' = <<"close">> \/ controls' = controls
      BY <1>6 DEF React
    <3>2. CASE controls' = <<"pong">>
      BY <3>2
    <3>3. CASE controls' = <<"close">>
      BY <3>3
    <3>4. CASE controls' = controls
      BY <1>0, <3>4 DEF OtherTypes
    <3> QED BY <3>1, <3>2, <3>3, <3>4
  <2>4. OtherTypes'
    BY <1>0, <1>6, <2>2, <2>3 DEF React, ReaderOnly, dartVars, OtherTypes
  <2> QED BY <1>6, <2>1, <2>4, TypesFollow DEF React, ReaderOnly, dartVars
<1>7. CASE End
  <2>1. OtherTypes'
    <3>1. signals' \in Seq({"ReaderClosed", "ReaderGracefulClose", "WriterClosed"})
      <4> DEFINE S == {"ReaderClosed", "ReaderGracefulClose", "WriterClosed"}
      <4>1. signals \in Seq(S)
        BY <1>0 DEF OtherTypes
      <4>2. signals' = signals \/ \E s \in S : signals' = Append(signals, s)
        BY <1>7 DEF End, ReaderSignals
      <4> HIDE DEF S
      <4>3. signals' \in Seq(S)
        BY <4>1, <4>2, AppendProperties
      <4> QED BY <4>3 DEF S
    <3> QED BY <1>0, <1>7, <3>1 DEF End, ReaderOnly, dartVars, OtherTypes
  <2>2. ReaderTypes'
    <3>1. UNCHANGED <<arrived, item, rest, burst>>
      BY <1>7 DEF End
    <3>2. CASE FlushTo("end")
      <4>1. "end" \in Labels
        BY DEF Labels
      <4>2. /\ reader' \in Places /\ cont' \in Labels
            /\ pending' \in ByteStrings /\ Len(pending') <= Limit
            /\ hand' \in ByteStrings /\ Len(hand') <= Limit
        BY <1>0, <3>2, <4>1, FlushTypes
      <4> QED BY <1>0, <3>1, <4>2 DEF ReaderTypes
    <3>3. CASE reader' = "done" /\ UNCHANGED <<pending, hand, cont>>
      BY <1>0, <3>1, <3>3 DEF ReaderTypes, Places
    <3> QED BY <1>7, <3>2, <3>3 DEF End, ReaderSignals
  <2> QED BY <1>7, <2>1, <2>2, TypesFollow DEF End, ReaderOnly, dartVars
<1>8. CASE Send
  <2>1. ReaderTypes'
    <3>1. <<>> \in ByteStrings /\ Len(<<>>) = 0 /\ 0 <= Limit
      BY MqttAssumption DEF ByteStrings
    <3> QED BY <1>0, <1>8, <3>1 DEF Send, ReaderTypes, Places
  <2>2. chunks' \in Seq(ByteStrings) /\ Len(chunks') <= ChunkCapacity
    <3>1. /\ chunks' = Append(chunks, hand) /\ chunks \in Seq(ByteStrings) /\ hand \in ByteStrings
          /\ Len(chunks) < ChunkCapacity /\ ChunkCapacity \in Nat
      BY <1>0, <1>8, MqttAssumption DEF Send, OtherTypes, ReaderTypes
    <3> QED BY <3>1, AppendProperties
  <2>3. OtherTypes'
    BY <1>0, <1>8, <2>2 DEF Send, ReaderOnly, dartVars, OtherTypes
  <2> QED BY <1>8, <2>1, <2>3, TypesFollow DEF Send, ReaderOnly, dartVars
<1>9. CASE Swap
  <2>1. ReaderTypes'
    BY <1>0, <1>9 DEF Swap, ReaderTypes, Places, Labels
  <2>2. OtherTypes'
    BY <1>0, <1>9 DEF Swap, ReaderOnly, dartVars, OtherTypes
  <2> QED BY <1>9, <2>1, <2>2, TypesFollow DEF Swap, ReaderOnly, dartVars
<1>10. CASE Notify
  <2>1. ReaderTypes'
    BY <1>0, <1>10 DEF Notify, ReaderTypes, Places, Labels, inVars
  <2>2. awake' \in BOOLEAN
    <3>1. awake' = (awake \/ wakeup)
      BY <1>10 DEF Notify
    <3> QED BY <3>1, Zenon
  <2>3. OtherTypes'
    BY <1>0, <1>10, <2>2 DEF Notify, OtherTypes
  <2> QED BY <1>10, <2>1, <2>3, TypesFollow DEF Notify, inVars
<1> QED BY <1>1, <1>2, <1>3, <1>4, <1>5, <1>6, <1>7, <1>8, <1>9, <1>10 DEF ReaderNext

(* The reader's places. *)
LEMMA ReadPlaces ==
    ASSUME MqttTypeOK, ReaderPlaces, ReaderNext
    PROVE  ReaderPlaces'
<1> DEFINE Small == /\ reader # "send" => hand = <<>>
                    /\ rest # <<>> => \/ reader = "store"
                                      \/ reader \in {"send", "swap", "notify"} /\ cont = "store"
                    /\ mode = "tcp" => /\ pending = <<>> /\ rest = <<>> /\ cont = "read"
                                       /\ reader \in {"read", "send", "swap", "notify", "done"}
           Marked == \A i \in 1..Len(arrived) :
                       arrived[i].kind # "data" => arrived[i].bytes = <<>>
<1>0. Small /\ Marked /\ reader \in Places /\ arrived \in Seq(Item)
  BY ReaderTyped DEF ReaderPlaces, ReaderTypes
<1>1. Marked'
  <2>1. CASE UNCHANGED arrived
    BY <1>0, <2>1
  <2>2. CASE arrived # <<>> /\ arrived' = Tail(arrived)
    <3>1. \A i \in 1..Len(Tail(arrived)) : Tail(arrived)[i] = arrived[i + 1]
          /\ i + 1 \in 1..Len(arrived)
      BY <1>0, <2>2
    <3> QED BY <1>0, <2>2, <3>1
  <2>3. ASSUME NEW b, arrived # <<>>,
               arrived' = [arrived EXCEPT ![1] = [kind |-> "data", bytes |-> b]]
        PROVE  Marked'
    <3> DEFINE it == [kind |-> "data", bytes |-> b]
    <3>1. /\ Len(arrived') = Len(arrived)
          /\ \A j \in 1..Len(arrived) : arrived'[j] = IF j = 1 THEN it ELSE arrived[j]
      <4> HIDE DEF it
      <4> QED BY <1>0, <2>3 DEF it
    <3>2. it.kind = "data"
      OBVIOUS
    <3> HIDE DEF it
    <3> QED BY <1>0, <3>1, <3>2
  <2>4. \/ UNCHANGED arrived
        \/ arrived # <<>> /\ arrived' = Tail(arrived)
        \/ \E b : /\ arrived # <<>>
                  /\ arrived' = [arrived EXCEPT ![1] = [kind |-> "data", bytes |-> b]]
    BY DEF ReaderNext, ReadTcp, Top, ReadFrame, Store, Tail_, React, End, Send, Swap, Notify,
       inVars
  <2> HIDE DEF Marked
  <2> QED BY <2>1, <2>2, <2>3, <2>4
<1>2. Small'
  <2>1. CASE ReadTcp
    BY <1>0, <2>1 DEF ReadTcp, ReaderOnly, SendChunk, ReaderSignals
  <2>2. CASE Top
    BY <1>0, <2>2 DEF Top, ReaderOnly, SendChunk, FlushTo
  <2>3. CASE ReadFrame
    <3>1. mode # "tcp" /\ mode' = mode /\ hand = <<>> /\ rest = <<>>
      BY <1>0, <2>3 DEF ReadFrame, ReaderOnly
    <3>2. CASE arrived = <<>>
      BY <1>0, <2>3, <3>1, <3>2 DEF ReadFrame, SendChunk, FlushTo
    <3>3. CASE arrived # <<>> /\ Head(arrived).kind = "data"
      BY <1>0, <2>3, <3>1, <3>3 DEF ReadFrame
    <3>4. CASE arrived # <<>> /\ Head(arrived).kind # "data"
      <4>1. Head(arrived) = arrived[1] /\ 1 \in 1..Len(arrived)
        BY <1>0, <3>4
      <4>2. rest' = <<>>
        BY <1>0, <2>3, <3>4, <4>1 DEF ReadFrame
      <4>3. reader' \in {"send", "react"} /\ (reader' # "send" => hand' = hand)
        BY <2>3, <3>4 DEF ReadFrame, FlushTo, SendChunk
      <4> QED BY <3>1, <4>2, <4>3
    <3> QED BY <3>2, <3>3, <3>4
  <2>4. CASE Store
    <3>1. mode # "tcp" /\ mode' = mode /\ hand = <<>>
      BY <1>0, <2>4 DEF Store, ReaderOnly
    <3>2. \/ reader' = "tail" /\ rest' = rest /\ rest = <<>> /\ hand' = hand
          \/ reader' = "send" /\ cont' = "store"
          \/ reader' = "store" /\ hand' = hand
      BY <2>4 DEF Store, SendChunk
    <3> QED BY <3>1, <3>2
  <2>5. CASE Tail_
    BY <1>0, <2>5 DEF Tail_, ReaderOnly, SendChunk, FlushTo
  <2>6. CASE React
    BY <1>0, <2>6 DEF React, ReaderOnly
  <2>7. CASE End
    BY <1>0, <2>7 DEF End, ReaderOnly, SendChunk, FlushTo, ReaderSignals
  <2>8. CASE Send
    BY <1>0, <2>8 DEF Send, ReaderOnly
  <2>9. CASE Swap
    <3>1. cont # "send"
      BY ReaderTyped DEF ReaderTypes, Labels
    <3> QED BY <1>0, <2>9, <3>1 DEF Swap, ReaderOnly
  <2>10. CASE Notify
    <3>1. cont # "send"
      BY ReaderTyped DEF ReaderTypes, Labels
    <3> QED BY <1>0, <2>10, <3>1 DEF Notify
  <2> HIDE DEF Small
  <2> QED BY <2>1, <2>2, <2>3, <2>4, <2>5, <2>6, <2>7, <2>8, <2>9, <2>10 DEF ReaderNext
<1> QED BY <1>1, <1>2 DEF ReaderPlaces

LEMMA SendStream ==
    ASSUME MqttTypeOK, Send
    PROVE  Stream' = Stream
<1>1. UNCHANGED <<got, split, pending, rest, arrived, Ahead>> /\ hand' = <<>>
      /\ chunks' = Append(chunks, hand)
  BY DEF Send, ReaderOnly, dartVars, Ahead
<1>2. PICK h \in ByteStrings : h = hand
  BY StreamParts
<1>3. PICK f \in ByteStrings : f = FlattenSeq(chunks)
  BY StreamParts, FlatType
<1>4. FlattenSeq(chunks') = f \o h
  BY <1>1, <1>2, <1>3, StreamParts, FlatAppend
<1>5. PICK s \in ByteStrings : s = split
  BY StreamParts
<1>6. Available' = s \o (f \o h) /\ Available = s \o f
  BY <1>1, <1>3, <1>4, <1>5 DEF Available
<1>7. PICK v \in ByteStrings : v = s \o f
  BY Concats
<1>8. s \o (f \o h) = v \o h
  BY <1>7, Associative
<1>9. PICK g \in ByteStrings : g = got
  BY StreamParts
<1>10. g \o (v \o h) = (g \o v) \o h
  BY Associative
<1>11. (got \o Available)' = (got \o Available) \o h
  BY <1>1, <1>6, <1>7, <1>8, <1>9, <1>10
<1>12. PICK t \in ByteStrings : t = got \o Available
  BY StreamParts
<1>13. Line(t, h, pending, rest, Ahead) = Line(t \o h, <<>>, pending, rest, Ahead)
  BY LineSend
<1> QED BY <1>1, <1>2, <1>11, <1>12, <1>13, StreamParts, StreamNext

LEMMA ReadStream ==
    ASSUME MqttTypeOK, ReaderPlaces, ReaderNext
    PROVE  Stream' = Stream
<1>1. CASE ReadTcp
  BY <1>1, ReadTcpStream
<1>2. CASE ReadFrame
  BY <1>2, ReadFrameStream
<1>3. CASE Store
  BY <1>3, StoreStream
<1>4. CASE Send
  BY <1>4, SendStream
<1>5. CASE Top
  <2>1. hand = <<>> /\ UNCHANGED <<got, split, chunks, rest, arrived>>
    BY <1>5 DEF Top, ReaderOnly, dartVars, ReaderPlaces
  <2> QED BY <1>5, <2>1, FlushMoves, StillStream DEF Top
<1>6. CASE Tail_
  <2>1. hand = <<>> /\ UNCHANGED <<got, split, chunks, rest, arrived>>
    BY <1>6 DEF Tail_, ReaderOnly, dartVars, ReaderPlaces
  <2> QED BY <1>6, <2>1, FlushMoves, StillStream DEF Tail_
<1>7. CASE End
  <2>1. hand = <<>> /\ UNCHANGED <<got, split, chunks, rest, arrived>>
    BY <1>7 DEF End, ReaderOnly, dartVars, ReaderPlaces
  <2> QED BY <1>7, <2>1, FlushMoves, StillStream DEF End
<1>8. CASE React
  BY <1>8, StillStream DEF React, ReaderOnly, dartVars
<1>9. CASE Swap
  BY <1>9, StillStream DEF Swap, ReaderOnly, dartVars
<1>10. CASE Notify
  BY <1>10, StillStream DEF Notify, inVars
<1> QED BY <1>1, <1>2, <1>3, <1>4, <1>5, <1>6, <1>7, <1>8, <1>9, <1>10 DEF ReaderNext

LEMMA ReaderStep ==
    ASSUME MqttInv, ReaderNext
    PROVE  MqttInv'
<1>1. MqttTypeOK /\ ReaderPlaces
  BY DEF MqttInv, BudgetKept
<1>2. UNCHANGED <<outVars, born>>
  BY DEF ReaderNext, ReadTcp, Top, ReadFrame, Store, Tail_, React, End, Send, Swap, Notify,
       ReaderOnly, inVars
<1>3. MqttTypeOK' /\ ReaderPlaces' /\ Stream' = Stream
  BY <1>1, ReadTypes, ReadPlaces, ReadStream
<1> QED BY <1>2, <1>3 DEF MqttInv, BudgetKept, WriterHolds, AllThere, outVars
-----------------------------------------------------------------------------
(* The steps of the peer. *)
LEMMA PeerSendsStep ==
    ASSUME MqttInv, NEW n \in Sizes, PeerSends(n)
    PROVE  MqttInv'
<1>0. MqttTypeOK /\ ReaderPlaces /\ n \in Nat /\ born \in Nat /\ arrived \in Seq(Item)
  BY MqttAssumption DEF MqttInv, BudgetKept, MqttTypeOK
<1> DEFINE it == [kind |-> "data", bytes |-> Bytes(n)]
<1>1. /\ born' = born + n /\ arrived' = Append(arrived, it)
      /\ UNCHANGED <<mode, peer, readVars, chunks, flag, dartVars, controls, outVars, entry,
                     signals, watcher>>
  BY DEF PeerSends
<1>2. Bytes(n) \in ByteStrings
  <2>1. Bytes(n) \in [1..n -> Nat]
    BY <1>0 DEF Bytes
  <2> QED BY <1>0, <2>1 DEF ByteStrings
<1>3. it \in Item /\ it.kind = "data" /\ it.bytes = Bytes(n)
  BY <1>2 DEF Item, ByteStrings
<1> HIDE DEF it
<1>4. arrived' \in Seq(Item) /\ Len(arrived') = Len(arrived) + 1
      /\ arrived'[Len(arrived) + 1] = it /\ \A i \in 1..Len(arrived) : arrived'[i] = arrived[i]
  BY <1>0, <1>1, <1>3, AppendProperties
<1>5. MqttTypeOK'
  <2>1. items' \in 0..MaxItems /\ born' \in Nat
    BY <1>0, MqttAssumption DEF PeerSends, MqttTypeOK
  <2> QED BY <1>0, <1>1, <1>4, <2>1 DEF MqttTypeOK, readVars, dartVars, outVars
<1>6. ReaderPlaces'
  <2>1. \A i \in 1..Len(arrived') : arrived'[i].kind # "data" => arrived'[i].bytes = <<>>
    <3> TAKE i \in 1..Len(arrived')
    <3>1. CASE i = Len(arrived) + 1
      BY <1>3, <1>4, <3>1
    <3>2. CASE i # Len(arrived) + 1
      <4>1. i \in 1..Len(arrived)
        BY <1>0, <1>4, <3>2
      <4> QED BY <1>0, <1>4, <4>1 DEF ReaderPlaces
    <3> QED BY <3>1, <3>2
  <2> QED BY <1>0, <1>1, <2>1 DEF ReaderPlaces, readVars
<1>7. AllThere'
  <2>1. PICK a \in ByteStrings : a = Ahead
    BY <1>0, StreamParts
  <2>2. PICK b \in ByteStrings : b = Bytes(n)
    BY <1>2
  <2>3. Ahead' = a \o b
    BY <1>0, <1>1, <1>3, <2>1, <2>2, WaitingAppend DEF Ahead
  <2>4. UNCHANGED <<got \o Available, hand, pending, rest>>
    BY <1>1 DEF readVars, dartVars, Available
  <2>5. PICK t \in ByteStrings : t = got \o Available
    BY <1>0, StreamParts
  <2>6. Line(t, hand, pending, rest, a \o b) = Line(t, hand, pending, rest, a) \o b
    <3>1. PICK h \in ByteStrings : h = hand
      BY <1>0, StreamParts
    <3>2. PICK p \in ByteStrings : p = pending
      BY <1>0, StreamParts
    <3>3. PICK r \in ByteStrings : r = rest
      BY <1>0, StreamParts
    <3>4. PICK x \in ByteStrings : x = t \o h \o p \o r
      BY LineFront
    <3>5. x \o (a \o b) = (x \o a) \o b
      BY Associative
    <3> QED BY <3>1, <3>2, <3>3, <3>4, <3>5 DEF Line
  <2>7. Stream' = Stream \o b
    BY <1>0, <2>1, <2>3, <2>4, <2>5, <2>6, StreamParts, StreamNext
  <2>8. PICK s : s = Stream
    OBVIOUS
  <2>9. s = [k \in 1..born |-> k]
    BY <2>8 DEF MqttInv, AllThere
  <2>10. s \in ByteStrings /\ Len(s) = born /\ \A k \in 1..born : s[k] = k
    <3>1. [k \in 1..born |-> k] \in [1..born -> Nat]
      BY <1>0
    <3> QED BY <1>0, <2>9, <3>1 DEF ByteStrings
  <2>11. Len(b) = n /\ \A k \in 1..n : b[k] = born + k
    BY <1>0, <2>2 DEF Bytes
  <2>12. /\ s \o b \in ByteStrings /\ Len(s \o b) = born + n
         /\ \A i \in 1..(born + n) : (s \o b)[i] = IF i <= born THEN s[i] ELSE b[i - born]
    BY <2>10, <2>11, ConcatProperties DEF ByteStrings
  <2>13. PICK u : u = s \o b
    OBVIOUS
  <2>14. \A i \in 1..(born + n) : u[i] = i
    <3> TAKE i \in 1..(born + n)
    <3>1. CASE i <= born
      BY <1>0, <2>10, <2>12, <2>13, <3>1
    <3>2. CASE ~(i <= born)
      <4>1. i - born \in 1..n /\ born + (i - born) = i
        BY <1>0, <3>2
      <4> QED BY <2>11, <2>12, <2>13, <3>2, <4>1
    <3> QED BY <3>1, <3>2
  <2>15. u = [k \in 1..(born + n) |-> k]
    <3>1. u \in Seq(Nat) /\ Len(u) = born + n
      BY <2>12, <2>13 DEF ByteStrings
    <3>2. DOMAIN u = 1..(born + n) /\ u = [i \in 1..(born + n) |-> u[i]]
      BY <3>1, LenProperties
    <3> QED BY <2>14, <3>2
  <2> QED BY <1>1, <2>7, <2>8, <2>13, <2>15 DEF AllThere
<1>8. UNCHANGED outVars
  BY <1>1
<1> QED BY <1>5, <1>6, <1>7, <1>8 DEF MqttInv, BudgetKept, WriterHolds, outVars

LEMMA PeerControlsStep ==
    ASSUME MqttInv, NEW kind \in Controls, PeerControls(kind)
    PROVE  MqttInv'
<1>0. MqttTypeOK /\ ReaderPlaces /\ arrived \in Seq(Item)
  BY DEF MqttInv, BudgetKept, MqttTypeOK
<1> DEFINE it == [kind |-> kind, bytes |-> <<>>]
<1>1. /\ arrived' = Append(arrived, it)
      /\ UNCHANGED <<mode, peer, born, readVars, chunks, flag, dartVars, controls, outVars,
                     entry, signals, watcher>>
  BY DEF PeerControls
<1>2. it \in Item /\ it.bytes = <<>>
  BY DEF Item
<1> HIDE DEF it
<1>4. arrived' \in Seq(Item) /\ Len(arrived') = Len(arrived) + 1
      /\ arrived'[Len(arrived) + 1] = it /\ \A i \in 1..Len(arrived) : arrived'[i] = arrived[i]
  BY <1>0, <1>1, <1>2, AppendProperties
<1>5. MqttTypeOK'
  <2>1. items' \in 0..MaxItems
    BY <1>0, MqttAssumption DEF PeerControls, MqttTypeOK
  <2> QED BY <1>0, <1>1, <1>4, <2>1 DEF MqttTypeOK, readVars, dartVars, outVars
<1>6. ReaderPlaces'
  <2>1. \A i \in 1..Len(arrived') : arrived'[i].kind # "data" => arrived'[i].bytes = <<>>
    <3> TAKE i \in 1..Len(arrived')
    <3>1. CASE i = Len(arrived) + 1
      BY <1>2, <1>4, <3>1
    <3>2. CASE i # Len(arrived) + 1
      <4>1. i \in 1..Len(arrived)
        BY <1>0, <1>4, <3>2
      <4> QED BY <1>0, <1>4, <4>1 DEF ReaderPlaces
    <3> QED BY <3>1, <3>2
  <2> QED BY <1>0, <1>1, <2>1 DEF ReaderPlaces, readVars
<1>7. Stream' = Stream
  <2>1. PICK a \in ByteStrings : a = Ahead
    BY <1>0, StreamParts
  <2>2. Ahead' = a \o <<>>
    BY <1>0, <1>1, <1>2, <2>1, WaitingAppend DEF Ahead
  <2>3. Ahead' = Ahead
    BY <2>1, <2>2, Concats
  <2>4. UNCHANGED <<got \o Available, hand, pending, rest>>
    BY <1>1 DEF readVars, dartVars, Available
  <2> QED BY <1>0, <2>3, <2>4, StreamParts, StreamNext
<1> QED BY <1>1, <1>5, <1>6, <1>7 DEF MqttInv, BudgetKept, WriterHolds, AllThere, outVars
-----------------------------------------------------------------------------
(* The steps of Dart that concern the inbound side. *)
LEMMA DartTypesFollow ==
    ASSUME MqttTypeOK, UNCHANGED <<mode, inVars, readVars, controls, outVars, signals, watcher>>,
           chunks' \in Seq(ByteStrings), Len(chunks') <= ChunkCapacity,
           flag' \in BOOLEAN, wakeup' \in BOOLEAN, awake' \in BOOLEAN,
           dart' \in {"new", "asleep", "polling", "resetting", "retrying", "closed"},
           split' \in ByteStrings, got' \in ByteStrings, entry' \in {"open", "gone"}
    PROVE  MqttTypeOK'
BY DEF MqttTypeOK, ByteStrings, inVars, readVars, outVars

LEMMA ReceiveTypes ==
    ASSUME MqttTypeOK, Receive
    PROVE  /\ chunks' \in Seq(ByteStrings) /\ Len(chunks') <= ChunkCapacity
           /\ split' \in ByteStrings /\ got' \in ByteStrings
           /\ (got \o Available)' = got \o Available
<1>1. /\ got' \in ByteStrings /\ split' \in ByteStrings
      /\ chunks' \in Seq(ByteStrings) /\ Len(chunks') <= Len(chunks)
      /\ (got \o Available)' = got \o Available
  <2>1. PollLimit \in Nat
    BY MqttAssumption
  <2> QED BY <2>1, StreamParts, ReceiveMoves
<1>2. Len(chunks) <= ChunkCapacity /\ Len(chunks) \in Nat /\ ChunkCapacity \in Nat
  BY MqttAssumption DEF MqttTypeOK
<1>3. Len(chunks') \in Nat
  BY <1>1
<1> QED BY <1>1, <1>2, <1>3

LEMMA DartStep ==
    ASSUME MqttInv, DartNext
    PROVE  MqttInv'
<1>0. /\ MqttTypeOK /\ ReaderPlaces /\ chunks \in Seq(ByteStrings) /\ Len(chunks) <= ChunkCapacity
      /\ split \in ByteStrings /\ got \in ByteStrings /\ entry \in {"open", "gone"}
      /\ flag \in BOOLEAN /\ wakeup \in BOOLEAN /\ awake \in BOOLEAN
      /\ dart \in {"new", "asleep", "polling", "resetting", "retrying", "closed"}
  BY DEF MqttInv, BudgetKept, MqttTypeOK, ByteStrings
<1>1. UNCHANGED <<mode, inVars, readVars, controls, outVars, signals, watcher>> /\ entry' = entry
  BY DEF DartNext, Attach, PollChunk, PollEmpty, PollGone, Reset, Retry, Wake, DartOnly
<1>2. CASE Attach
  <2>1. wakeup' \in BOOLEAN
    <3>1. wakeup' = (entry = "open")
      BY <1>2 DEF Attach
    <3> QED BY <3>1, Zenon
  <2>2. MqttTypeOK'
    BY <1>0, <1>1, <1>2, <2>1, DartTypesFollow DEF Attach
  <2>3. Stream' = Stream
    BY <1>2, StillStream DEF Attach, DartOnly, readVars, inVars
  <2> QED BY <1>0, <1>1, <2>2, <2>3
      DEF MqttInv, BudgetKept, WriterHolds, AllThere, ReaderPlaces, outVars, readVars, inVars
<1>3. CASE Receive /\ UNCHANGED <<flag, wakeup, awake>>
           /\ dart' \in {"new", "asleep", "polling", "resetting", "retrying", "closed"}
  <2>1. MqttTypeOK'
    BY <1>0, <1>1, <1>3, ReceiveTypes, DartTypesFollow
  <2>2. UNCHANGED <<got \o Available, hand, pending, rest, Ahead>>
    BY <1>0, <1>1, <1>3, ReceiveTypes DEF readVars, inVars, Ahead
  <2>3. Stream' = Stream
    BY <1>0, <2>2, StreamParts, StreamNext
  <2> QED BY <1>0, <1>1, <2>1, <2>3
      DEF MqttInv, BudgetKept, WriterHolds, AllThere, ReaderPlaces, outVars, readVars, inVars
<1>4. CASE PollEmpty \/ PollGone \/ Reset \/ Wake
           \/ (Retry /\ UNCHANGED <<chunks, split, got>>)
  <2>1. /\ UNCHANGED <<chunks, split, got, wakeup>> /\ awake' \in BOOLEAN /\ flag' \in BOOLEAN
        /\ dart' \in {"new", "asleep", "polling", "resetting", "retrying", "closed"}
    BY <1>0, <1>4 DEF PollEmpty, PollGone, Reset, Wake, Retry
  <2>2. MqttTypeOK'
    BY <1>0, <1>1, <2>1, DartTypesFollow
  <2>3. Stream' = Stream
    BY <1>1, <2>1, StillStream DEF readVars, inVars
  <2> QED BY <1>0, <1>1, <2>2, <2>3
      DEF MqttInv, BudgetKept, WriterHolds, AllThere, ReaderPlaces, outVars, readVars, inVars
<1>5. CASE PollChunk
  <2>1. Receive /\ UNCHANGED <<flag, wakeup, awake, dart>>
    BY <1>5 DEF PollChunk
  <2> QED BY <1>0, <1>3, <2>1
<1>6. CASE Retry
  <2>1. \/ Receive /\ UNCHANGED <<flag, wakeup, awake>> /\ dart' = "polling"
        \/ UNCHANGED <<chunks, split, got>>
    BY <1>6 DEF Retry
  <2> QED BY <1>3, <1>4, <1>6, <2>1
<1> QED BY <1>2, <1>4, <1>5, <1>6 DEF DartNext
-----------------------------------------------------------------------------
(* The outbound side: the permits of a chunk go with it. *)
LEMMA OutTypesFollow ==
    ASSUME MqttInv, UNCHANGED <<mode, inVars, readVars, chunks, flag, dartVars, entry, watcher>>,
           outbound' \in Seq(Answers), Len(outbound') <= SendCapacity, permits' \in Nat,
           writer' \in {"idle", "writing", "done"}, writing' \in Outbound, WriterHolds',
           permits' + writing'.size + Sum(outbound') = Budget,
           controls' \in Seq({"pong", "close"}), Len(controls') <= 1,
           signals' \in Seq({"ReaderClosed", "ReaderGracefulClose", "WriterClosed"})
    PROVE  MqttInv'
<1>1. Answers \subseteq Nat /\ Budget \in Nat
  BY MqttAssumption
<1>2. outbound' \in Seq(Nat)
  BY <1>1, SeqMonotonic
<1>3. Sum(outbound') \in Nat
  BY <1>2, SumType
<1>4. writing'.size \in Nat
  BY DEF Outbound
<1>5. permits' \in 0..Budget
  BY <1>1, <1>3, <1>4
<1>6. MqttTypeOK'
  BY <1>5 DEF MqttInv, BudgetKept, MqttTypeOK, inVars, readVars, dartVars
<1>7. Stream' = Stream
  BY StillStream DEF inVars, readVars, dartVars
<1> QED BY <1>6, <1>7
    DEF MqttInv, BudgetKept, AllThere, ReaderPlaces, inVars, readVars, dartVars

LEMMA OutFacts ==
    ASSUME MqttInv
    PROVE  /\ outbound \in Seq(Answers) /\ outbound \in Seq(Nat) /\ Len(outbound) <= SendCapacity
           /\ permits \in Nat /\ Sum(outbound) \in Nat /\ Budget \in Nat
           /\ writing \in Outbound /\ writing.size \in Nat /\ WriterHolds
           /\ permits + writing.size + Sum(outbound) = Budget
           /\ writer \in {"idle", "writing", "done"}
           /\ controls \in Seq({"pong", "close"}) /\ Len(controls) <= 1
           /\ signals \in Seq({"ReaderClosed", "ReaderGracefulClose", "WriterClosed"})
<1>1. /\ outbound \in Seq(Answers) /\ Len(outbound) <= SendCapacity
      /\ permits \in 0..Budget /\ Budget \in Nat /\ writing \in Outbound /\ WriterHolds
      /\ permits + writing.size + Sum(outbound) = Budget
      /\ writer \in {"idle", "writing", "done"}
      /\ controls \in Seq({"pong", "close"}) /\ Len(controls) <= 1
      /\ signals \in Seq({"ReaderClosed", "ReaderGracefulClose", "WriterClosed"})
  BY MqttAssumption DEF MqttInv, BudgetKept, MqttTypeOK
<1>2. outbound \in Seq(Nat)
  <2>1. Answers \subseteq Nat
    BY MqttAssumption
  <2> QED BY <1>1, <2>1, SeqMonotonic
<1>3. Sum(outbound) \in Nat
  BY <1>2, SumType
<1>4. writing.size \in Nat
  BY <1>1 DEF Outbound
<1>5. permits \in Nat
  BY <1>1
<1> QED BY <1>1, <1>2, <1>3, <1>4, <1>5

LEMMA SendMqttChunkStep ==
    ASSUME MqttInv, NEW n \in Answers, SendMqttChunk(n)
    PROVE  MqttInv'
<1>1. n \in Nat /\ SendCapacity \in Nat
  BY MqttAssumption
<1>2. /\ UNCHANGED <<mode, inVars, readVars, chunks, flag, dartVars, entry, watcher>>
      /\ UNCHANGED <<writer, writing, controls, signals>>
  BY DEF SendMqttChunk
<1>3. WriterHolds'
  BY <1>2, OutFacts DEF WriterHolds
<1>4. CASE UNCHANGED <<permits, outbound>>
  BY <1>2, <1>3, <1>4, OutFacts, OutTypesFollow
<1>5. CASE /\ n <= permits /\ Len(outbound) < SendCapacity
           /\ permits' = permits - n /\ outbound' = Append(outbound, n)
  <2>1. outbound' \in Seq(Answers) /\ Len(outbound') <= SendCapacity
    BY <1>1, <1>5, OutFacts, AppendProperties
  <2>2. Sum(outbound') = Sum(outbound) + n
    BY <1>1, <1>5, OutFacts, SumAppend
  <2>3. permits' \in Nat /\ permits' + writing'.size + Sum(outbound') = Budget
    BY SMTT(30), <1>1, <1>2, <1>5, <2>2, OutFacts
  <2> QED BY <1>2, <1>3, <2>1, <2>3, OutFacts, OutTypesFollow
<1> QED BY <1>4, <1>5 DEF SendMqttChunk

LEMMA WriterTakesStep ==
    ASSUME MqttInv, WriterTakes
    PROVE  MqttInv'
<1>1. /\ UNCHANGED <<mode, inVars, readVars, chunks, flag, dartVars, entry, watcher>>
      /\ UNCHANGED <<permits, signals>> /\ writer = "idle" /\ writer' = "writing"
  BY DEF WriterTakes, WriterOnly
<1>2. writing.size = 0
  BY <1>1, OutFacts DEF WriterHolds, Nothing
<1>3. WriterHolds'
  BY <1>1 DEF WriterHolds
<1>4. CASE controls # <<>>
  <2>1. /\ controls' = Tail(controls) /\ writing' = [kind |-> Head(controls), size |-> 0]
        /\ outbound' = outbound
    BY <1>4 DEF WriterTakes
  <2>2. /\ controls' \in Seq({"pong", "close"}) /\ Len(controls') <= 1
        /\ Head(controls) \in {"pong", "close"}
    <3>1. /\ Tail(controls) \in Seq({"pong", "close"}) /\ Len(Tail(controls)) = Len(controls) - 1
          /\ Head(controls) \in {"pong", "close"} /\ Len(controls) \in Nat
      BY <1>4, OutFacts, HeadTailProperties
    <3> QED BY <2>1, <3>1, OutFacts
  <2>3. writing' \in Outbound /\ writing'.size = 0
    BY <2>1, <2>2 DEF Outbound
  <2>4. permits' + writing'.size + Sum(outbound') = Budget
    BY <1>1, <1>2, <2>1, <2>3, OutFacts
  <2> QED BY <1>1, <1>3, <2>1, <2>2, <2>3, <2>4, OutFacts, OutTypesFollow
<1>5. CASE controls = <<>>
  <2>1. /\ outbound # <<>> /\ outbound' = Tail(outbound) /\ controls' = controls
        /\ writing' = [kind |-> "data", size |-> Head(outbound)]
    BY <1>5 DEF WriterTakes
  <2>2. /\ Tail(outbound) \in Seq(Answers) /\ Len(Tail(outbound)) = Len(outbound) - 1
        /\ Head(outbound) \in Answers /\ Head(outbound) \in Nat /\ Len(outbound) \in Nat
        /\ Tail(outbound) \in Seq(Nat)
    BY <2>1, OutFacts, HeadTailProperties
  <2>3. Sum(outbound) = Head(outbound) + Sum(Tail(outbound))
    BY <2>1, OutFacts, SumTail
  <2>4. Sum(Tail(outbound)) \in Nat
    BY <2>2, SumType
  <2>5. writing' \in Outbound /\ writing'.size = Head(outbound)
    BY <2>1, <2>2 DEF Outbound
  <2>6. permits' + writing'.size + Sum(outbound') = Budget
    BY <1>1, <1>2, <2>1, <2>2, <2>3, <2>4, <2>5, OutFacts
  <2>7. Len(outbound') <= SendCapacity
    BY <2>1, <2>2, OutFacts, MqttAssumption
  <2> QED BY <1>1, <1>3, <2>1, <2>2, <2>5, <2>6, <2>7, OutFacts, OutTypesFollow
<1> QED BY <1>4, <1>5

LEMMA WriterEndsStep ==
    ASSUME MqttInv, WriterWrites \/ WriterFails
    PROVE  MqttInv'
<1>1. /\ UNCHANGED <<mode, inVars, readVars, chunks, flag, dartVars, entry, watcher>>
      /\ UNCHANGED <<outbound, controls>> /\ writer' \in {"idle", "done"}
      /\ permits' = permits + writing.size /\ writing' = Nothing
  BY DEF WriterWrites, WriterFails, WriterOnly
<1>2. signals' = signals \/ signals' = Append(signals, "WriterClosed")
  BY DEF WriterWrites, WriterFails
<1>3. signals' \in Seq({"ReaderClosed", "ReaderGracefulClose", "WriterClosed"})
  <2> DEFINE S == {"ReaderClosed", "ReaderGracefulClose", "WriterClosed"}
  <2>1. signals \in Seq(S) /\ "WriterClosed" \in S
    BY OutFacts
  <2> HIDE DEF S
  <2>2. signals' \in Seq(S)
    BY <1>2, <2>1, AppendProperties
  <2> QED BY <2>2 DEF S
<1>4. WriterHolds' /\ writing' \in Outbound /\ writing'.size = 0
  BY <1>1 DEF WriterHolds, Nothing, Outbound
<1>5. permits' \in Nat /\ permits' + writing'.size + Sum(outbound') = Budget
  BY <1>1, <1>4, OutFacts
<1> QED BY <1>1, <1>3, <1>4, <1>5, OutFacts, OutTypesFollow

(* The peer's leaving, the watcher and Dart's closing move nothing. *)
LEMMA OtherStep ==
    ASSUME MqttInv, PeerLeaves \/ WatcherHears \/ WatcherGrace \/ WatcherCloses \/ Close
    PROVE  MqttInv'
<1>1. /\ UNCHANGED <<mode, arrived, items, born, readVars, chunks, flag, awake, dart, split, got,
                     controls, outVars>>
      /\ peer' \in {peer, "left"} /\ watcher' \in {watcher, "grace", "closing", "done"}
      /\ entry' \in {entry, "gone"} /\ (wakeup' = wakeup \/ wakeup' = FALSE)
  BY DEF PeerLeaves, WatcherHears, WatcherGrace, WatcherCloses, Close, RemoveEntry, WatcherOnly,
     dartVars, inVars, outVars, readVars
<1>2. signals' \in Seq({"ReaderClosed", "ReaderGracefulClose", "WriterClosed"})
  <2> DEFINE S == {"ReaderClosed", "ReaderGracefulClose", "WriterClosed"}
  <2>1. signals' = signals \/ (signals # <<>> /\ signals' = Tail(signals))
    BY DEF PeerLeaves, WatcherHears, WatcherGrace, WatcherCloses, Close
  <2>2. signals \in Seq(S)
    BY OutFacts
  <2> HIDE DEF S
  <2>3. signals' \in Seq(S)
    BY <2>1, <2>2, HeadTailProperties
  <2> QED BY <2>3 DEF S
<1>3. MqttTypeOK'
  <2>1. MqttTypeOK
    BY DEF MqttInv, BudgetKept
  <2>2. wakeup' \in BOOLEAN
    BY <1>1, <2>1 DEF MqttTypeOK
  <2> QED BY <1>1, <1>2, <2>1, <2>2 DEF MqttTypeOK, readVars, outVars
<1>4. Stream' = Stream
  BY <1>1, StillStream DEF readVars
<1> QED BY <1>1, <1>3, <1>4
    DEF MqttInv, BudgetKept, AllThere, ReaderPlaces, WriterHolds, readVars, outVars

LEMMA MqttInitially == MqttInit => MqttInv
<1> SUFFICES ASSUME MqttInit PROVE MqttInv
  OBVIOUS
<1>1. MqttTypeOK
  <2>1. None \in Item /\ Nothing \in Outbound
    BY DEF None, Item, Nothing, Outbound
  <2>2. /\ <<>> \in Seq(Item) /\ <<>> \in Seq(Nat) /\ <<>> \in Seq(Seq(Nat))
        /\ <<>> \in Seq({"pong", "close"}) /\ <<>> \in Seq(Answers) /\ Len(<<>>) = 0
        /\ <<>> \in Seq({"ReaderClosed", "ReaderGracefulClose", "WriterClosed"})
    BY EmptySeq
  <2>3. 0 \in 0..MaxItems /\ Budget \in 0..Budget /\ 0 <= Limit /\ 0 <= ChunkCapacity
        /\ 0 <= SendCapacity /\ 0 <= 1 /\ 0 \in Nat
    BY MqttAssumption
  <2> QED BY <2>1, <2>2, <2>3 DEF MqttInit, MqttTypeOK
<1>2. ReaderPlaces /\ WriterHolds
  BY DEF MqttInit, ReaderPlaces, WriterHolds
<1>3. permits + writing.size + Sum(outbound) = Budget
  BY SumEmpty, MqttAssumption DEF MqttInit, Nothing
<1>4. AllThere
  <2>1. Ahead = <<>>
    <3>1. BytesOf(<<>>) = <<>>
      BY DEF BytesOf
    <3> QED BY <3>1, FlatEmpty DEF Ahead, MqttInit
  <2>2. Available = <<>> \o <<>> /\ got = <<>> /\ hand = <<>> /\ pending = <<>> /\ rest = <<>>
        /\ born = 0
    BY FlatEmpty DEF Available, MqttInit
  <2>3. <<>> \o <<>> = <<>>
    BY Concats
  <2>4. Stream = <<>>
    BY <2>1, <2>2, <2>3 DEF Stream, Ahead
  <2>5. [k \in 1..0 |-> k] = <<>>
    OBVIOUS
  <2> QED BY <2>2, <2>4, <2>5 DEF AllThere
<1> QED BY <1>1, <1>2, <1>3, <1>4 DEF MqttInv, BudgetKept

LEMMA MqttStep == MqttInv /\ [MqttNext]_mqttVars => MqttInv'
<1> SUFFICES ASSUME MqttInv, [MqttNext]_mqttVars PROVE MqttInv'
  OBVIOUS
<1>1. CASE UNCHANGED mqttVars
  <2>1. Stream' = Stream
    BY <1>1, StillStream DEF mqttVars, inVars, readVars, dartVars
  <2>2. MqttTypeOK'
    BY <1>1 DEF MqttInv, BudgetKept, MqttTypeOK, mqttVars, inVars, readVars, dartVars, outVars
  <2> QED BY <1>1, <2>1, <2>2
      DEF MqttInv, BudgetKept, AllThere, ReaderPlaces, WriterHolds, mqttVars, inVars, readVars,
          dartVars, outVars
<1>2. CASE MqttNext
  BY <1>2, PeerSendsStep, PeerControlsStep, OtherStep, ReaderStep, DartStep, SendMqttChunkStep,
     WriterTakesStep, WriterEndsStep
     DEF MqttNext
<1> QED BY <1>1, <1>2

LEMMA AlwaysMqttInv == MqttSpec => []MqttInv
BY MqttInitially, MqttStep, PTL DEF MqttSpec

(* No byte is lost, doubled or moved between the socket and Dart           *)
(* (try_recv_limited and the gathering of the WebSocket reader), for all   *)
(* sizes of chunks and buffers, over TCP and WebSocket.                    *)
THEOREM BytesStayInOrder == MqttSpec => []InOrder
<1>1. MqttInv => InOrder
  <2> SUFFICES ASSUME MqttInv PROVE InOrder
    OBVIOUS
  <2>1. MqttTypeOK /\ born \in Nat
    BY DEF MqttInv, BudgetKept, MqttTypeOK
  <2>2. PICK p : p = got \o Available \o hand \o pending \o rest
    OBVIOUS
  <2>3. PICK a \in ByteStrings : a = Ahead
    BY <2>1, StreamParts
  <2>4. p \in ByteStrings
    <3>1. PICK t \in ByteStrings : t = got \o Available
      BY <2>1, StreamParts
    <3>2. PICK h \in ByteStrings : h = hand
      BY <2>1, StreamParts
    <3>3. PICK q \in ByteStrings : q = pending
      BY <2>1, StreamParts
    <3>4. PICK r \in ByteStrings : r = rest
      BY <2>1, StreamParts
    <3>5. t \o h \o q \o r \in ByteStrings
      BY LineFront
    <3> QED BY <2>2, <3>1, <3>2, <3>3, <3>4, <3>5
  <2>5. p \o a = [k \in 1..born |-> k]
    BY <2>2, <2>3 DEF MqttInv, AllThere, Stream, Ahead
  <2>6. /\ Len(p) \in Nat /\ Len(a) \in Nat /\ DOMAIN p = 1..Len(p)
        /\ Len(p \o a) = Len(p) + Len(a) /\ DOMAIN (p \o a) = 1..(Len(p) + Len(a))
        /\ \A i \in 1..(Len(p) + Len(a)) : (p \o a)[i] = IF i <= Len(p) THEN p[i] ELSE a[i - Len(p)]
    BY <2>3, <2>4, ConcatProperties, LenProperties DEF ByteStrings
  <2>7. 1..(Len(p) + Len(a)) = 1..born
    BY <2>5, <2>6
  <2>8. \A k \in 1..Len(p) : p[k] = k
    <3> TAKE k \in 1..Len(p)
    <3>1. k \in 1..(Len(p) + Len(a)) /\ k <= Len(p)
      BY <2>6
    <3>2. (p \o a)[k] = p[k]
      BY <2>6, <3>1
    <3>3. (p \o a)[k] = k
      BY <2>5, <2>7, <3>1
    <3> QED BY <3>2, <3>3
  <2> QED BY <2>2, <2>6, <2>8 DEF InOrder
<1> QED BY <1>1, AlwaysMqttInv, PTL

(* The byte budget is what is not queued or being written                  *)
(* (MqttOutboundQueue), and every channel and chunk keeps its bound.       *)
THEOREM BudgetHolds == MqttSpec => []BudgetKept
<1>1. MqttInv => BudgetKept
  BY DEF MqttInv
<1> QED BY <1>1, AlwaysMqttInv, PTL
=============================================================================
