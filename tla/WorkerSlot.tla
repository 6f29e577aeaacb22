----------------------------- MODULE WorkerSlot -----------------------------
(***************************************************************************)
(* The boss hands messages to a worker (router_boss.dart,                  *)
(* _dispatchMessages) one at a time: it marks the worker busy, and the     *)
(* worker's ready event for that connection frees it.  Connections come    *)
(* and go meanwhile: the boss detaches one when the native runtime does    *)
(* not know it any more, when its send queue is full or when it is idle.   *)
(*                                                                         *)
(* One worker; boss and worker exchange commands and events by ports,      *)
(* which keep the order.  A message is a flag of its connection: the       *)
(* native runtime has one to poll.                                         *)
(***************************************************************************)
EXTENDS Naturals, Sequences, FiniteSets, SequencesExt

CONSTANTS Peer,     (* connections the listener accepts, by their peer       *)
          Talking,  (* those whose peer sends messages                       *)
          Leaving,  (* those whose peer may go                               *)
          Slow,     (* those whose send queue may be full                    *)
          Idle,     (* those whose realm has an idle limit                   *)
          MaxFail   (* bound: handlers that fail                             *)

ASSUME SlotAssumption ==
    /\ IsFiniteSet(Peer) /\ Peer # {}
    /\ Talking \subseteq Peer /\ Leaving \subseteq Peer
    /\ Slow \subseteq Peer /\ Idle \subseteq Peer
    /\ MaxFail \in Nat

VARIABLES fresh,    (* connections not accepted yet                          *)
          conns,    (* worker.connections; its members have the worker as    *)
                    (* their _connectionOwners entry                         *)
          cursor,   (* worker.connectionCursor                               *)
          busy,     (* worker.busy                                           *)
          inbox,    (* native runtime: connections with a message to poll    *)
          lost,     (* native runtime: connections not found                 *)
          cmds,     (* the worker's command port                             *)
          events,   (* the boss's event port                                 *)
          running,  (* handlers at work, by connection                       *)
          removed,  (* connections the worker was told to remove             *)
          revived,  (* history: a message of such a connection was processed *)
          failed    (* handlers that failed                                  *)

slotVars == <<fresh, conns, cursor, busy, inbox, lost, cmds, events, running,
          removed, revived, failed>>

Command == {"process", "remove"} \X Peer
Event == {"send", "error", "ready", "removed"} \X Peer

SlotTypeOK ==
    /\ fresh \subseteq Peer
    /\ conns \in Seq(Peer) /\ IsInjective(conns)
    /\ cursor \in 0..(Cardinality(Peer) - 1)
    /\ busy \in BOOLEAN
    /\ inbox \subseteq Peer
    /\ lost \subseteq Peer
    /\ cmds \in Seq(Command)
    /\ events \in Seq(Event)
    /\ running \in [Peer -> Nat]
    /\ removed \subseteq Peer
    /\ revived \in BOOLEAN
    /\ failed \in 0..MaxFail

(* _handleWorkerRegister: the worker starts with the connection it was     *)
(* spawned for, and its first ready event is on the way.                   *)
SlotInit ==
    /\ \E c \in Peer : /\ fresh = Peer \ {c}
                       /\ conns = <<c>>
                       /\ events = <<<<"ready", c>>>>
    /\ cursor = 0
    /\ busy = FALSE
    /\ inbox = {} /\ lost = {}
    /\ cmds = <<>>
    /\ running = [c \in Peer |-> 0]
    /\ removed = {}
    /\ revived = FALSE
    /\ failed = 0

Owned(c) == Contains(conns, c)
-----------------------------------------------------------------------------
(* _assignConnection *)
Accept(c) ==
    /\ c \in fresh
    /\ fresh' = fresh \ {c}
    /\ conns' = Append(conns, c)
    /\ UNCHANGED <<cursor, busy, inbox, lost, cmds, events, running, removed,
                   revived, failed>>

(* The peer sends a message; the peer goes. *)
Arrive(c) ==
    /\ c \in Talking \ (fresh \cup lost \cup inbox)
    /\ inbox' = inbox \cup {c}
    /\ UNCHANGED <<fresh, conns, cursor, busy, lost, cmds, events, running,
                   removed, revived, failed>>

Lose(c) ==
    /\ c \in Leaving \ (fresh \cup lost)
    /\ lost' = lost \cup {c}
    /\ UNCHANGED <<fresh, conns, cursor, busy, inbox, cmds, events, running,
                   removed, revived, failed>>

(* The loop over the connections: found holds the connection with a        *)
(* message, list the connections left, gone the ones that were detached.   *)
Scan(start, list, found, at, gone) ==
    [start |-> start, list |-> list, found |-> found, at |-> at, gone |-> gone]

(* _pollHandleForConnection at step i of the loop *)
Poll(acc, i) ==
    LET at == (acc.start + i) % Len(acc.list)
        c == acc.list[at + 1] IN
    IF acc.found # <<>> \/ i >= Len(acc.list) THEN acc
    ELSE IF c \in lost
         THEN Scan(acc.start, RemoveAt(acc.list, at + 1), <<>>, at, Append(acc.gone, c))
         ELSE IF c \in inbox THEN Scan(acc.start, acc.list, <<c>>, at, acc.gone)
                             ELSE acc

Polled(start) ==
    LET scan[i \in 0..Len(conns)] ==
            IF i = 0 THEN Scan(start, conns, <<>>, 0, <<>>)
            ELSE Poll(scan[i - 1], i - 1)
    IN scan[Len(conns)]

(* Mutant of NextCursor: the cursor stays at the connection it found. *)
NextCursorStuck(poll) ==
    IF poll.list = <<>> THEN 0
    ELSE (IF poll.found # <<>> THEN poll.at ELSE poll.start + 1)
             % Len(poll.list)

(* The scan goes on behind the connection that was served. *)
NextCursor(poll) ==
    IF poll.list = <<>> THEN 0
    ELSE (IF poll.found # <<>> THEN poll.at + 1 ELSE poll.start + 1)
             % Len(poll.list)

(* _dispatchMessages for the worker *)
Dispatch ==
    /\ ~busy /\ conns # <<>>
    /\ LET poll == Polled(cursor % Len(conns))
           command(kind, cs) == [i \in DOMAIN cs |-> <<kind, cs[i]>>] IN
       /\ conns' = poll.list
       /\ cursor' = NextCursor(poll)
       /\ busy' = (poll.found # <<>>)
       /\ inbox' = inbox \ ToSet(poll.found)
       /\ cmds' = cmds \o command("remove", poll.gone)
                       \o command("process", poll.found)
    /\ UNCHANGED <<fresh, lost, events, running, removed, revived, failed>>

(* _detachConnection *)
Detach(c) ==
    /\ conns' = RemoveFirst(conns, c)
    /\ cmds' = IF Owned(c) THEN Append(cmds, <<"remove", c>>) ELSE cmds

(* _expireIdleConnections *)
ExpireIdle(c) ==
    /\ c \in Idle /\ Owned(c)
    /\ Detach(c)
    /\ UNCHANGED <<fresh, cursor, busy, inbox, lost, events, running, removed,
                   revived, failed>>
-----------------------------------------------------------------------------
(* The worker's command port *)
WorkerProcess ==
    /\ cmds # <<>> /\ Head(cmds)[1] = "process"
    /\ LET c == Head(cmds)[2] IN
       /\ running' = [running EXCEPT ![c] = @ + 1]
       /\ revived' = (revived \/ c \in removed)
    /\ cmds' = Tail(cmds)
    /\ UNCHANGED <<fresh, conns, cursor, busy, inbox, lost, events, removed, failed>>

WorkerRemove ==
    /\ cmds # <<>> /\ Head(cmds)[1] = "remove"
    /\ LET c == Head(cmds)[2] IN
       /\ removed' = removed \cup {c}
       /\ events' = Append(events, <<"removed", c>>)
    /\ cmds' = Tail(cmds)
    /\ UNCHANGED <<fresh, conns, cursor, busy, inbox, lost, running, revived, failed>>

(* processMessage ends: what it sent, an error if it threw, ready. *)
Finish(c, sent, throws) ==
    /\ running[c] > 0
    /\ running' = [running EXCEPT ![c] = @ - 1]
    /\ failed' = IF throws THEN failed + 1 ELSE failed
    /\ failed' <= MaxFail
    /\ events' = events \o sent
                        \o (IF throws THEN <<<<"error", c>>>> ELSE <<>>)
                        \o <<<<"ready", c>>>>
    /\ UNCHANGED <<fresh, conns, cursor, busy, inbox, lost, cmds, removed, revived>>

(* A handler may send to a connection that is slow. *)
Sends == {<<>>} \cup {<<<<"send", d>>>> : d \in Slow}
-----------------------------------------------------------------------------
(* The boss's event port *)
(* Mutant of BossReady: only an error frees the worker. *)
BossReadyIgnored ==
    /\ events # <<>> /\ Head(events)[1] \in {"ready", "error"}
    /\ busy' = (busy /\ ~(Head(events)[1] = "error" /\ Owned(Head(events)[2])))
    /\ events' = Tail(events)
    /\ UNCHANGED <<fresh, conns, cursor, inbox, lost, cmds, running, removed,
                   revived, failed>>

BossReady ==
    /\ events # <<>> /\ Head(events)[1] \in {"ready", "error"}
    /\ busy' = (busy /\ ~Owned(Head(events)[2]))
    /\ events' = Tail(events)
    /\ UNCHANGED <<fresh, conns, cursor, inbox, lost, cmds, running, removed,
                   revived, failed>>

BossRemoved ==
    /\ events # <<>> /\ Head(events)[1] = "removed"
    /\ conns' = RemoveFirst(conns, Head(events)[2])
    /\ events' = Tail(events)
    /\ UNCHANGED <<fresh, cursor, busy, inbox, lost, cmds, running, removed,
                   revived, failed>>

(* worker_send: enqueued, or the queue is full and the slow peer detached; *)
(* closing it in the native runtime may take effect later (Lose).          *)
BossSend ==
    /\ events # <<>> /\ Head(events)[1] = "send"
    /\ LET d == Head(events)[2] IN
       \/ UNCHANGED <<conns, cmds>>
       \/ d \notin lost /\ Detach(d)
    /\ events' = Tail(events)
    /\ UNCHANGED <<fresh, cursor, busy, inbox, lost, running, removed, revived,
                   failed>>

SlotNext ==
    \/ \E c \in Peer : \/ Accept(c) \/ Arrive(c) \/ Lose(c) \/ ExpireIdle(c)
                       \/ \E sent \in Sends, throws \in BOOLEAN :
                             Finish(c, sent, throws)
    \/ Dispatch
    \/ WorkerProcess \/ WorkerRemove
    \/ BossReady \/ BossRemoved \/ BossSend

SlotSpec == SlotInit /\ [][SlotNext]_slotVars

(* The boss loops, both isolates read their ports, handlers come to an end. *)
Fairness ==
    /\ WF_slotVars(Dispatch)
    /\ WF_slotVars(WorkerProcess \/ WorkerRemove)
    /\ WF_slotVars(BossReady \/ BossRemoved \/ BossSend)
    /\ \A c \in Talking :
          WF_slotVars(\E sent \in Sends, throws \in BOOLEAN : Finish(c, sent, throws))

FairSpec == SlotSpec /\ Fairness
-----------------------------------------------------------------------------
(* A handler of c is to run, runs, or has ended and the boss does not know. *)
Outstanding(c) ==
    \/ Contains(cmds, <<"process", c>>)
    \/ running[c] > 0
    \/ Contains(events, <<"ready", c>>)

(* A busy worker has a handler whose end will free it. *)
SlotReturns == busy => \E c \in Peer : Owned(c) /\ Outstanding(c)

(* Whatever the other connections do, a message of a connection whose peer *)
(* stays is handled, or the connection detached.                           *)
Served ==
    \A c \in Talking \ Leaving : c \in inbox ~> (c \notin inbox \/ ~Owned(c))

(* The worker processes no message of a connection it has removed, which   *)
(* would give the connection a new state nobody removes.                   *)
NoRevival == ~revived

(* The boss's view of a worker is sound: it is busy only while something   *)
(* will free it, the cursor stays in the list of connections, and no       *)
(* message is handled after the removal of its connection.                 *)
SlotSound == SlotTypeOK /\ SlotReturns /\ NoRevival
=============================================================================
