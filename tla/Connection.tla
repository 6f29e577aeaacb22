----------------------------- MODULE Connection -----------------------------
(***************************************************************************)
(* One RawSocket or WebSocket connection of the native runtime (ct_core    *)
(* lib.rs): its registry entry, the reader, writer, heartbeat and watcher  *)
(* tasks that serve it, the outbound queue with its write receipts, and    *)
(* the ways it can end.                                                    *)
(*                                                                         *)
(* Every await of a task is a step; an abort takes effect at one.  A frame *)
(* is its type, the number of the Dart call that queued it (0: a task did) *)
(* and what goes wrong with it, if anything: a deferred segment that       *)
(* cannot be prepared, a length the raw socket's header cannot hold.       *)
(***************************************************************************)
EXTENDS Naturals, Sequences, FiniteSets, SequencesExt

CONSTANTS Kinds,        (* transports looked at: "raw", "ws"                 *)
          Capacity,     (* outbound_send_queue_capacity                      *)
          FrameCapacity,(* capacity of the channel of parsed messages        *)
          Timers,       (* what endpoints set: heartbeat_interval or         *)
                        (* idle_timeout                                      *)
          Items,        (* what the peer may send                            *)
          Qualities,    (* what frames Dart sends                            *)
          MaxIn,        (* bound: items the peer sends                       *)
          MaxSend,      (* bound: frames and barriers Dart queues            *)
          MaxPings      (* bound: heartbeat pings                            *)

ASSUME ConnectionAssumption ==
    /\ Kinds \subseteq {"raw", "ws"}
    /\ Capacity \in Nat \ {0} /\ FrameCapacity \in Nat \ {0}
    /\ Timers \subseteq SUBSET {"heartbeat", "idle"}
    /\ Items \subseteq {"msg", "unparsable", "ping", "pong", "bad", "close"}
    /\ Qualities \subseteq {"good", "unprepared", "unencodable", "barrier"}
    /\ MaxIn \in Nat /\ MaxSend \in Nat /\ MaxPings \in Nat

VARIABLES kind,
          timers,     (* the endpoint's                                      *)
          entry,      (* in ListenerRegistry.connections: none, pending,     *)
                      (* open, gone                                          *)
          reg,        (* the registering thread: idle, answering, spawned,   *)
                      (* done                                                *)
          peer,       (* "up", "silent" (reads and sends no more), "left"    *)
          inbox,      (* what the reader has not read                        *)
          sent,       (* items the peer sent                                 *)
          reader,     (* none, reading, deliver, pong, close, done           *)
          frames,     (* parsed messages Dart has not polled                 *)
          queue,      (* the outbound channel                                *)
          writer,     (* none, idle, preparing, writing, flushing,           *)
                      (* lastClose, done                                     *)
          hand,       (* the frame the writer has taken                      *)
          wire,       (* what went to the socket, whole or in part           *)
          outcome,    (* write receipts by number                            *)
          beat,       (* heartbeat task: none, ticking, sending, done        *)
          awaiting,   (* a pong is awaited                                   *)
          pongs,      (* the heartbeat's channel                             *)
          pings,      (* pings sent                                          *)
          signals,    (* the tasks' channel to the watcher                   *)
          watcher,    (* none, waiting, grace, closing, done                 *)
          aborts,     (* tasks told to abort                                 *)
          grace,      (* WEBSOCKET_CLOSE_GRACE is running                    *)
          missed      (* history: the watcher closed before the insertion    *)

ioVars == <<inbox, sent, peer>>
outVars == <<queue, writer, hand, wire, outcome>>
beatVars == <<beat, awaiting, pongs, pings>>
endVars == <<signals, watcher, aborts, grace, missed>>
vars == <<kind, timers, entry, reg, peer, inbox, sent, reader, frames, queue, writer,
          hand, wire, outcome, beat, awaiting, pongs, pings, signals, watcher,
          aborts, grace, missed>>

NoFrame == [type |-> "none", id |-> 0, quality |-> "good"]
FrameOf(type, id, quality) == [type |-> type, id |-> id, quality |-> quality]
Control(type) == FrameOf(type, 0, "good")
Frame == [type : {"none", "msg", "ping", "pong", "close", "barrier"},
          id : 0..MaxSend, quality : {"good", "unprepared", "unencodable"}]

TypeOK ==
    /\ kind \in Kinds /\ timers \in Timers
    /\ entry \in {"none", "pending", "open", "gone"}
    /\ reg \in {"idle", "answering", "spawned", "done"}
    /\ peer \in {"up", "silent", "left"}
    /\ inbox \in Seq(Items) /\ sent \in 0..MaxIn
    /\ reader \in {"none", "reading", "deliver", "pong", "close", "done"}
    /\ frames \in 0..FrameCapacity
    /\ queue \in Seq(Frame) /\ Len(queue) <= Capacity
    /\ writer \in {"none", "idle", "preparing", "writing", "flushing", "lastClose", "done"}
    /\ hand \in Frame
    /\ wire \in Seq([frame : Frame, whole : BOOLEAN])
    /\ outcome \in Seq({"Pending", "Written", "Abandoned"}) /\ Len(outcome) <= MaxSend
    /\ beat \in {"none", "ticking", "sending", "done"}
    /\ awaiting \in BOOLEAN /\ pongs \in 0..MaxIn /\ pings \in 0..MaxPings
    /\ signals \in Seq({"ReaderClosed", "ReaderGracefulClose", "WriterClosed"})
    /\ watcher \in {"none", "waiting", "grace", "closing", "done"}
    /\ aborts \subseteq {"reader", "writer", "beat"}
    /\ grace \in BOOLEAN /\ missed \in BOOLEAN

(* A raw socket is registered once its handshake is through; a WebSocket   *)
(* has a pending entry until Dart accepts or rejects it.                   *)
Init ==
    /\ kind \in Kinds /\ timers \in Timers
    /\ entry = IF kind = "raw" THEN "none" ELSE "pending"
    /\ reg = "idle" /\ peer = "up" /\ inbox = <<>> /\ sent = 0
    /\ reader = "none" /\ frames = 0
    /\ queue = <<>> /\ writer = "none" /\ hand = NoFrame /\ wire = <<>>
    /\ outcome = <<>>
    /\ beat = "none" /\ awaiting = FALSE /\ pongs = 0 /\ pings = 0
    /\ signals = <<>> /\ watcher = "none" /\ aborts = {} /\ grace = FALSE
    /\ missed = FALSE
-----------------------------------------------------------------------------
(* Registration.                                                           *)

(* The tasks begin: heartbeat, reader, writer, watcher.                    *)
Spawn ==
    /\ reader' = "reading" /\ writer' = "idle" /\ watcher' = "waiting"
    /\ beat' = IF "heartbeat" \in timers THEN "ticking" ELSE "none"
    /\ reg' = "spawned"

RegisterRaw ==
    /\ kind = "raw" /\ reg = "idle" /\ Spawn
    /\ UNCHANGED <<kind, timers, entry, ioVars, frames, queue, hand, wire, outcome,
                   awaiting, pongs, pings, signals, aborts, grace, missed>>

(* take_websocket_handshake: one caller gets it.                           *)
TakeHandshake ==
    /\ kind = "ws" /\ reg = "idle" /\ entry = "pending"
    /\ reg' = "answering"
    /\ UNCHANGED <<kind, timers, entry, ioVars, reader, frames, outVars, beatVars, endVars>>

(* accept_websocket_connection: the response may fail to go out, and the   *)
(* entry may be gone by then.                                              *)
AcceptWebSocket ==
    /\ reg = "answering" /\ entry = "pending" /\ Spawn
    /\ UNCHANGED <<kind, timers, entry, ioVars, frames, queue, hand, wire, outcome,
                   awaiting, pongs, pings, signals, aborts, grace, missed>>

AcceptFails ==
    /\ reg = "answering" /\ (entry # "pending" \/ peer # "up")
    /\ reg' = "done"
    /\ UNCHANGED <<kind, timers, entry, ioVars, reader, frames, outVars, beatVars, endVars>>

(* reject_websocket_connection: no abort, only the entry goes.             *)
RejectWebSocket ==
    /\ reg = "answering"
    /\ reg' = "done" /\ entry' = "gone"
    /\ UNCHANGED <<kind, timers, ioVars, reader, frames, outVars, beatVars, endVars>>

(* The entry is inserted after the tasks have begun, over whatever is      *)
(* there.                                                                  *)
InsertEntry ==
    /\ reg = "spawned"
    /\ reg' = "done" /\ entry' = "open"
    /\ UNCHANGED <<kind, timers, ioVars, reader, frames, outVars, beatVars, endVars>>
-----------------------------------------------------------------------------

(* remove_connection.  The raw socket's tasks are aborted; the WebSocket's *)
(* writer may drain for WEBSOCKET_CLOSE_GRACE.  Not found: nothing.        *)
RemoveEntry ==
    CASE entry = "open" ->
           /\ entry' = "gone"
           /\ aborts' = aborts \cup (IF kind = "raw" THEN {"reader", "writer", "beat"}
                                                     ELSE {"reader", "beat"})
           /\ grace' = (kind = "ws")
      [] entry = "pending" -> entry' = "gone" /\ UNCHANGED <<aborts, grace>>
      [] OTHER -> UNCHANGED <<entry, aborts, grace>>

(* A task closes, perhaps before the entry is there: it will not try again. *)
TaskCloses == RemoveEntry /\ missed' = (missed \/ reg = "spawned")

GraceExpires ==
    /\ grace
    /\ grace' = FALSE /\ aborts' = aborts \cup {"writer"}
    /\ UNCHANGED <<kind, timers, entry, reg, ioVars, reader, frames, outVars, beatVars,
                   signals, watcher, missed>>

(* close_connection by Dart.                                               *)
Close ==
    /\ entry \in {"pending", "open"} /\ RemoveEntry
    /\ UNCHANGED <<kind, timers, reg, ioVars, reader, frames, outVars, beatVars, signals,
                   watcher, missed>>

(* ListenerRegistry::shutdown: every task is aborted, a WebSocket's writer *)
(* too.                                                                    *)
Shutdown ==
    /\ entry \in {"pending", "open"}
    /\ entry' = "gone"
    /\ aborts' = IF entry = "open" THEN {"reader", "writer", "beat"} ELSE aborts
    /\ UNCHANGED <<kind, timers, reg, ioVars, reader, frames, outVars, beatVars, signals,
                   watcher, grace, missed>>
-----------------------------------------------------------------------------
(* The outbound channel.                                                   *)
Full == Len(queue) = Capacity
ReceiverGone == writer \in {"none", "done"}

(* Frames in the channel and in hand are dropped: WriteGuard::drop.        *)
Abandon(ids) ==
    [i \in DOMAIN outcome |-> IF i \in ids /\ outcome[i] = "Pending"
                              THEN "Abandoned" ELSE outcome[i]]
Waiting == {queue[i].id : i \in DOMAIN queue} \cup {hand.id}

(* enqueue_frame: refused when there is no entry, at capacity, and when    *)
(* the writer is gone.                                                     *)
Send(quality) ==
    /\ entry = "open" /\ ~Full /\ ~ReceiverGone /\ Len(outcome) < MaxSend
    /\ quality = "unencodable" => kind = "raw"
    /\ outcome' = Append(outcome, "Pending")
    /\ queue' = Append(queue,
          IF quality = "barrier" THEN FrameOf("barrier", Len(outcome) + 1, "good")
                                 ELSE FrameOf("msg", Len(outcome) + 1, quality))
    /\ UNCHANGED <<kind, timers, entry, reg, ioVars, reader, frames, writer, hand, wire,
                   beatVars, endVars>>

(* Nothing can be sent any more: rx.recv() gives None.                     *)
NoSender ==
    /\ entry # "open" /\ reg # "spawned" /\ reader = "done"
    /\ beat \in {"none", "done"}
-----------------------------------------------------------------------------
(* The writer task.                                                        *)
WriterOnly == <<kind, timers, entry, reg, ioVars, reader, frames, beatVars, watcher,
                aborts, grace, missed>>

WriterRuns == writer \notin {"none", "done"}

(* The task ends: its channel goes with all that is in it.                 *)
WriterEnds ==
    /\ writer' = "done" /\ queue' = <<>> /\ hand' = NoFrame
    /\ outcome' = Abandon(Waiting)
    /\ signals' = Append(signals, "WriterClosed")

WriterTakes ==
    /\ writer = "idle" /\ queue # <<>>
    /\ hand' = Head(queue) /\ queue' = Tail(queue)
    /\ writer' = "preparing"
    /\ UNCHANGED <<WriterOnly, wire, outcome, signals>>

(* The channel is closed: a WebSocket says goodbye.                        *)
WriterDrained ==
    /\ writer = "idle" /\ queue = <<>> /\ NoSender
    /\ IF kind = "ws"
       THEN writer' = "lastClose" /\ UNCHANGED <<queue, hand, outcome, signals>>
       ELSE WriterEnds
    /\ UNCHANGED <<WriterOnly, wire>>

(* resolve_deferred_segment, and what the frame's type asks for.  A frame  *)
(* whose header cannot be encoded is skipped by the raw socket's writer.   *)
WriterPrepares ==
    /\ writer = "preparing"
    /\ CASE hand.quality = "unprepared" -> WriterEnds
         [] hand.type = "barrier" ->
              writer' = "flushing" /\ UNCHANGED <<queue, hand, outcome, signals>>
         [] kind = "raw" /\ (hand.quality = "unencodable" \/ hand.type = "close") ->
              /\ writer' = "idle" /\ hand' = NoFrame /\ outcome' = Abandon({hand.id})
              /\ UNCHANGED <<queue, signals>>
         [] OTHER -> writer' = "writing" /\ UNCHANGED <<queue, hand, outcome, signals>>
    /\ UNCHANGED <<WriterOnly, wire>>

WriterWrites ==
    /\ writer = "writing"
    /\ wire' = Append(wire, [frame |-> hand, whole |-> TRUE])
    /\ writer' = "flushing"
    /\ UNCHANGED <<WriterOnly, queue, hand, outcome, signals>>

(* Mutants: the loop goes on after a failed write; the guard is told       *)
(* before the result is looked at. *)
WriteFailsCarriesOn ==
    /\ writer = "writing" /\ (peer # "up" \/ hand.id > 0)
    /\ wire' \in {wire, Append(wire, [frame |-> hand, whole |-> FALSE])}
    /\ writer' = "idle" /\ hand' = NoFrame /\ outcome' = Abandon({hand.id})
    /\ UNCHANGED <<WriterOnly, queue, signals>>
WriteFailsTold ==
    /\ writer = "writing" /\ (peer # "up" \/ hand.id > 0)
    /\ wire' \in {wire, Append(wire, [frame |-> hand, whole |-> FALSE])}
    /\ writer' = "done" /\ queue' = <<>> /\ hand' = NoFrame
    /\ outcome' = [i \in DOMAIN outcome |-> IF i = hand.id THEN "Written" ELSE Abandon(Waiting)[i]]
    /\ signals' = Append(signals, "WriterClosed")
    /\ UNCHANGED WriterOnly

(* A write fails, with some of the frame on the wire or none of it: the    *)
(* peer does not read, or a file segment of the frame cannot be read.      *)
WriteFails ==
    /\ writer = "writing" /\ (peer # "up" \/ hand.id > 0)
    /\ wire' \in {wire, Append(wire, [frame |-> hand, whole |-> FALSE])}
    /\ WriterEnds
    /\ UNCHANGED WriterOnly

(* Flushed: WriteGuard::written.  After a close frame there is no more.    *)
WriterFlushes ==
    /\ writer = "flushing"
    /\ LET told == [i \in DOMAIN outcome |-> IF i = hand.id THEN "Written" ELSE outcome[i]]
       IN  IF hand.type = "close"
           THEN /\ writer' = "done" /\ queue' = <<>> /\ hand' = NoFrame
                /\ outcome' = Abandon({queue[i].id : i \in DOMAIN queue})
                /\ signals' = Append(signals, "WriterClosed")
           ELSE /\ writer' = "idle" /\ hand' = NoFrame /\ outcome' = told
                /\ UNCHANGED <<queue, signals>>
    /\ UNCHANGED <<WriterOnly, wire>>

FlushFails ==
    /\ writer = "flushing" /\ peer # "up" /\ WriterEnds
    /\ UNCHANGED <<WriterOnly, wire>>

(* The WebSocket writer's own Close(1000).                                 *)
WriterSaysGoodbye ==
    /\ writer = "lastClose"
    /\ wire' \in {Append(wire, [frame |-> Control("close"), whole |-> TRUE])}
                 \cup (IF peer = "up" THEN {} ELSE {wire})
    /\ WriterEnds
    /\ UNCHANGED WriterOnly

(* Aborted at an await: a write may be half done.                          *)
WriterAborted ==
    /\ WriterRuns /\ "writer" \in aborts
    /\ writer' = "done" /\ queue' = <<>> /\ hand' = NoFrame
    /\ outcome' = Abandon(Waiting)
    /\ wire' \in {wire} \cup (IF writer = "writing"
                              THEN {Append(wire, [frame |-> hand, whole |-> FALSE])}
                              ELSE {})
    /\ UNCHANGED <<WriterOnly, signals>>

WriterNext ==
    \/ WriterTakes \/ WriterDrained \/ WriterPrepares \/ WriterWrites \/ WriteFails
    \/ WriterFlushes \/ FlushFails \/ WriterSaysGoodbye \/ WriterAborted
-----------------------------------------------------------------------------
(* The reader task.                                                        *)
ReaderOnly == <<kind, timers, entry, reg, peer, sent, writer, hand, wire, outcome, beat,
                awaiting, pings, watcher, aborts, grace, missed>>

(* Mutant: the watcher is not told. *)
ReaderEndsUntold(signal) == reader' = "done" /\ UNCHANGED signals

ReaderEnds(signal) == reader' = "done" /\ signals' = Append(signals, signal)

(* read_inbound_frame, read_websocket_frame_mode and the reaction to what  *)
(* was read.                                                               *)
ReaderReads ==
    /\ reader = "reading" /\ inbox # <<>>
    /\ inbox' = Tail(inbox)
    /\ LET item == Head(inbox) IN
       CASE item = "msg" -> reader' = "deliver" /\ UNCHANGED <<pongs, signals>>
         [] item = "ping" -> reader' = "pong" /\ UNCHANGED <<pongs, signals>>
         [] item = "pong" -> /\ pongs' = IF "heartbeat" \in timers THEN pongs + 1 ELSE pongs
                             /\ UNCHANGED <<reader, signals>>
         [] item \in {"bad", "close"} /\ kind = "ws" ->
              reader' = "close" /\ UNCHANGED <<pongs, signals>>
         [] OTHER -> ReaderEnds("ReaderClosed") /\ UNCHANGED pongs
    /\ UNCHANGED <<ReaderOnly, frames, queue>>

(* The peer's end of file, or nothing for idle_timeout.                    *)
ReaderStops ==
    /\ reader = "reading" /\ inbox = <<>> /\ (peer = "left" \/ "idle" \in timers)
    /\ ReaderEnds("ReaderClosed")
    /\ UNCHANGED <<ReaderOnly, frames, queue, inbox, pongs>>

(* frame_tx.send().await: waits for room; the receiver lives in the entry. *)
ReaderDelivers ==
    /\ reader = "deliver"
    /\ \/ /\ frames < FrameCapacity /\ (entry = "open" \/ reg = "spawned")
          /\ frames' = frames + 1 /\ reader' = "reading" /\ UNCHANGED signals
       \/ /\ entry # "open" /\ reg # "spawned"
          /\ ReaderEnds("ReaderClosed") /\ UNCHANGED frames
    /\ UNCHANGED <<ReaderOnly, queue, inbox, pongs>>

(* A pong waits for room in the outbound channel; without a writer the raw *)
(* socket's reader ends, the WebSocket's goes on.                          *)
ReaderPongs ==
    /\ reader = "pong"
    /\ \/ /\ ~ReceiverGone /\ ~Full
          /\ queue' = Append(queue, Control("pong"))
          /\ reader' = "reading" /\ UNCHANGED signals
       \/ /\ ReceiverGone /\ UNCHANGED queue
          /\ IF kind = "raw" THEN ReaderEnds("ReaderClosed")
                             ELSE reader' = "reading" /\ UNCHANGED signals
    /\ UNCHANGED <<ReaderOnly, frames, inbox, pongs>>

(* So does the WebSocket's close frame.                                    *)
ReaderCloses ==
    /\ reader = "close"
    /\ \/ /\ ~ReceiverGone /\ ~Full
          /\ queue' = Append(queue, Control("close"))
          /\ ReaderEnds("ReaderGracefulClose")
       \/ ReceiverGone /\ UNCHANGED queue /\ ReaderEnds("ReaderClosed")
    /\ UNCHANGED <<ReaderOnly, frames, inbox, pongs>>

ReaderAborted ==
    /\ reader \notin {"none", "done"} /\ "reader" \in aborts
    /\ reader' = "done"
    /\ UNCHANGED <<ReaderOnly, frames, queue, inbox, pongs, signals>>

ReaderNext ==
    ReaderReads \/ ReaderStops \/ ReaderDelivers \/ ReaderPongs \/ ReaderCloses
        \/ ReaderAborted
-----------------------------------------------------------------------------
(* The heartbeat task.                                                     *)
BeatOnly == <<kind, timers, reg, ioVars, reader, frames, writer, hand, wire, outcome,
              signals, watcher>>

BeatTicks ==
    /\ beat = "ticking" /\ ~awaiting /\ pings < MaxPings
    /\ awaiting' = TRUE /\ beat' = "sending" /\ pings' = pings + 1
    /\ UNCHANGED <<BeatOnly, entry, aborts, grace, missed, queue, pongs>>

(* The ping waits for room; without a writer the connection is closed.     *)
BeatPings ==
    /\ beat = "sending"
    /\ \/ /\ ~ReceiverGone /\ ~Full
          /\ queue' = Append(queue, Control("ping")) /\ beat' = "ticking"
          /\ UNCHANGED <<entry, aborts, grace, missed>>
       \/ ReceiverGone /\ beat' = "done" /\ TaskCloses /\ UNCHANGED queue
    /\ UNCHANGED <<BeatOnly, awaiting, pongs, pings>>

(* Any pong will do.                                                       *)
BeatHears ==
    /\ beat = "ticking" /\ pongs > 0
    /\ pongs' = pongs - 1 /\ awaiting' = FALSE
    /\ UNCHANGED <<BeatOnly, entry, aborts, grace, missed, queue, beat, pings>>

(* The reader is gone and its channel with it.                             *)
BeatEnds ==
    /\ beat = "ticking" /\ pongs = 0 /\ reader = "done"
    /\ beat' = "done"
    /\ UNCHANGED <<BeatOnly, entry, aborts, grace, missed, queue, awaiting, pongs, pings>>

(* Mutant: the heartbeat gives up without closing. *)
BeatTimesOutQuietly ==
    /\ beat = "ticking" /\ awaiting
    /\ beat' = "done"
    /\ UNCHANGED <<BeatOnly, entry, aborts, grace, missed, queue, awaiting, pongs, pings>>

(* A tick later than heartbeat_timeout after the ping.                     *)
BeatTimesOut ==
    /\ beat = "ticking" /\ awaiting
    /\ beat' = "done" /\ TaskCloses
    /\ UNCHANGED <<BeatOnly, queue, awaiting, pongs, pings>>

BeatAborted ==
    /\ beat \in {"ticking", "sending"} /\ "beat" \in aborts
    /\ beat' = "done"
    /\ UNCHANGED <<BeatOnly, entry, aborts, grace, missed, queue, awaiting, pongs, pings>>

BeatNext ==
    BeatTicks \/ BeatPings \/ BeatHears \/ BeatEnds \/ BeatTimesOut \/ BeatAborted
-----------------------------------------------------------------------------
(* The watcher: the first of the tasks to end closes the connection.       *)
ChannelClosed == signals = <<>> /\ reader = "done" /\ writer = "done"

WatcherHears ==
    /\ watcher = "waiting"
    /\ \/ /\ signals # <<>> /\ signals' = Tail(signals)
          /\ watcher' = IF kind = "ws" /\ Head(signals) = "ReaderGracefulClose"
                        THEN "grace" ELSE "closing"
       \/ ChannelClosed /\ watcher' = "closing" /\ UNCHANGED signals
    /\ UNCHANGED <<kind, timers, entry, reg, ioVars, reader, frames, outVars, beatVars,
                   aborts, grace, missed>>

(* The close frame has 100 ms to go out.                                   *)
WatcherGrace ==
    /\ watcher = "grace"
    /\ \/ /\ signals # <<>> /\ signals' = Tail(signals)
          /\ watcher' = IF Head(signals) = "WriterClosed" THEN "closing" ELSE "grace"
       \/ watcher' = "closing" /\ UNCHANGED signals
    /\ UNCHANGED <<kind, timers, entry, reg, ioVars, reader, frames, outVars, beatVars,
                   aborts, grace, missed>>

WatcherCloses ==
    /\ watcher = "closing"
    /\ watcher' = "done" /\ TaskCloses
    /\ UNCHANGED <<kind, timers, reg, ioVars, reader, frames, outVars, beatVars, signals>>

WatcherNext == WatcherHears \/ WatcherGrace \/ WatcherCloses
-----------------------------------------------------------------------------
(* Dart polls a message.                                                   *)
Poll ==
    /\ entry = "open" /\ frames > 0
    /\ frames' = frames - 1
    /\ UNCHANGED <<kind, timers, entry, reg, ioVars, reader, outVars, beatVars, endVars>>

(* The peer sends, or stops for good with or without a word.               *)
PeerSends(item) ==
    /\ peer = "up" /\ sent < MaxIn /\ (item = "close" => kind = "ws")
    /\ inbox' = Append(inbox, item) /\ sent' = sent + 1
    /\ UNCHANGED <<kind, timers, entry, reg, peer, reader, frames, outVars, beatVars, endVars>>

PeerStops(how) ==
    /\ peer = "up" /\ peer' = how
    /\ UNCHANGED <<kind, timers, entry, reg, inbox, sent, reader, frames, outVars, beatVars,
                   endVars>>

Next ==
    \/ RegisterRaw \/ TakeHandshake \/ AcceptWebSocket \/ AcceptFails
    \/ RejectWebSocket \/ InsertEntry
    \/ GraceExpires \/ Close \/ Shutdown \/ Poll
    \/ \E quality \in Qualities : Send(quality)
    \/ WriterNext \/ ReaderNext \/ BeatNext \/ WatcherNext
    \/ \E item \in Items : PeerSends(item)
    \/ \E how \in {"silent", "left"} : PeerStops(how)

Spec == Init /\ [][Next]_vars

(* The runtime runs its tasks and its timers; a write or a flush ends when *)
(* the peer reads or has left.  Dart answers a handshake it has taken, and *)
(* polls.                                                                  *)
Fairness ==
    /\ WF_vars(InsertEntry) /\ WF_vars(AcceptWebSocket \/ AcceptFails \/ RejectWebSocket)
    /\ WF_vars(Poll) /\ WF_vars(GraceExpires)
    /\ WF_vars(WriterTakes \/ WriterDrained \/ WriterPrepares \/ WriterAborted)
    /\ WF_vars(peer # "silent"
               /\ (WriterWrites \/ WriteFails \/ WriterFlushes \/ FlushFails \/ WriterSaysGoodbye))
    /\ WF_vars(ReaderNext) /\ WF_vars(WatcherNext)
    /\ WF_vars(BeatPings \/ BeatAborted \/ BeatEnds)
    /\ WF_vars(BeatHears \/ BeatTimesOut \/ BeatTicks)

FairSpec == Spec /\ Fairness
-----------------------------------------------------------------------------
(* A frame cut short is the last thing on the wire, and so is a close      *)
(* frame: the peer never takes the rest of one frame for the next one      *)
(* (spawn_connection_writer, spawn_websocket_writer).                      *)
NothingAfterTheEnd ==
    \A i \in DOMAIN wire :
        ~wire[i].whole \/ wire[i].frame.type = "close" => i = Len(wire)

(* Written is true: the frame is on the wire, whole, frames go in the      *)
(* order they were queued, and a receipt is not settled while an earlier   *)
(* one is pending; for the barrier, everything before it is settled        *)
(* (write_completion.rs, drain_wamp_writes).                               *)
WrittenIsTrue ==
    /\ \A i \in DOMAIN outcome : outcome[i] = "Written" =>
          \A j \in 1..i : outcome[j] # "Pending"
    /\ \A i, j \in DOMAIN wire :
          i < j /\ wire[i].frame.id > 0 /\ wire[j].frame.id > 0
             => wire[i].frame.id < wire[j].frame.id
    /\ \A i \in DOMAIN wire :
          wire[i].frame.id > 0 /\ ~wire[i].whole
             => outcome[wire[i].frame.id] = "Abandoned"

(* No receipt stays pending behind a writer that is gone.                  *)
SettledWithWriter ==
    writer = "done" => \A i \in DOMAIN outcome : outcome[i] # "Pending"

TasksDone == /\ reader \in {"none", "done"} /\ writer \in {"none", "done"}
             /\ beat \in {"none", "done"} /\ watcher \in {"none", "done"}

(* A connection that is closed lets go of everything: its tasks end, even  *)
(* against a peer that reads nothing, and every receipt is settled.        *)
ClosedComesToRest == (entry = "gone") ~> (TasksDone \/ entry = "open")

(* A peer that leaves takes its entry with it, unless its end was seen     *)
(* before the entry was inserted.                                          *)
PeerLeftEntryGoes ==
    (peer = "left" /\ entry = "open") ~> (entry = "gone" \/ missed)

(* A task waits for room in a channel that nobody empties any more.        *)
Stuck == Full /\ (beat = "sending" \/ reader \in {"pong", "close"})

PingsUsedUp == pings = MaxPings /\ ~awaiting

(* A silent peer is noticed by the heartbeat or by the idle timeout,       *)
(* unless the outbound channel is full when a ping, a pong or a close      *)
(* frame is due, or the end was seen before the insertion                  *)
(* (spawn_connection_heartbeat, spawn_connection_reader).                  *)
SilenceNoticed ==
    (timers # {} /\ peer = "silent" /\ entry = "open")
        ~> (entry = "gone" \/ Stuck \/ missed \/ PingsUsedUp)

(* "Native transport heartbeat/ping-pong is enforced": a silent peer is    *)
(* closed whatever is queued for it (spawn_connection_heartbeat).          *)
SilenceClosed ==
    ("heartbeat" \in timers /\ peer = "silent" /\ entry = "open")
        ~> (entry = "gone" \/ missed \/ PingsUsedUp)

(* What the senders are told is what happened on the wire, and everyone is *)
(* told (WriteReceipt, WriteGuard).                                        *)
ReceiptsTrue == TypeOK /\ WrittenIsTrue /\ SettledWithWriter

(* A connection that is closed, from either side, leaves nothing behind:   *)
(* its tasks end and its entry goes (remove_connection, the watcher).      *)
EndsCleanly == ClosedComesToRest /\ PeerLeftEntryGoes
=============================================================================
