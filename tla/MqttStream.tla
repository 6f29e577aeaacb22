----------------------------- MODULE MqttStream -----------------------------
(***************************************************************************)
(* One MQTT connection of the native runtime (ct_core lib.rs), over TCP or *)
(* WebSocket: the reader that turns what arrives into chunks, the wake-up  *)
(* that tells Dart of them, Dart's polling, the writer with its byte       *)
(* budget and its control frames, and the watcher.                         *)
(*                                                                         *)
(* Bytes are numbered in the order the peer sends them; 64 KiB is Limit.   *)
(* Dart (router_boss.dart) polls until there is nothing and then sleeps    *)
(* until it is woken: its poll interval is left out on purpose.            *)
(***************************************************************************)
EXTENDS Naturals, Sequences, SequencesExt, FiniteSetsExt

CONSTANTS Modes,         (* "tcp", "ws"                                      *)
          Coalesce,      (* coalesce_bursts                                  *)
          Controls,      (* frames that are not data: ping, text, bad, close *)
          Sizes,         (* sizes of a message or a read                     *)
          Answers,       (* sizes of a chunk Dart sends                      *)
          Limit,         (* largest inbound chunk                            *)
          PollLimit,     (* Dart's buffer                                    *)
          ChunkCapacity, (* of the inbound channel                           *)
          SendCapacity,  (* of the outbound channel                          *)
          Budget,        (* MQTT_OUTBOUND_QUEUE_MAX_BYTES                    *)
          MaxItems       (* bound: what the peer sends                       *)

ASSUME MqttAssumption ==
    /\ Modes \subseteq {"tcp", "ws"} /\ Coalesce \in BOOLEAN
    /\ Controls \subseteq {"ping", "text", "bad", "close"}
    /\ Sizes \subseteq Nat \ {0} /\ Answers \subseteq Nat \ {0}
    /\ {Limit, PollLimit, ChunkCapacity, SendCapacity, Budget} \subseteq Nat \ {0}
    /\ MaxItems \in Nat

VARIABLES mode,
          peer,      (* "up", "left"                                         *)
          arrived,   (* items the reader has not read                        *)
          items,     (* items sent                                           *)
          born,      (* bytes sent                                           *)
          reader,    (* where the reader is                                  *)
          cont,      (* where it goes on after a chunk                       *)
          item,      (* the frame at hand                                    *)
          rest,      (* its bytes not yet stored                             *)
          pending,   (* bytes read and not flushed                           *)
          burst,     (* pending_messages                                     *)
          hand,      (* the chunk being sent                                 *)
          chunks,    (* the inbound channel                                  *)
          flag,      (* notification_pending                                 *)
          wakeup,    (* the callback is set                                  *)
          awake,     (* Dart's loop was asked to wake                        *)
          dart,      (* new, asleep, polling, resetting, retrying, closed    *)
          split,     (* MqttInbound.pending                                  *)
          got,       (* bytes Dart has, in order                             *)
          controls,  (* the control channel                                  *)
          outbound,  (* the outbound channel: sizes                          *)
          permits,   (* of the byte budget                                   *)
          writer,    (* none, idle, writing, done                            *)
          writing,   (* what it writes: a size, or a control frame           *)
          entry,     (* open, gone                                           *)
          signals, watcher, graceful

inVars == <<arrived, items, born, peer>>
readVars == <<reader, cont, item, rest, pending, burst, hand, graceful>>
dartVars == <<wakeup, awake, dart, split, got>>
outVars == <<outbound, permits, writer, writing>>
mqttVars == <<mode, inVars, readVars, chunks, flag, dartVars, controls, outVars, entry,
          signals, watcher>>

None == [kind |-> "none", bytes |-> <<>>]
Item == [kind : {"none", "data"} \cup Controls, bytes : Seq(Nat)]
Bytes(n) == [k \in 1..n |-> born + k]
Nothing == [kind |-> "none", size |-> 0]
Outbound == [kind : {"none", "data", "pong", "close"}, size : Nat]

MqttTypeOK ==
    /\ mode \in Modes /\ peer \in {"up", "left"}
    /\ arrived \in Seq(Item) /\ items \in 0..MaxItems /\ born \in Nat
    /\ reader \in {"top", "read", "react", "store", "tail", "send", "swap", "notify",
                   "end", "done"}
    /\ cont \in {"top", "read", "react", "store", "end"}
    /\ item \in Item /\ rest \in Seq(Nat)
    /\ pending \in Seq(Nat) /\ Len(pending) <= Limit
    /\ burst \in Nat
    /\ hand \in Seq(Nat) /\ Len(hand) <= Limit
    /\ chunks \in Seq(Seq(Nat)) /\ Len(chunks) <= ChunkCapacity
    /\ flag \in BOOLEAN /\ wakeup \in BOOLEAN /\ awake \in BOOLEAN
    /\ dart \in {"new", "asleep", "polling", "resetting", "retrying", "closed"}
    /\ split \in Seq(Nat) /\ got \in Seq(Nat)
    /\ controls \in Seq({"pong", "close"}) /\ Len(controls) <= 1
    /\ outbound \in Seq(Answers) /\ Len(outbound) <= SendCapacity
    /\ permits \in 0..Budget
    /\ writer \in {"idle", "writing", "done"} /\ writing \in Outbound
    /\ entry \in {"open", "gone"}
    /\ signals \in Seq({"ReaderClosed", "ReaderGracefulClose", "WriterClosed"})
    /\ watcher \in {"waiting", "grace", "closing", "done"}
    /\ graceful \in BOOLEAN

(* register_mqtt_stream_connection: the entry is there before the watcher. *)
MqttInit ==
    /\ mode \in Modes /\ peer = "up"
    /\ arrived = <<>> /\ items = 0 /\ born = 0
    /\ reader = IF mode = "ws" THEN "top" ELSE "read"
    /\ cont = "read" /\ item = None /\ rest = <<>> /\ pending = <<>> /\ burst = 0
    /\ hand = <<>> /\ chunks = <<>> /\ flag = FALSE
    /\ wakeup = FALSE /\ awake = FALSE /\ dart = "new" /\ split = <<>> /\ got = <<>>
    /\ controls = <<>> /\ outbound = <<>> /\ permits = Budget
    /\ writer = "idle" /\ writing = Nothing
    /\ entry = "open" /\ signals = <<>> /\ watcher = "waiting" /\ graceful = FALSE
-----------------------------------------------------------------------------
(* The peer, as long as somebody reads.                                    *)
PeerSends(n) ==
    /\ peer = "up" /\ entry = "open" /\ items < MaxItems
    /\ items' = items + 1 /\ born' = born + n
    /\ arrived' = Append(arrived, [kind |-> "data", bytes |-> Bytes(n)])
    /\ UNCHANGED <<mode, peer, readVars, chunks, flag, dartVars, controls, outVars,
                   entry, signals, watcher>>

PeerControls(kind) ==
    /\ peer = "up" /\ entry = "open" /\ mode = "ws" /\ items < MaxItems
    /\ items' = items + 1
    /\ arrived' = Append(arrived, [kind |-> kind, bytes |-> <<>>])
    /\ UNCHANGED <<mode, peer, born, readVars, chunks, flag, dartVars, controls, outVars,
                   entry, signals, watcher>>

PeerLeaves ==
    /\ peer = "up" /\ entry = "open" /\ peer' = "left"
    /\ UNCHANGED <<mode, arrived, items, born, readVars, chunks, flag, dartVars, controls,
                   outVars, entry, signals, watcher>>
-----------------------------------------------------------------------------
(* The reader.                                                             *)
ReaderRuns == entry = "open" /\ reader # "done"
ReaderOnly == <<mode, items, born, peer, dartVars, outVars, entry, watcher>>

(* The chunk goes to the channel and the reader on to label.               *)
SendChunk(bytes, label) == hand' = bytes /\ cont' = label /\ reader' = "send"

(* flush_mqtt_websocket_inbound.                                           *)
FlushTo(label) ==
    /\ pending' = <<>>
    /\ IF pending = <<>> THEN reader' = label /\ UNCHANGED <<hand, cont>>
                         ELSE SendChunk(pending, label)

ReaderSignals(signal) == reader' = "done" /\ signals' = Append(signals, signal)

(* TCP: whatever one read gives, at most its buffer, or the end.           *)
ReadTcp ==
    /\ ReaderRuns /\ mode = "tcp" /\ reader = "read"
    /\ \/ /\ arrived # <<>>
          /\ LET bytes == Head(arrived).bytes
             IN  IF Len(bytes) <= Limit
                 THEN arrived' = Tail(arrived) /\ SendChunk(bytes, "read")
                 ELSE /\ arrived' = [arrived EXCEPT ![1] =
                           [kind |-> "data", bytes |-> SubSeq(bytes, Limit + 1, Len(bytes))]]
                      /\ SendChunk(SubSeq(bytes, 1, Limit), "read")
          /\ UNCHANGED signals
       \/ /\ arrived = <<>> /\ peer = "left"
          /\ ReaderSignals("ReaderClosed") /\ UNCHANGED <<arrived, hand, cont>>
    /\ UNCHANGED <<ReaderOnly, item, rest, pending, burst, chunks, flag, controls,
                   graceful>>

(* The head of the WebSocket reader's loop.  With two messages pending and *)
(* no frame at hand after a turn of the scheduler, they are flushed.       *)
Top ==
    /\ ReaderRuns /\ reader = "top"
    /\ burst' = IF pending = <<>> THEN 0 ELSE burst
    /\ IF Coalesce /\ burst' >= 2 /\ arrived = <<>>
       THEN FlushTo("read") ELSE reader' = "read" /\ UNCHANGED <<pending, hand, cont>>
    /\ UNCHANGED <<ReaderOnly, arrived, item, rest, chunks, flag, controls, graceful, signals>>

(* The next frame: anything but binary data flushes what is pending.       *)
ReadFrame ==
    /\ ReaderRuns /\ mode = "ws" /\ reader = "read"
    /\ \/ /\ arrived # <<>> /\ arrived' = Tail(arrived) /\ item' = Head(arrived)
          /\ rest' = Head(arrived).bytes
          /\ IF Head(arrived).kind = "data"
             THEN reader' = "store" /\ UNCHANGED <<pending, hand, cont>>
             ELSE FlushTo("react")
       \/ /\ arrived = <<>> /\ peer = "left" /\ FlushTo("end")
          /\ UNCHANGED <<arrived, item, rest>>
    /\ UNCHANGED <<ReaderOnly, burst, chunks, flag, controls, graceful, signals>>

(* The accumulator's message, in chunks of Limit.                          *)
Store ==
    /\ ReaderRuns /\ reader = "store"
    /\ LET room == Limit - Len(pending)
           full == pending = <<>> /\ Len(rest) >= Limit
           taken == IF Len(rest) < room THEN Len(rest) ELSE room
           filled == pending \o SubSeq(rest, 1, taken)
       IN  \/ /\ rest = <<>>
              /\ burst' = IF Coalesce /\ pending # <<>> THEN burst + 1 ELSE burst
              /\ reader' = "tail" /\ UNCHANGED <<rest, pending, hand, cont>>
           \/ /\ rest # <<>> /\ full
              /\ SendChunk(SubSeq(rest, 1, Limit), "store")
              /\ rest' = SubSeq(rest, Limit + 1, Len(rest))
              /\ UNCHANGED <<burst, pending>>
           \/ /\ rest # <<>> /\ ~full /\ Len(filled) = Limit
              /\ SendChunk(filled, "store") /\ pending' = <<>> /\ burst' = 0
              /\ rest' = SubSeq(rest, taken + 1, Len(rest))
           \/ /\ rest # <<>> /\ ~full /\ Len(filled) # Limit
              /\ pending' = filled /\ rest' = SubSeq(rest, taken + 1, Len(rest))
              /\ UNCHANGED <<burst, hand, cont, reader>>
    /\ UNCHANGED <<ReaderOnly, arrived, item, chunks, flag, controls, graceful, signals>>

(* The end of the loop's body: flushed unless a complete frame is already  *)
(* buffered (any part of what arrived may be) or a burst is being gathered.*)
Tail_ ==
    /\ ReaderRuns /\ reader = "tail"
    /\ \/ arrived # <<>> /\ reader' = "top" /\ UNCHANGED <<pending, hand, cont>>
       \/ IF Coalesce /\ burst >= 2
          THEN reader' = "top" /\ UNCHANGED <<pending, hand, cont>> ELSE FlushTo("top")
    /\ UNCHANGED <<ReaderOnly, arrived, item, rest, burst, chunks, flag, controls,
                   graceful, signals>>

(* A frame that is not data: a ping is answered, everything else ends the  *)
(* connection with a close frame.  The control channel may have no room;   *)
(* without a writer a ping and an error end the reader at once.            *)
React ==
    /\ ReaderRuns /\ reader = "react"
    /\ \/ /\ writer # "done" /\ controls = <<>>
          /\ controls' = <<IF item.kind = "ping" THEN "pong" ELSE "close">>
          /\ reader' = IF item.kind = "ping" THEN "tail" ELSE "end"
          /\ graceful' = (item.kind # "ping")
       \/ /\ writer = "done" /\ UNCHANGED controls
          /\ reader' = "end" /\ graceful' = (item.kind \in {"text", "close"})
    /\ UNCHANGED <<ReaderOnly, arrived, item, rest, pending, burst, hand, cont, chunks,
                   flag, signals>>

(* The last flush, and the signal to the watcher.                          *)
End ==
    /\ ReaderRuns /\ reader = "end"
    /\ IF pending # <<>> THEN FlushTo("end") /\ UNCHANGED signals
       ELSE /\ ReaderSignals(IF graceful THEN "ReaderGracefulClose" ELSE "ReaderClosed")
            /\ UNCHANGED <<pending, hand, cont>>
    /\ UNCHANGED <<ReaderOnly, arrived, item, rest, burst, chunks, flag, controls, graceful>>

(* send_mqtt_websocket_inbound: wait for room, then notify unless a        *)
(* notification is on its way.                                             *)
Send ==
    /\ ReaderRuns /\ reader = "send" /\ Len(chunks) < ChunkCapacity
    /\ chunks' = Append(chunks, hand) /\ hand' = <<>> /\ reader' = "swap"
    /\ UNCHANGED <<ReaderOnly, arrived, item, rest, pending, burst, cont, flag, controls,
                   graceful, signals>>

Swap ==
    /\ ReaderRuns /\ reader = "swap"
    /\ flag' = TRUE /\ reader' = IF flag THEN cont ELSE "notify"
    /\ UNCHANGED <<ReaderOnly, arrived, item, rest, pending, burst, hand, cont, chunks,
                   controls, graceful, signals>>

Notify ==
    /\ ReaderRuns /\ reader = "notify"
    /\ reader' = cont /\ awake' = (awake \/ wakeup)
    /\ UNCHANGED <<mode, inVars, cont, item, rest, pending, burst, hand, graceful,
                   chunks, flag, wakeup, dart, split, got, controls, outVars, entry,
                   signals, watcher>>

ReaderNext ==
    ReadTcp \/ Top \/ ReadFrame \/ Store \/ Tail_ \/ React \/ End \/ Send \/ Swap \/ Notify
-----------------------------------------------------------------------------
(* Dart.                                                                   *)
DartOnly == <<mode, inVars, readVars, controls, outVars, signals, watcher>>

(* set_mqtt_wakeup, then the first poll.                                   *)
Attach ==
    /\ dart = "new"
    /\ dart' = IF entry = "open" THEN "polling" ELSE "closed"
    /\ wakeup' = (entry = "open")
    /\ UNCHANGED <<DartOnly, chunks, flag, awake, split, got, entry>>

(* try_recv_limited: a chunk, more of them while there is room, and what   *)
(* does not fit any more is kept.                                          *)
Available == split \o FlattenSeq(chunks)
Fetched ==
    LET first(k) == split \o FlattenSeq(SubSeq(chunks, 1, k))
    IN  Max({k \in 0..Len(chunks) : k = 0 \/ Len(first(k - 1)) < PollLimit})

(* Mutant: what does not fit is dropped. *)
ReceiveDropsRest ==
    LET all == split \o FlattenSeq(SubSeq(chunks, 1, Fetched))
        n == IF Len(all) < PollLimit THEN Len(all) ELSE PollLimit
    IN  /\ got' = got \o SubSeq(all, 1, n) /\ split' = <<>>
        /\ chunks' = SubSeq(chunks, Fetched + 1, Len(chunks))

Receive ==
    LET all == split \o FlattenSeq(SubSeq(chunks, 1, Fetched))
        n == IF Len(all) < PollLimit THEN Len(all) ELSE PollLimit
    IN  /\ got' = got \o SubSeq(all, 1, n)
        /\ split' = SubSeq(all, n + 1, Len(all))
        /\ chunks' = SubSeq(chunks, Fetched + 1, Len(chunks))

(* poll_mqtt_chunk; an entry that is gone closes the peer on Dart's side.  *)
PollChunk ==
    /\ dart = "polling" /\ entry = "open" /\ Available # <<>>
    /\ Receive
    /\ UNCHANGED <<DartOnly, flag, wakeup, awake, dart, entry>>

PollEmpty ==
    /\ dart = "polling" /\ entry = "open" /\ Available = <<>>
    /\ dart' = IF reader = "done" THEN "asleep" ELSE "resetting"
    /\ UNCHANGED <<DartOnly, chunks, flag, wakeup, awake, split, got, entry>>

PollGone ==
    /\ dart \in {"polling", "asleep"} /\ entry = "gone" /\ dart' = "closed"
    /\ UNCHANGED <<DartOnly, chunks, flag, wakeup, awake, split, got, entry>>

(* The flag is cleared and the channel looked at once more.                *)
Reset ==
    /\ dart = "resetting" /\ flag' = FALSE /\ dart' = "retrying"
    /\ UNCHANGED <<DartOnly, chunks, wakeup, awake, split, got, entry>>

(* Mutant: the flag is cleared and Dart goes to sleep. *)
RetrySleeps ==
    /\ dart = "retrying" /\ dart' = "asleep"
    /\ UNCHANGED <<DartOnly, chunks, split, got, flag, wakeup, awake, entry>>

Retry ==
    /\ dart = "retrying"
    /\ IF chunks # <<>> THEN Receive /\ dart' = "polling"
       ELSE dart' = "asleep" /\ UNCHANGED <<chunks, split, got>>
    /\ UNCHANGED <<DartOnly, flag, wakeup, awake, entry>>

Wake ==
    /\ dart = "asleep" /\ awake
    /\ awake' = FALSE /\ dart' = "polling"
    /\ UNCHANGED <<DartOnly, chunks, flag, wakeup, split, got, entry>>

(* Mutant: a chunk the channel has no room for keeps its permits. *)
SendChunkLeaks(n) ==
    /\ dart \in {"polling", "asleep"} /\ entry = "open"
    /\ permits' = IF n <= permits THEN permits - n ELSE permits
    /\ outbound' = IF n <= permits /\ Len(outbound) < SendCapacity THEN Append(outbound, n) ELSE outbound
    /\ UNCHANGED <<mode, inVars, readVars, chunks, flag, dartVars, controls, writer,
                   writing, entry, signals, watcher>>

(* MqttOutboundQueue::enqueue: permits for the bytes, then room for the    *)
(* chunk; a refusal gives the permits back.                                *)
SendMqttChunk(n) ==
    /\ dart \in {"polling", "asleep"} /\ entry = "open"
    /\ IF n <= permits /\ Len(outbound) < SendCapacity /\ writer # "done"
       THEN permits' = permits - n /\ outbound' = Append(outbound, n)
       ELSE UNCHANGED <<permits, outbound>>
    /\ UNCHANGED <<mode, inVars, readVars, chunks, flag, dartVars, controls, writer,
                   writing, entry, signals, watcher>>

DartNext == Attach \/ PollChunk \/ PollEmpty \/ PollGone \/ Reset \/ Retry \/ Wake
-----------------------------------------------------------------------------
(* The writer: control frames first; the permits go with the chunk.        *)
WriterOnly == <<mode, inVars, readVars, chunks, flag, dartVars, entry, watcher>>
WriterRuns == entry = "open" /\ writer # "done"

WriterTakes ==
    /\ WriterRuns /\ writer = "idle"
    /\ \/ /\ controls # <<>> /\ controls' = Tail(controls)
          /\ writing' = [kind |-> Head(controls), size |-> 0] /\ UNCHANGED outbound
       \/ /\ controls = <<>> /\ outbound # <<>> /\ outbound' = Tail(outbound)
          /\ writing' = [kind |-> "data", size |-> Head(outbound)] /\ UNCHANGED controls
    /\ writer' = "writing"
    /\ UNCHANGED <<WriterOnly, permits, signals>>

WriterWrites ==
    /\ WriterRuns /\ writer = "writing"
    /\ permits' = permits + writing.size /\ writing' = Nothing
    /\ IF writing.kind = "close"
       THEN writer' = "done" /\ signals' = Append(signals, "WriterClosed")
       ELSE writer' = "idle" /\ UNCHANGED signals
    /\ UNCHANGED <<WriterOnly, outbound, controls>>

WriterFails ==
    /\ WriterRuns /\ writer = "writing" /\ peer = "left"
    /\ writer' = "done" /\ writing' = Nothing /\ permits' = permits + writing.size
    /\ signals' = Append(signals, "WriterClosed")
    /\ UNCHANGED <<WriterOnly, outbound, controls>>
-----------------------------------------------------------------------------
(* The watcher; WEBSOCKET_CLOSE_GRACE for the close frame.                 *)
WatcherOnly == <<mode, inVars, item, rest, pending, burst, hand, cont, graceful,
                 chunks, flag, awake, dart, split, got, controls, outVars>>

WatcherHears ==
    /\ watcher = "waiting" /\ signals # <<>> /\ signals' = Tail(signals)
    /\ watcher' = IF Head(signals) = "ReaderGracefulClose" THEN "grace" ELSE "closing"
    /\ UNCHANGED <<WatcherOnly, reader, wakeup, entry>>

WatcherGrace ==
    /\ watcher = "grace"
    /\ signals' = IF signals = <<>> THEN signals ELSE Tail(signals)
    /\ watcher' = "closing"
    /\ UNCHANGED <<WatcherOnly, reader, wakeup, entry>>

(* remove_connection: the callback is unset, both tasks aborted.           *)
RemoveEntry == entry' = "gone" /\ wakeup' = FALSE

WatcherCloses ==
    /\ watcher = "closing" /\ watcher' = "done" /\ RemoveEntry
    /\ UNCHANGED <<WatcherOnly, reader, signals>>

(* Dart closes.                                                            *)
Close ==
    /\ dart \in {"polling", "asleep"} /\ entry = "open" /\ RemoveEntry
    /\ UNCHANGED <<WatcherOnly, reader, signals, watcher>>

MqttNext ==
    \/ \E n \in Sizes : PeerSends(n)
    \/ \E kind \in Controls : PeerControls(kind)
    \/ PeerLeaves
    \/ ReaderNext \/ DartNext
    \/ \E n \in Answers : SendMqttChunk(n)
    \/ WriterTakes \/ WriterWrites \/ WriterFails
    \/ WatcherHears \/ WatcherGrace \/ WatcherCloses \/ Close

MqttSpec == MqttInit /\ [][MqttNext]_mqttVars

(* Tasks run, Dart's loop runs once woken, a peer reads or leaves.         *)
Fairness ==
    /\ WF_mqttVars(ReaderNext) /\ WF_mqttVars(DartNext)
    /\ WF_mqttVars(WriterTakes \/ WriterWrites)
    /\ WF_mqttVars(WatcherHears \/ WatcherGrace \/ WatcherCloses)

FairSpec == MqttSpec /\ Fairness
-----------------------------------------------------------------------------
(* No byte is lost, doubled or moved between the socket and Dart: what     *)
(* Dart has, the remainder of a split chunk, the channel, the chunk being  *)
(* sent, the pending bytes and the rest of the message at hand, in this    *)
(* order, are the bytes read (try_recv_limited, the WebSocket reader's     *)
(* coalescing).                                                            *)
InOrder ==
    LET all == got \o Available \o hand \o pending \o rest
    IN  \A k \in DOMAIN all : all[k] = k

(* What the chunks of a list of sizes take together.                       *)
Sum(sizes) ==
    LET sum[k \in 0..Len(sizes)] == IF k = 0 THEN 0 ELSE sum[k - 1] + sizes[k]
    IN  sum[Len(sizes)]

(* The byte budget is what is not queued or being written                  *)
(* (MqttOutboundQueue), and the channels keep their bounds (MqttTypeOK).   *)
BudgetKept ==
    /\ MqttTypeOK
    /\ permits + writing.size + Sum(outbound) = Budget

(* "a producer racing this empty observation cannot leave bytes asleep in  *)
(* the queue": every byte read reaches Dart, without its poll interval,    *)
(* unless the connection is closed first; neither the wake-up flag nor the *)
(* gathering of bursts holds it back.                                      *)
BytesReachDart ==
    <>[](entry = "gone" \/ Len(got) = born)
=============================================================================
