-------------------------- MODULE ConnectionProofs --------------------------
(***************************************************************************)
(* Proofs about Connection: nothing follows a frame cut short or a close   *)
(* frame on the wire, and what the write receipts say is what happened.    *)
(* In the second part, proofs about HttpServer: bodies and answers are     *)
(* whole and in order, no wake-up is lost and a connection ends once.      *)
(*                                                                         *)
(* The first argument follows a frame from its channel through the         *)
(* writer's hands to the wire: the numbers of Dart's calls increase along  *)
(* that way, a receipt is pending exactly while its frame is in the        *)
(* channel or in hand, and only a writer that has ended, or is about to,   *)
(* has put an end on the wire.                                             *)
(***************************************************************************)
EXTENDS Connection, HttpServer, FiniteSetTheorems, SequenceTheorems, TLAPS

(* An item on the wire.                                                    *)
Sent == [frame : Frame, whole : BOOLEAN]

(* Pongs the heartbeat has not heard were sent by the peer and read.       *)
PongsCounted == pongs + Len(inbox) <= sent

(* The writer task: there is none before Spawn, and only a writer at work  *)
(* on a frame has one in hand; a close frame is of no call.                *)
WriterSound ==
    /\ reg \in {"idle", "answering"} => writer = "none"
    /\ writer \in {"none", "idle", "lastClose", "done"} => hand = NoFrame
    /\ writer \in {"none", "done"} => queue = <<>>
    /\ writer = "none" => outcome = <<>>
    /\ writer = "writing" => hand.type # "barrier"
    /\ hand.type = "close" => hand.id = 0
    /\ \A q \in DOMAIN queue : queue[q].type = "close" => queue[q].id = 0

(* The numbers of Dart's calls increase from the wire to the channel's     *)
(* end; a frame being flushed may be on the wire already.                  *)
InOrder ==
    /\ \A i, j \in DOMAIN wire :
         i < j /\ wire[i].frame.id > 0 /\ wire[j].frame.id > 0
            => wire[i].frame.id < wire[j].frame.id
    /\ \A i \in DOMAIN wire : wire[i].frame.id > 0 =>
         /\ hand.id > 0 => wire[i].frame.id <= hand.id
         /\ hand.id > 0 /\ writer # "flushing" => wire[i].frame.id < hand.id
         /\ \A q \in DOMAIN queue : queue[q].id > 0 => wire[i].frame.id < queue[q].id
    /\ \A q \in DOMAIN queue : queue[q].id > 0 =>
         /\ hand.id > 0 => hand.id < queue[q].id
         /\ \A r \in DOMAIN queue : q < r /\ queue[r].id > 0 => queue[q].id < queue[r].id

(* The receipts: a number stands for a call made; a receipt is pending     *)
(* exactly while its frame is in the channel or in hand; a frame cut short *)
(* was abandoned.                                                          *)
ReceiptsSound ==
    /\ hand.id > 0 => hand.id \in DOMAIN outcome /\ outcome[hand.id] = "Pending"
    /\ \A q \in DOMAIN queue : queue[q].id > 0 =>
         queue[q].id \in DOMAIN outcome /\ outcome[queue[q].id] = "Pending"
    /\ \A i \in DOMAIN outcome : outcome[i] = "Pending" =>
         hand.id = i \/ \E q \in DOMAIN queue : queue[q].id = i
    /\ \A i \in DOMAIN outcome : outcome[i] = "Written" =>
         \A j \in 1..i : outcome[j] # "Pending"
    /\ \A i \in DOMAIN wire : wire[i].frame.id > 0 =>
         /\ wire[i].frame.id \in DOMAIN outcome
         /\ ~wire[i].whole => outcome[wire[i].frame.id] = "Abandoned"

(* An end on the wire is the last thing there, and the writer is done or   *)
(* flushes the close frame it has written.                                 *)
EndsSound ==
    \A i \in DOMAIN wire : ~wire[i].whole \/ wire[i].frame.type = "close" =>
      /\ i = Len(wire)
      /\ writer = "done" \/ (writer = "flushing" /\ hand.type = "close")

(* The inductive invariant.                                                *)
IndInv ==
    /\ TypeOK /\ PongsCounted /\ WriterSound /\ InOrder /\ ReceiptsSound /\ EndsSound

(* The bounds are numbers, and both channels have room.                    *)
LEMMA Constants ==
    /\ Capacity \in Nat /\ Capacity > 0 /\ FrameCapacity \in Nat /\ FrameCapacity > 0
    /\ MaxIn \in Nat /\ MaxSend \in Nat /\ MaxPings \in Nat
  BY ConnectionAssumption

(* The frames the tasks make themselves are frames, of no call; a frame's  *)
(* number is a number.                                                     *)
LEMMA FrameTypes ==
    /\ NoFrame \in Frame /\ NoFrame.id = 0 /\ NoFrame.type = "none"
    /\ \A t \in {"ping", "pong", "close"} : /\ Control(t) \in Frame /\ Control(t).id = 0
                                            /\ Control(t).type = t
    /\ \A f \in Frame : f.id \in 0..MaxSend /\ f.id \in Nat
  BY Constants DEF NoFrame, Frame, Control, FrameOf

(* What dropping WriteGuards leaves: the pending receipts among ids are    *)
(* abandoned, the others stay.                                             *)
LEMMA AbandonIs ==
  ASSUME NEW ids, outcome \in Seq({"Pending", "Written", "Abandoned"})
  PROVE  /\ Abandon(ids) \in Seq({"Pending", "Written", "Abandoned"})
         /\ Len(Abandon(ids)) = Len(outcome) /\ DOMAIN Abandon(ids) = DOMAIN outcome
         /\ \A i \in DOMAIN outcome :
              Abandon(ids)[i] = IF i \in ids /\ outcome[i] = "Pending" THEN "Abandoned"
                                ELSE outcome[i]
<1> DEFINE n == Len(outcome)
<1>1. n \in Nat /\ DOMAIN outcome = 1..n
  OBVIOUS
<1>2. Abandon(ids) = [i \in 1..n |-> IF i \in ids /\ outcome[i] = "Pending"
                                      THEN "Abandoned" ELSE outcome[i]]
  BY <1>1 DEF Abandon
<1>3. \A i \in 1..n : outcome[i] \in {"Pending", "Written", "Abandoned"}
  BY <1>1
<1> HIDE DEF n
<1>4. Abandon(ids) \in [1..n -> {"Pending", "Written", "Abandoned"}]
  BY <1>2, <1>3
<1>5. Abandon(ids) \in Seq({"Pending", "Written", "Abandoned"})
  BY <1>1, <1>4
<1>6. Len(Abandon(ids)) = n
  BY <1>1, <1>4, <1>5
<1> QED BY <1>1, <1>2, <1>5, <1>6 DEF n

(* What one step may do to the outbound side.                              *)
(* Nothing; the writer task begins.                                        *)
Rests == UNCHANGED <<queue, writer, hand, wire, outcome>>
Begins == writer = "none" /\ writer' = "idle" /\ UNCHANGED <<queue, hand, wire, outcome>>

(* A frame enters the channel, by a task or with a receipt.                *)
Enters(f) ==
    /\ ~ReceiverGone /\ ~Full /\ queue' = Append(queue, f) /\ f \in Frame
    /\ \/ f.id = 0 /\ outcome' = outcome
       \/ /\ f.id = Len(outcome) + 1 /\ f.type # "close" /\ Len(outcome) < MaxSend
          /\ outcome' = Append(outcome, "Pending")
    /\ UNCHANGED <<writer, hand, wire>>

(* The writer goes on with what it has in hand.                            *)
GoesOn ==
    /\ \/ writer = "idle" /\ writer' = "lastClose"
       \/ writer = "preparing" /\ writer' = "flushing" /\ hand.type = "barrier"
       \/ writer = "preparing" /\ writer' = "writing" /\ hand.type # "barrier"
    /\ UNCHANGED <<queue, hand, wire, outcome>>

(* It drops a frame that cannot be encoded.                                *)
Skips ==
    /\ writer = "preparing" /\ writer' = "idle" /\ hand' = NoFrame
    /\ outcome' = Abandon({hand.id}) /\ UNCHANGED <<queue, wire>>

(* It ends, with the frame in hand cut short or its goodbye on the wire.   *)
Ends ==
    /\ WriterRuns
    /\ writer' = "done" /\ queue' = <<>> /\ hand' = NoFrame /\ outcome' = Abandon(Waiting)
    /\ \/ wire' = wire
       \/ writer = "writing" /\ wire' = Append(wire, [frame |-> hand, whole |-> FALSE])
       \/ writer = "lastClose" /\ wire' = Append(wire, [frame |-> Control("close"), whole |-> TRUE])

Taken == /\ writer = "idle" /\ queue # <<>> /\ hand' = Head(queue) /\ queue' = Tail(queue)
         /\ writer' = "preparing" /\ UNCHANGED <<wire, outcome>>
Wrote == /\ writer = "writing" /\ wire' = Append(wire, [frame |-> hand, whole |-> TRUE])
         /\ writer' = "flushing" /\ UNCHANGED <<queue, hand, outcome>>

(* It has flushed a frame and tells the sender, or a close frame and ends. *)
Flushed ==
    /\ writer = "flushing" /\ hand.type # "close"
    /\ outcome' = [i \in DOMAIN outcome |-> IF i = hand.id THEN "Written" ELSE outcome[i]]
    /\ writer' = "idle" /\ hand' = NoFrame /\ UNCHANGED <<queue, wire>>
SaidClose ==
    /\ writer = "flushing" /\ hand.type = "close" /\ UNCHANGED wire
    /\ writer' = "done" /\ queue' = <<>> /\ hand' = NoFrame
    /\ outcome' = Abandon({queue[i].id : i \in DOMAIN queue})

OutStep ==
    \/ Rests \/ Begins \/ (\E f : Enters(f)) \/ GoesOn \/ Skips \/ Ends \/ Taken \/ Wrote
    \/ Flushed \/ SaidClose

(* Every action of the connection does one of these ten things to the      *)
(* outbound side.                                                          *)
LEMMA OutSteps ==
  ASSUME TypeOK, WriterSound, Next
  PROVE  OutStep
<1>1. ASSUME RegisterRaw \/ AcceptWebSocket PROVE OutStep
  <2>1. Begins
    BY <1>1 DEF RegisterRaw, AcceptWebSocket, Spawn, Begins, WriterSound
  <2> QED BY <2>1 DEF OutStep
<1>2. ASSUME \/ TakeHandshake \/ AcceptFails \/ RejectWebSocket \/ InsertEntry
             \/ GraceExpires \/ Close \/ Shutdown \/ Poll \/ WatcherNext
             \/ (\E item \in Items : PeerSends(item))
             \/ (\E how \in {"silent", "left"} : PeerStops(how))
      PROVE  OutStep
  <2>1. Rests
    BY <1>2 DEF TakeHandshake, AcceptFails, RejectWebSocket, InsertEntry, GraceExpires, Close,
      Shutdown, Poll, WatcherNext, WatcherHears, WatcherGrace, WatcherCloses, PeerSends,
      PeerStops, outVars, Rests
  <2> QED BY <2>1 DEF OutStep
<1>3. ASSUME NEW quality \in Qualities, Send(quality) PROVE OutStep
  <2> DEFINE f == IF quality = "barrier" THEN FrameOf("barrier", Len(outcome) + 1, "good")
                                         ELSE FrameOf("msg", Len(outcome) + 1, quality)
  <2>1. f \in Frame /\ f.id = Len(outcome) + 1 /\ f.type # "close"
    <3>1. Len(outcome) + 1 \in 0..MaxSend
      BY <1>3, Constants DEF Send, TypeOK
    <3>2. quality \in {"good", "unprepared", "unencodable", "barrier"}
      BY ConnectionAssumption
    <3> QED BY <3>1, <3>2 DEF FrameOf, Frame
  <2>2. /\ ~ReceiverGone /\ ~Full /\ Len(outcome) < MaxSend
        /\ queue' = Append(queue, f) /\ outcome' = Append(outcome, "Pending")
        /\ UNCHANGED <<writer, hand, wire>>
    BY <1>3 DEF Send
  <2>3. Enters(f)
    <3> HIDE DEF f
    <3> QED BY <2>1, <2>2 DEF Enters
  <2> QED BY <2>3 DEF OutStep
<1>4. ASSUME ReaderNext \/ BeatNext PROVE OutStep
  <2>1. ASSUME ReaderPongs \/ ReaderCloses \/ BeatPings PROVE OutStep
    <3>1. UNCHANGED <<writer, hand, wire, outcome>>
      BY <2>1 DEF ReaderPongs, ReaderCloses, BeatPings, ReaderOnly, BeatOnly
    <3>2. \/ queue' = queue
          \/ \E t \in {"ping", "pong", "close"} :
               ~ReceiverGone /\ ~Full /\ queue' = Append(queue, Control(t))
      BY <2>1 DEF ReaderPongs, ReaderCloses, BeatPings
    <3>3. CASE queue' = queue
      BY <3>1, <3>3 DEF OutStep, Rests
    <3>4. ASSUME NEW t \in {"ping", "pong", "close"},
                 ~ReceiverGone, ~Full, queue' = Append(queue, Control(t))
          PROVE  OutStep
      <4>1. Enters(Control(t))
        BY <3>1, <3>4, FrameTypes DEF Enters
      <4> QED BY <4>1 DEF OutStep
    <3> QED BY <3>2, <3>3, <3>4
  <2>2. ASSUME ReaderReads \/ ReaderStops \/ ReaderDelivers \/ ReaderAborted PROVE OutStep
    <3>1. Rests
      BY <2>2 DEF ReaderReads, ReaderStops, ReaderDelivers, ReaderAborted, ReaderOnly, Rests
    <3> QED BY <3>1 DEF OutStep
  <2>3. ASSUME BeatTicks \/ BeatHears \/ BeatEnds \/ BeatTimesOut \/ BeatAborted PROVE OutStep
    <3>1. Rests
      BY <2>3 DEF BeatTicks, BeatHears, BeatEnds, BeatTimesOut, BeatAborted, BeatOnly, Rests
    <3> QED BY <3>1 DEF OutStep
  <2> QED BY <1>4, <2>1, <2>2, <2>3 DEF ReaderNext, BeatNext
<1>5. ASSUME WriterNext PROVE OutStep
  <2>1. ASSUME WriterTakes \/ WriterWrites PROVE OutStep
    <3>1. Taken \/ Wrote
      BY <2>1 DEF WriterTakes, WriterWrites, Taken, Wrote
    <3> QED BY <3>1 DEF OutStep
  <2>2. ASSUME WriterDrained PROVE OutStep
    <3>1. GoesOn \/ Ends
      BY <2>2 DEF WriterDrained, WriterEnds, WriterRuns, GoesOn, Ends
    <3> QED BY <3>1 DEF OutStep
  <2>3. ASSUME WriterPrepares PROVE OutStep
    <3>1. GoesOn \/ Skips \/ Ends
      BY <2>3 DEF WriterPrepares, WriterEnds, WriterRuns, GoesOn, Skips, Ends
    <3> QED BY <3>1 DEF OutStep
  <2>4. ASSUME WriteFails \/ FlushFails \/ WriterAborted PROVE OutStep
    <3>1. Ends
      BY <2>4 DEF WriteFails, FlushFails, WriterAborted, WriterEnds, WriterRuns, Ends
    <3> QED BY <3>1 DEF OutStep
  <2>5. ASSUME WriterSaysGoodbye PROVE OutStep
    <3>1. Ends
      BY <2>5 DEF WriterSaysGoodbye, WriterEnds, WriterRuns, Ends
    <3> QED BY <3>1 DEF OutStep
  <2>6. ASSUME WriterFlushes PROVE OutStep
    <3>1. Flushed \/ SaidClose
      BY <2>6 DEF WriterFlushes, Flushed, SaidClose
    <3> QED BY <3>1 DEF OutStep
  <2> QED BY <1>5, <2>1, <2>2, <2>3, <2>4, <2>5, <2>6 DEF WriterNext
<1> QED BY <1>1, <1>2, <1>3, <1>4, <1>5 DEF Next

(* The types of the outbound side.                                         *)
OutTypes ==
    /\ queue \in Seq(Frame) /\ Len(queue) <= Capacity
    /\ writer \in {"none", "idle", "preparing", "writing", "flushing", "lastClose", "done"}
    /\ hand \in Frame /\ wire \in Seq(Sent)
    /\ outcome \in Seq({"Pending", "Written", "Abandoned"}) /\ Len(outcome) <= MaxSend

(* A step leaves the outbound side well-typed: enqueue_frame never exceeds *)
(* the channel's capacity.                                                 *)
LEMMA OutTypesStep ==
  ASSUME OutTypes, OutStep
  PROVE  OutTypes'
<1> USE DEF OutTypes
<1>1. CASE Rests
  BY <1>1 DEF Rests
<1>2. CASE Begins
  BY <1>2 DEF Begins
<1>3. ASSUME NEW f, Enters(f) PROVE OutTypes'
  <2>1. queue' \in Seq(Frame) /\ Len(queue') <= Capacity
    BY <1>3, Constants DEF Enters, Full
  <2>2. outcome' \in Seq({"Pending", "Written", "Abandoned"}) /\ Len(outcome') <= MaxSend
    <3>1. CASE outcome' = outcome
      BY <3>1
    <3>2. CASE Len(outcome) < MaxSend /\ outcome' = Append(outcome, "Pending")
      <4>1. outcome \in Seq({"Pending", "Written", "Abandoned"})
        OBVIOUS
      <4>2. Append(outcome, "Pending") \in Seq({"Pending", "Written", "Abandoned"})
            /\ Len(Append(outcome, "Pending")) = Len(outcome) + 1 /\ Len(outcome) \in Nat
        BY <4>1
      <4> QED BY <3>2, <4>2, Constants
    <3> QED BY <1>3, <3>1, <3>2 DEF Enters
  <2> QED BY <1>3, <2>1, <2>2 DEF Enters
<1>4. CASE GoesOn
  BY <1>4 DEF GoesOn
<1>5. CASE Skips
  BY <1>5, FrameTypes, AbandonIs DEF Skips
<1>6. CASE Ends
  <2>1. wire' \in Seq(Sent)
    <3>1. [frame |-> hand, whole |-> FALSE] \in Sent
      BY DEF Sent
    <3>2. [frame |-> Control("close"), whole |-> TRUE] \in Sent
      BY FrameTypes DEF Sent
    <3>3. \/ wire' = wire
          \/ \E x \in Sent : wire' = Append(wire, x)
      BY <1>6, <3>1, <3>2 DEF Ends
    <3>4. wire \in Seq(Sent)
      OBVIOUS
    <3> QED BY <3>3, <3>4
  <2>2. queue' \in Seq(Frame) /\ Len(queue') <= Capacity
    BY <1>6, Constants DEF Ends
  <2> QED BY <1>6, <2>1, <2>2, FrameTypes, AbandonIs DEF Ends
<1>7. CASE Taken
  <2>1. Head(queue) \in Frame /\ Tail(queue) \in Seq(Frame) /\ Len(Tail(queue)) <= Capacity
    BY <1>7, Constants DEF Taken
  <2> QED BY <1>7, <2>1 DEF Taken
<1>8. CASE Wrote
  <2>1. [frame |-> hand, whole |-> TRUE] \in Sent
    BY DEF Sent
  <2> QED BY <1>8, <2>1 DEF Wrote
<1>9. CASE Flushed
  <2> DEFINE n == Len(outcome)
             told == [i \in 1..n |-> IF i = hand.id THEN "Written" ELSE outcome[i]]
  <2>1. n \in Nat /\ DOMAIN outcome = 1..n /\ outcome' = told
    BY <1>9 DEF Flushed
  <2>2. told \in [1..n -> {"Pending", "Written", "Abandoned"}]
    OBVIOUS
  <2>3. told \in Seq({"Pending", "Written", "Abandoned"}) /\ Len(told) = n
    <3> HIDE DEF told, n
    <3> QED BY <2>1, <2>2
  <2> HIDE DEF told
  <2> QED BY <1>9, <2>1, <2>3, FrameTypes DEF Flushed
<1>10. CASE SaidClose
  <2>1. queue' \in Seq(Frame) /\ Len(queue') <= Capacity
    BY <1>10, Constants DEF SaidClose
  <2> QED BY <1>10, <2>1, FrameTypes, AbandonIs DEF SaidClose
<1> QED BY <1>1, <1>2, <1>3, <1>4, <1>5, <1>6, <1>7, <1>8, <1>9, <1>10 DEF OutStep

(* TypeOK covers the outbound side.                                        *)
LEMMA OutTyped == TypeOK => OutTypes
  BY DEF TypeOK, OutTypes, Sent

(* The parts of WriterSound that the outbound side alone decides.          *)
HandSound ==
    /\ writer \in {"none", "idle", "lastClose", "done"} => hand = NoFrame
    /\ writer \in {"none", "done"} => queue = <<>>
    /\ writer = "none" => outcome = <<>>
    /\ writer = "writing" => hand.type # "barrier"
    /\ hand.type = "close" => hand.id = 0
    /\ \A q \in DOMAIN queue : queue[q].type = "close" => queue[q].id = 0

(* The items of a sequence with one more at its end.                       *)
LEMMA AppendIs ==
  ASSUME NEW S, NEW s \in Seq(S), NEW x \in S
  PROVE  /\ Len(s) \in Nat /\ DOMAIN s = 1..Len(s) /\ Len(Append(s, x)) = Len(s) + 1
         /\ DOMAIN Append(s, x) = 1..(Len(s) + 1)
         /\ \A i \in DOMAIN s : i \in DOMAIN Append(s, x) /\ Append(s, x)[i] = s[i]
         /\ Append(s, x)[Len(s) + 1] = x
         /\ \A i \in DOMAIN Append(s, x) : i \in DOMAIN s \/ i = Len(s) + 1
  OBVIOUS

(* The items of a sequence without its first.                              *)
LEMMA TailIs ==
  ASSUME NEW S, NEW s \in Seq(S), s # <<>>
  PROVE  /\ Len(s) \in Nat /\ DOMAIN s = 1..Len(s) /\ 1 \in DOMAIN s /\ Head(s) = s[1]
         /\ DOMAIN Tail(s) = 1..(Len(s) - 1)
         /\ \A i \in DOMAIN Tail(s) : i + 1 \in DOMAIN s /\ Tail(s)[i] = s[i + 1]
         /\ \A i \in DOMAIN s : i # 1 => i - 1 \in DOMAIN Tail(s) /\ Tail(s)[i - 1] = s[i]
<1>1. /\ Len(s) \in Nat /\ DOMAIN s = 1..Len(s) /\ 1 \in DOMAIN s /\ Head(s) = s[1]
      /\ DOMAIN Tail(s) = 1..(Len(s) - 1)
      /\ \A i \in 1..(Len(s) - 1) : Tail(s)[i] = s[i + 1]
  OBVIOUS
<1>2. \A i \in 1..(Len(s) - 1) : i + 1 \in 1..Len(s)
  BY <1>1
<1>3. \A i \in 1..Len(s) : i # 1 => i - 1 \in 1..(Len(s) - 1) /\ (i - 1) + 1 = i
  BY <1>1
<1> QED BY <1>1, <1>2, <1>3

(* The writer has a frame in hand only while it works on one, and a close  *)
(* frame carries no receipt.                                               *)
LEMMA HandStep ==
  ASSUME OutTypes, HandSound, OutStep
  PROVE  HandSound'
<1> USE DEF HandSound
<1>1. CASE Rests \/ Begins \/ GoesOn
  BY <1>1 DEF Rests, Begins, GoesOn
<1>2. ASSUME NEW f, Enters(f) PROVE HandSound'
  <2>1. f \in Frame /\ queue \in Seq(Frame) /\ queue' = Append(queue, f)
        /\ (f.type = "close" => f.id = 0)
    BY <1>2 DEF Enters, OutTypes
  <2>2. \A q \in DOMAIN queue' : queue'[q].type = "close" => queue'[q].id = 0
    BY <2>1, AppendIs
  <2> QED BY <1>2, <2>2 DEF Enters, ReceiverGone
<1>3. CASE Skips \/ Ends \/ SaidClose
  <2>1. hand' = NoFrame /\ (queue' = queue \/ queue' = <<>>)
    BY <1>3 DEF Skips, Ends, SaidClose
  <2>2. writer' \in {"idle", "done"} /\ (writer' = "done" => queue' = <<>>)
    BY <1>3 DEF Skips, Ends, SaidClose
  <2> QED BY <2>1, <2>2, FrameTypes
<1>4. CASE Taken
  <2>1. /\ hand' = queue[1] /\ 1 \in DOMAIN queue
        /\ \A q \in DOMAIN queue' : q + 1 \in DOMAIN queue /\ queue'[q] = queue[q + 1]
    BY <1>4, TailIs DEF Taken, OutTypes
  <2> QED BY <1>4, <2>1 DEF Taken
<1>5. CASE Wrote
  BY <1>5 DEF Wrote
<1>6. CASE Flushed
  BY <1>6, FrameTypes DEF Flushed
<1> QED BY <1>1, <1>2, <1>3, <1>4, <1>5, <1>6 DEF OutStep

(* Frames stay in the order they were queued, from the channel through the *)
(* writer's hand to the wire.                                              *)
LEMMA OrderStep ==
  ASSUME OutTypes, HandSound, ReceiptsSound, InOrder, OutStep
  PROVE  InOrder'
<1>0. /\ queue \in Seq(Frame) /\ wire \in Seq(Sent) /\ hand \in Frame /\ NoFrame.id = 0
      /\ \A q \in DOMAIN queue : queue[q] \in Frame /\ queue[q].id \in Nat /\ q \in Int
      /\ hand.id \in Nat
      /\ \A i \in DOMAIN wire : wire[i].frame.id \in Nat /\ i \in Int
      /\ Len(wire) \in Nat /\ DOMAIN wire = 1..Len(wire)
      /\ Len(queue) \in Nat /\ DOMAIN queue = 1..Len(queue)
  <2>1. \A i \in DOMAIN wire : wire[i] \in Sent
    BY DEF OutTypes
  <2>2. \A q \in DOMAIN queue : queue[q] \in Frame
    BY DEF OutTypes
  <2>3. /\ Len(wire) \in Nat /\ DOMAIN wire = 1..Len(wire)
        /\ Len(queue) \in Nat /\ DOMAIN queue = 1..Len(queue)
        /\ queue \in Seq(Frame) /\ wire \in Seq(Sent) /\ hand \in Frame
    BY DEF OutTypes
  <2> QED BY <2>1, <2>2, <2>3, FrameTypes DEF Sent
<1>1. CASE Rests \/ Begins \/ GoesOn
  <2>1. /\ UNCHANGED <<queue, hand, wire>>
        /\ writer' # "flushing" => writer # "flushing" \/ hand.id = 0
    BY <1>1 DEF Rests, Begins, GoesOn
  <2> QED BY <2>1 DEF InOrder
<1>2. ASSUME NEW f, Enters(f) PROVE InOrder'
  <2>1. f \in Frame /\ f.id \in Nat /\ queue' = Append(queue, f) 
        /\ UNCHANGED <<writer, hand, wire>>
    BY <1>2, FrameTypes DEF Enters
  <2>2. /\ \A q \in DOMAIN queue : q \in DOMAIN queue' /\ queue'[q] = queue[q]
        /\ DOMAIN queue' = 1..(Len(queue) + 1)
        /\ \A q \in DOMAIN queue' : q \in DOMAIN queue \/ q = Len(queue) + 1
        /\ queue'[Len(queue) + 1] = f
    BY <2>1, <1>0, AppendIs
  <2>3. f.id > 0 => /\ \A q \in DOMAIN queue : queue[q].id < f.id
                    /\ hand.id < f.id
                    /\ \A i \in DOMAIN wire : wire[i].frame.id < f.id
    <3> HAVE f.id > 0
    <3>1. f.id = Len(outcome) + 1 /\ Len(outcome) \in Nat /\ DOMAIN outcome = 1..Len(outcome)
      BY <1>2, <2>1 DEF Enters, OutTypes
    <3>2. \A q \in DOMAIN queue : queue[q].id <= Len(outcome)
      BY <3>1, <1>0 DEF ReceiptsSound
    <3>3. hand.id <= Len(outcome)
      BY <3>1, <1>0 DEF ReceiptsSound
    <3>4. \A i \in DOMAIN wire : wire[i].frame.id <= Len(outcome)
      BY <3>1, <1>0 DEF ReceiptsSound
    <3> QED BY <3>1, <3>2, <3>3, <3>4, <1>0
  <2>4. \A q \in DOMAIN queue : q < Len(queue) + 1
    BY <1>0
  <2>5. \A i \in DOMAIN wire : wire[i].frame.id > 0 =>
           \A q \in DOMAIN queue' : queue'[q].id > 0 => wire[i].frame.id < queue'[q].id
    BY <2>2, <2>3 DEF InOrder
  <2>6. \A q \in DOMAIN queue' : queue'[q].id > 0 => (hand.id > 0 => hand.id < queue'[q].id)
    BY <2>2, <2>3 DEF InOrder
  <2>7. \A q, r \in DOMAIN queue' :
           q < r /\ queue'[q].id > 0 /\ queue'[r].id > 0 => queue'[q].id < queue'[r].id
    <3> TAKE q, r \in DOMAIN queue'
    <3>1. CASE q \in DOMAIN queue /\ r \in DOMAIN queue
      BY <3>1, <2>2 DEF InOrder
    <3>2. CASE q = Len(queue) + 1
      BY <3>2, <2>2, <1>0
    <3>3. CASE r = Len(queue) + 1 /\ q \in DOMAIN queue
      BY <3>3, <2>2, <2>3
    <3> QED BY <3>1, <3>2, <3>3, <2>2
  <2> QED BY <2>1, <2>5, <2>6, <2>7 DEF InOrder
<1>3. CASE Skips \/ Flushed
  <2>1. hand' = NoFrame /\ UNCHANGED <<queue, wire>>
    BY <1>3 DEF Skips, Flushed
  <2> QED BY <2>1, <1>0 DEF InOrder
<1>4. CASE SaidClose
  <2>1. hand' = NoFrame /\ queue' = <<>> /\ wire' = wire
    BY <1>4 DEF SaidClose
  <2> QED BY <2>1, <1>0 DEF InOrder
<1>5. CASE Taken
  <2>1. /\ hand' = queue[1] /\ 1 \in DOMAIN queue /\ wire' = wire
        /\ \A q \in DOMAIN queue' : q + 1 \in DOMAIN queue /\ queue'[q] = queue[q + 1]
                                    /\ q \in Int /\ 1 < q + 1
    <3>1. /\ hand' = queue[1] /\ 1 \in DOMAIN queue /\ wire' = wire
          /\ DOMAIN queue' = 1..(Len(queue) - 1)
          /\ \A q \in DOMAIN queue' : q + 1 \in DOMAIN queue /\ queue'[q] = queue[q + 1]
      BY <1>5, <1>0, TailIs DEF Taken
    <3> QED BY <3>1, <1>0
  <2>2. \A q \in DOMAIN queue' : queue'[q].id > 0 => 
          /\ hand'.id > 0 => hand'.id < queue'[q].id
          /\ \A r \in DOMAIN queue' : q < r /\ queue'[r].id > 0 => queue'[q].id < queue'[r].id
    BY <2>1 DEF InOrder
  <2>3. \A i \in DOMAIN wire' : wire'[i].frame.id > 0 =>
         /\ hand'.id > 0 => wire'[i].frame.id < hand'.id
         /\ \A q \in DOMAIN queue' : queue'[q].id > 0 => wire'[i].frame.id < queue'[q].id
    BY <2>1 DEF InOrder
  <2>4. \A i \in DOMAIN wire' : wire'[i].frame.id > 0 /\ hand'.id > 0 =>
           wire'[i].frame.id <= hand'.id
    BY <2>1, <2>3, <1>0
  <2> QED BY <2>1, <2>2, <2>3, <2>4 DEF InOrder
<1>6. ASSUME NEW x \in Sent, wire' = Append(wire, x), x.frame.id \in Nat,
             x.frame.id > 0 => x.frame.id = hand.id /\ writer = "writing",
             \/ hand' = hand /\ writer' = "flushing" /\ queue' = queue
             \/ hand' = NoFrame /\ queue' = <<>>
      PROVE  InOrder'
  <2>1. /\ \A i \in DOMAIN wire : i \in DOMAIN wire' /\ wire'[i] = wire[i]
        /\ \A i \in DOMAIN wire' : i \in DOMAIN wire \/ i = Len(wire) + 1
        /\ DOMAIN wire' = 1..(Len(wire) + 1) /\ wire'[Len(wire) + 1] = x
    BY <1>0, <1>6, AppendIs
  <2>2. x.frame.id > 0 => \A i \in DOMAIN wire : wire[i].frame.id > 0 => 
                            wire[i].frame.id < x.frame.id
    BY <1>6 DEF InOrder
  <2>3. \A i, j \in DOMAIN wire' :
         i < j /\ wire'[i].frame.id > 0 /\ wire'[j].frame.id > 0
            => wire'[i].frame.id < wire'[j].frame.id
    <3> TAKE i, j \in DOMAIN wire'
    <3>1. CASE i \in DOMAIN wire /\ j \in DOMAIN wire
      BY <3>1, <2>1 DEF InOrder
    <3>2. CASE i = Len(wire) + 1
      BY <3>2, <2>1, <1>0
    <3>3. CASE i \in DOMAIN wire /\ j = Len(wire) + 1
      BY <3>3, <2>1, <2>2
    <3> QED BY <3>1, <3>2, <3>3, <2>1
  <2>4. CASE hand' = NoFrame /\ queue' = <<>>
    BY <2>3, <2>4, <1>0 DEF InOrder
  <2>5. CASE hand' = hand /\ writer' = "flushing" /\ queue' = queue
    <3>1. \A i \in DOMAIN wire' : wire'[i].frame.id > 0 =>
            /\ hand.id > 0 => wire'[i].frame.id <= hand.id
            /\ \A q \in DOMAIN queue : queue[q].id > 0 => wire'[i].frame.id < queue[q].id
      <4> TAKE i \in DOMAIN wire'
      <4>1. CASE i \in DOMAIN wire
        BY <4>1, <2>1 DEF InOrder
      <4>2. CASE i = Len(wire) + 1
        BY <4>2, <2>1, <1>6, <1>0 DEF InOrder
      <4> QED BY <4>1, <4>2, <2>1
    <3> QED BY <2>3, <2>5, <3>1 DEF InOrder
  <2> QED BY <2>4, <2>5, <1>6
<1>7. CASE Wrote
  <2> DEFINE x == [frame |-> hand, whole |-> TRUE]
  <2>1. x \in Sent /\ x.frame = hand
    BY <1>0 DEF Sent
  <2>2. wire' = Append(wire, x) /\ hand' = hand /\ writer' = "flushing" /\ queue' = queue
        /\ writer = "writing"
    BY <1>7 DEF Wrote
  <2> HIDE DEF x
  <2> QED BY <2>1, <2>2, <1>0, <1>6
<1>8. CASE Ends
  <2>0. hand' = NoFrame /\ queue' = <<>>
    BY <1>8 DEF Ends
  <2>1. CASE wire' = wire
    BY <2>0, <2>1, <1>0 DEF InOrder
  <2>2. CASE writer = "writing" /\ wire' = Append(wire, [frame |-> hand, whole |-> FALSE])
    <3> DEFINE x == [frame |-> hand, whole |-> FALSE]
    <3>1. x \in Sent /\ x.frame = hand
      BY <1>0 DEF Sent
    <3> HIDE DEF x
    <3> QED BY <3>1, <2>0, <2>2, <1>0, <1>6 DEF x
  <2>3. CASE wire' = Append(wire, [frame |-> Control("close"), whole |-> TRUE])
    <3> DEFINE x == [frame |-> Control("close"), whole |-> TRUE]
    <3>1. x \in Sent /\ x.frame.id = 0
      BY FrameTypes DEF Sent
    <3> HIDE DEF x
    <3> QED BY <3>1, <2>0, <2>3, <1>0, <1>6 DEF x
  <2> QED BY <1>8, <2>1, <2>2, <2>3 DEF Ends
<1> QED BY <1>1, <1>2, <1>3, <1>4, <1>5, <1>7, <1>8 DEF OutStep

(* A receipt is pending exactly while its frame is on the way (WriteGuard: *)
(* written on the flush, abandoned on drop).                               *)
LEMMA ReceiptsStep ==
  ASSUME OutTypes, HandSound, ReceiptsSound, InOrder, OutStep
  PROVE  ReceiptsSound'
<1> DEFINE Status == {"Pending", "Written", "Abandoned"}
<1>0. /\ queue \in Seq(Frame) /\ wire \in Seq(Sent) /\ hand \in Frame /\ NoFrame.id = 0
      /\ \A q \in DOMAIN queue : queue[q].id \in Nat
      /\ hand.id \in Nat /\ \A i \in DOMAIN wire : wire[i].frame.id \in Nat
      /\ outcome \in Seq(Status) /\ Len(outcome) \in Nat /\ DOMAIN outcome = 1..Len(outcome)
  <2>1. \A i \in DOMAIN wire : wire[i] \in Sent
    BY DEF OutTypes
  <2>2. \A q \in DOMAIN queue : queue[q] \in Frame
    BY DEF OutTypes
  <2>3. /\ queue \in Seq(Frame) /\ wire \in Seq(Sent) /\ hand \in Frame
        /\ outcome \in Seq(Status) /\ Len(outcome) \in Nat /\ DOMAIN outcome = 1..Len(outcome)
    BY DEF OutTypes
  <2> QED BY <2>1, <2>2, <2>3, FrameTypes DEF Sent
<1> HIDE DEF Status
<1>1. CASE Rests \/ Begins \/ GoesOn
  <2>1. UNCHANGED <<queue, hand, wire, outcome>>
    BY <1>1 DEF Rests, Begins, GoesOn
  <2> QED BY <2>1 DEF ReceiptsSound
<1>2. ASSUME NEW f, Enters(f) PROVE ReceiptsSound'
  <2>1. f \in Frame /\ f.id \in Nat /\ queue' = Append(queue, f) 
        /\ UNCHANGED <<writer, hand, wire>>
    BY <1>2, FrameTypes DEF Enters
  <2>2. /\ \A q \in DOMAIN queue : q \in DOMAIN queue' /\ queue'[q] = queue[q]
        /\ DOMAIN queue' = 1..(Len(queue) + 1)
        /\ \A q \in DOMAIN queue' : q \in DOMAIN queue \/ q = Len(queue) + 1
        /\ queue'[Len(queue) + 1] = f /\ Len(queue) + 1 \in DOMAIN queue'
    BY <2>1, <1>0, AppendIs
  <2>3. CASE f.id = 0 /\ outcome' = outcome
    BY <2>1, <2>2, <2>3 DEF ReceiptsSound
  <2>4. CASE f.id = Len(outcome) + 1 /\ outcome' = Append(outcome, "Pending")
    <3> DEFINE n == Len(outcome) + 1
    <3>1. /\ \A i \in DOMAIN outcome : i \in DOMAIN outcome' /\ outcome'[i] = outcome[i]
          /\ \A i \in DOMAIN outcome' : i \in DOMAIN outcome \/ i = n
          /\ outcome'[n] = "Pending" /\ n \in DOMAIN outcome' /\ n \notin DOMAIN outcome
      <4>1. "Pending" \in Status
        BY DEF Status
      <4>2. outcome' = Append(outcome, "Pending")
        BY <2>4
      <4> QED BY <4>1, <4>2, <1>0, AppendIs
    <3>2. hand.id > 0 => hand.id \in DOMAIN outcome' /\ outcome'[hand.id] = "Pending"
      BY <3>1 DEF ReceiptsSound
    <3>3. \A q \in DOMAIN queue' : queue'[q].id > 0 =>
            queue'[q].id \in DOMAIN outcome' /\ outcome'[queue'[q].id] = "Pending"
      BY <3>1, <2>2, <2>4 DEF ReceiptsSound
    <3>4. \A i \in DOMAIN outcome' : outcome'[i] = "Pending" =>
            hand.id = i \/ \E q \in DOMAIN queue' : queue'[q].id = i
      BY <3>1, <2>2, <2>4 DEF ReceiptsSound
    <3>5. \A i \in DOMAIN outcome' : outcome'[i] = "Written" =>
             \A j \in 1..i : outcome'[j] # "Pending"
      <4> TAKE i \in DOMAIN outcome'
      <4> HAVE outcome'[i] = "Written"
      <4>1. i \in DOMAIN outcome /\ outcome[i] = "Written"
        BY <3>1
      <4>2. \A j \in 1..i : j \in DOMAIN outcome
        BY <4>1, <1>0
      <4> QED BY <4>1, <4>2, <3>1 DEF ReceiptsSound
    <3>6. \A i \in DOMAIN wire : wire[i].frame.id > 0 =>
            /\ wire[i].frame.id \in DOMAIN outcome'
            /\ ~wire[i].whole => outcome'[wire[i].frame.id] = "Abandoned"
      BY <3>1 DEF ReceiptsSound
    <3> QED BY <2>1, <3>2, <3>3, <3>4, <3>5, <3>6 DEF ReceiptsSound
  <2> QED BY <1>2, <2>3, <2>4 DEF Enters
<1>3. CASE Skips
  <2>1. /\ hand' = NoFrame /\ UNCHANGED <<queue, wire>> /\ DOMAIN outcome' = DOMAIN outcome
        /\ \A i \in DOMAIN outcome :
              outcome'[i] = IF i = hand.id /\ outcome[i] = "Pending" THEN "Abandoned"
                            ELSE outcome[i]
    BY <1>3, AbandonIs DEF Skips, OutTypes
  <2>2. \A q \in DOMAIN queue : queue[q].id > 0 => queue[q].id # hand.id
    BY <1>0 DEF InOrder
  <2>3. \A i \in DOMAIN outcome : \A j \in 1..i : j \in DOMAIN outcome
    BY <1>0
  <2>4. \A i \in DOMAIN outcome' : outcome'[i] = "Written" =>
             \A j \in 1..i : outcome'[j] # "Pending"
    BY <2>1, <2>3 DEF ReceiptsSound
  <2> QED BY <2>1, <2>2, <2>4, <1>0 DEF ReceiptsSound
<1>4. CASE Flushed
  <2>1. /\ hand' = NoFrame /\ UNCHANGED <<queue, wire>> /\ DOMAIN outcome' = DOMAIN outcome
        /\ \A i \in DOMAIN outcome :
              outcome'[i] = IF i = hand.id THEN "Written" ELSE outcome[i]
    BY <1>4 DEF Flushed
  <2>2. \A q \in DOMAIN queue : queue[q].id > 0 => queue[q].id # hand.id
    BY <1>0 DEF InOrder
  <2>3. \A i \in DOMAIN outcome : \A j \in 1..i : j \in DOMAIN outcome /\ j <= i /\ j > 0
    BY <1>0
  <2>4. \A i \in DOMAIN outcome' : outcome'[i] = "Written" =>
             \A j \in 1..i : outcome'[j] # "Pending"
    <3> TAKE i \in DOMAIN outcome'
    <3> HAVE outcome'[i] = "Written"
    <3> TAKE j \in 1..i
    <3>0. i \in DOMAIN outcome /\ j \in DOMAIN outcome /\ j <= i /\ j > 0
      BY <2>1, <2>3
    <3>1. CASE i # hand.id
      BY <2>1, <3>0, <3>1 DEF ReceiptsSound
    <3>2. CASE i = hand.id /\ j # hand.id
      <4>1. \A q \in DOMAIN queue : queue[q].id # j
        BY <3>0, <3>2, <1>0 DEF InOrder
      <4>2. outcome[j] # "Pending"
        BY <4>1, <3>0, <3>2 DEF ReceiptsSound
      <4> QED BY <2>1, <3>0, <3>2, <4>2
    <3>3. CASE j = hand.id
      BY <2>1, <3>0, <3>3
    <3> QED BY <3>1, <3>2, <3>3
  <2>5. \A i \in DOMAIN wire : wire[i].frame.id > 0 =>
            /\ wire[i].frame.id \in DOMAIN outcome'
            /\ ~wire[i].whole => outcome'[wire[i].frame.id] = "Abandoned"
    BY <2>1 DEF ReceiptsSound
  <2>6. \A q \in DOMAIN queue : queue[q].id > 0 =>
          queue[q].id \in DOMAIN outcome' /\ outcome'[queue[q].id] = "Pending"
    BY <2>1, <2>2 DEF ReceiptsSound
  <2>7. \A i \in DOMAIN outcome' : outcome'[i] = "Pending" =>
           \E q \in DOMAIN queue : queue[q].id = i
    BY <2>1 DEF ReceiptsSound
  <2> QED BY <2>1, <2>4, <2>5, <2>6, <2>7, <1>0 DEF ReceiptsSound
<1>5. ASSUME hand' = NoFrame, queue' = <<>>, DOMAIN outcome' = DOMAIN outcome,
             \A i \in DOMAIN outcome : outcome'[i] = IF outcome[i] = "Pending"
                                                     THEN "Abandoned" ELSE outcome[i],
             \A i \in DOMAIN wire' : wire'[i].frame.id > 0 =>
               /\ wire'[i].frame.id \in DOMAIN outcome
               /\ ~wire'[i].whole => outcome[wire'[i].frame.id] \in {"Abandoned", "Pending"}
      PROVE  ReceiptsSound'
  <2>1. \A i \in DOMAIN outcome : \A j \in 1..i : j \in DOMAIN outcome
    BY <1>0
  <2>2. \A i \in DOMAIN outcome' : outcome'[i] # "Pending"
    BY <1>5
  <2>3. \A i \in DOMAIN outcome' : \A j \in 1..i : outcome'[j] # "Pending"
    BY <1>5, <2>1, <2>2
  <2>4. \A i \in DOMAIN wire' : wire'[i].frame.id > 0 =>
               /\ wire'[i].frame.id \in DOMAIN outcome'
               /\ ~wire'[i].whole => outcome'[wire'[i].frame.id] = "Abandoned"
    BY <1>5
  <2>5. hand'.id = 0
    BY <1>5, <1>0
  <2>6. DOMAIN queue' = {}
    BY <1>5
  <2> QED BY <2>2, <2>3, <2>4, <2>5, <2>6 DEF ReceiptsSound
<1>6. CASE SaidClose
  <2>0. hand.id = 0
    BY <1>6 DEF SaidClose, HandSound
  <2>1. /\ hand' = NoFrame /\ queue' = <<>> /\ DOMAIN outcome' = DOMAIN outcome /\ wire' = wire
        /\ \A i \in DOMAIN outcome :
             outcome'[i] = IF i \in {queue[q].id : q \in DOMAIN queue} /\ outcome[i] = "Pending"
                           THEN "Abandoned" ELSE outcome[i]
    BY <1>6, AbandonIs DEF SaidClose, OutTypes
  <2>2. \A i \in DOMAIN outcome : outcome[i] = "Pending" =>
                                    i \in {queue[q].id : q \in DOMAIN queue}
    BY <2>0, <1>0 DEF ReceiptsSound
  <2>3. \A i \in DOMAIN outcome : outcome'[i] = IF outcome[i] = "Pending"
                                                     THEN "Abandoned" ELSE outcome[i]
    BY <2>1, <2>2
  <2>4. \A i \in DOMAIN wire' : wire'[i].frame.id > 0 =>
               /\ wire'[i].frame.id \in DOMAIN outcome
               /\ ~wire'[i].whole => outcome[wire'[i].frame.id] \in {"Abandoned", "Pending"}
    BY <2>1 DEF ReceiptsSound
  <2> QED BY <2>1, <2>3, <2>4, <1>5
<1>7. CASE Ends
  <2>1. /\ hand' = NoFrame /\ queue' = <<>> /\ DOMAIN outcome' = DOMAIN outcome
        /\ \A i \in DOMAIN outcome :
             outcome'[i] = IF i \in Waiting /\ outcome[i] = "Pending"
                           THEN "Abandoned" ELSE outcome[i]
    BY <1>7, AbandonIs DEF Ends, OutTypes
  <2>2. \A i \in DOMAIN outcome : outcome[i] = "Pending" => i \in Waiting
    BY <1>0 DEF ReceiptsSound, Waiting
  <2>3. \A i \in DOMAIN outcome : outcome'[i] = IF outcome[i] = "Pending"
                                                     THEN "Abandoned" ELSE outcome[i]
    BY <2>1, <2>2
  <2>4. ASSUME NEW x \in Sent, wire' = Append(wire, x), x.frame.id > 0 => x.frame.id = hand.id
        PROVE  \A i \in DOMAIN wire' : wire'[i].frame.id > 0 =>
                 /\ wire'[i].frame.id \in DOMAIN outcome
                 /\ ~wire'[i].whole => outcome[wire'[i].frame.id] \in {"Abandoned", "Pending"}
    <3>1. /\ \A i \in DOMAIN wire : i \in DOMAIN wire' /\ wire'[i] = wire[i]
          /\ \A i \in DOMAIN wire' : i \in DOMAIN wire \/ i = Len(wire) + 1
          /\ wire'[Len(wire) + 1] = x
      BY <1>0, <2>4, AppendIs
    <3>2. x.frame.id > 0 => x.frame.id \in DOMAIN outcome /\ outcome[x.frame.id] = "Pending"
      BY <2>4 DEF ReceiptsSound
    <3> QED BY <3>1, <3>2 DEF ReceiptsSound
  <2>5. \A i \in DOMAIN wire' : wire'[i].frame.id > 0 =>
               /\ wire'[i].frame.id \in DOMAIN outcome
               /\ ~wire'[i].whole => outcome[wire'[i].frame.id] \in {"Abandoned", "Pending"}
    <3>1. CASE wire' = wire
      BY <3>1 DEF ReceiptsSound
    <3>2. CASE wire' = Append(wire, [frame |-> hand, whole |-> FALSE])
      <4> DEFINE x == [frame |-> hand, whole |-> FALSE]
      <4>1. x \in Sent /\ x.frame = hand
        BY <1>0 DEF Sent
      <4> HIDE DEF x
      <4> QED BY <4>1, <3>2, <2>4 DEF x
    <3>3. CASE wire' = Append(wire, [frame |-> Control("close"), whole |-> TRUE])
      <4> DEFINE x == [frame |-> Control("close"), whole |-> TRUE]
      <4>1. x \in Sent /\ x.frame.id = 0
        BY FrameTypes DEF Sent
      <4> HIDE DEF x
      <4> QED BY <4>1, <3>3, <2>4 DEF x
    <3> QED BY <1>7, <3>1, <3>2, <3>3 DEF Ends
  <2> QED BY <2>1, <2>3, <2>5, <1>5
<1>8. CASE Taken
  <2>1. /\ hand' = queue[1] /\ 1 \in DOMAIN queue /\ UNCHANGED <<wire, outcome>>
        /\ \A q \in DOMAIN queue' : q + 1 \in DOMAIN queue /\ queue'[q] = queue[q + 1]
        /\ \A q \in DOMAIN queue : q # 1 => q - 1 \in DOMAIN queue' /\ queue'[q - 1] = queue[q]
    BY <1>8, <1>0, TailIs DEF Taken
  <2>2. hand.id = 0
    BY <1>8, <1>0 DEF Taken, HandSound
  <2>3. \A i \in DOMAIN outcome : outcome[i] = "Pending" =>
         hand'.id = i \/ \E q \in DOMAIN queue' : queue'[q].id = i
    <3> TAKE i \in DOMAIN outcome
    <3> HAVE outcome[i] = "Pending"
    <3>1. i # 0
      BY <1>0
    <3>2. PICK q \in DOMAIN queue : queue[q].id = i
      BY <3>1, <2>2 DEF ReceiptsSound
    <3> QED BY <3>2, <2>1
  <2> QED BY <2>1, <2>3 DEF ReceiptsSound
<1>9. CASE Wrote
  <2> DEFINE x == [frame |-> hand, whole |-> TRUE]
  <2>1. x \in Sent /\ x.frame = hand /\ x.whole = TRUE
    BY <1>0 DEF Sent
  <2>2. wire' = Append(wire, x) /\ UNCHANGED <<hand, queue, outcome>>
    BY <1>9 DEF Wrote
  <2> HIDE DEF x
  <2>3. /\ \A i \in DOMAIN wire : i \in DOMAIN wire' /\ wire'[i] = wire[i]
        /\ \A i \in DOMAIN wire' : i \in DOMAIN wire \/ i = Len(wire) + 1
        /\ wire'[Len(wire) + 1] = x
    BY <1>0, <2>1, <2>2, AppendIs
  <2> QED BY <2>1, <2>2, <2>3 DEF ReceiptsSound
<1> QED BY <1>1, <1>2, <1>3, <1>4, <1>6, <1>7, <1>8, <1>9 DEF OutStep

(* After a frame cut short, and after a close frame, the writer writes     *)
(* nothing more.                                                           *)
LEMMA EndsStep ==
  ASSUME OutTypes, HandSound, EndsSound, OutStep
  PROVE  EndsSound'
<1>0. wire \in Seq(Sent) /\ hand \in Frame /\ Len(wire) \in Nat /\ DOMAIN wire = 1..Len(wire)
  BY DEF OutTypes
<1>1. CASE wire' = wire /\ (writer = "done" => writer' = "done")
           /\ (writer = "flushing" /\ hand.type = "close" =>
                 writer' = "done" \/ (writer' = "flushing" /\ hand' = hand))
  BY <1>1 DEF EndsSound
<1>2. ASSUME NEW x \in Sent, wire' = Append(wire, x), writer \in {"writing", "lastClose"},
             ~x.whole \/ x.frame.type = "close" =>
               writer' = "done" \/ (writer' = "flushing" /\ hand'.type = "close")
      PROVE  EndsSound'
  <2>1. /\ \A i \in DOMAIN wire : i \in DOMAIN wire' /\ wire'[i] = wire[i]
        /\ \A i \in DOMAIN wire' : i \in DOMAIN wire \/ i = Len(wire) + 1
        /\ wire'[Len(wire) + 1] = x /\ Len(wire') = Len(wire) + 1
    BY <1>0, <1>2, AppendIs
  <2>2. \A i \in DOMAIN wire : ~(~wire[i].whole \/ wire[i].frame.type = "close")
    BY <1>2 DEF EndsSound
  <2> QED BY <1>2, <2>1, <2>2 DEF EndsSound
<1>3. CASE Rests \/ Begins \/ (\E f : Enters(f)) \/ GoesOn \/ Skips \/ Taken \/ Flushed
           \/ SaidClose
  <2>1. /\ wire' = wire /\ (writer = "done" => writer' = "done")
        /\ (writer = "flushing" /\ hand.type = "close" =>
              writer' = "done" \/ (writer' = "flushing" /\ hand' = hand))
    BY <1>3 DEF Rests, Begins, Enters, GoesOn, Skips, Taken, Flushed, SaidClose
  <2> QED BY <2>1, <1>1
<1>4. CASE Wrote
  <2> DEFINE x == [frame |-> hand, whole |-> TRUE]
  <2>1. x \in Sent /\ x.frame = hand /\ x.whole = TRUE
    BY <1>0 DEF Sent
  <2>2. wire' = Append(wire, x) /\ hand' = hand /\ writer = "writing" /\ writer' = "flushing"
    BY <1>4 DEF Wrote
  <2> HIDE DEF x
  <2> QED BY <2>1, <2>2, <1>2
<1>5. CASE Ends
  <2>0. writer' = "done"
    BY <1>5 DEF Ends
  <2>1. CASE wire' = wire
    BY <2>0, <2>1, <1>1
  <2>2. CASE writer = "writing" /\ wire' = Append(wire, [frame |-> hand, whole |-> FALSE])
    <3> DEFINE x == [frame |-> hand, whole |-> FALSE]
    <3>1. x \in Sent
      BY <1>0 DEF Sent
    <3> HIDE DEF x
    <3> QED BY <3>1, <2>0, <2>2, <1>2 DEF x
  <2>3. CASE writer = "lastClose"
             /\ wire' = Append(wire, [frame |-> Control("close"), whole |-> TRUE])
    <3> DEFINE x == [frame |-> Control("close"), whole |-> TRUE]
    <3>1. x \in Sent
      BY FrameTypes DEF Sent
    <3> HIDE DEF x
    <3> QED BY <3>1, <2>0, <2>3, <1>2 DEF x
  <2> QED BY <1>5, <2>1, <2>2, <2>3 DEF Ends
<1> QED BY <1>3, <1>4, <1>5 DEF OutStep

(* The types of the rest: the tasks and the entry, and what is counted.    *)
TaskTypes ==
    /\ kind \in Kinds /\ timers \in Timers
    /\ entry \in {"none", "pending", "open", "gone"}
    /\ reg \in {"idle", "answering", "spawned", "done"}
    /\ peer \in {"up", "silent", "left"}
    /\ reader \in {"none", "reading", "deliver", "pong", "close", "done"}
    /\ beat \in {"none", "ticking", "sending", "done"}
    /\ awaiting \in BOOLEAN
    /\ watcher \in {"none", "waiting", "grace", "closing", "done"}
    /\ aborts \subseteq {"reader", "writer", "beat"}
    /\ grace \in BOOLEAN /\ missed \in BOOLEAN
Signals == {"ReaderClosed", "ReaderGracefulClose", "WriterClosed"}
CountTypes ==
    /\ inbox \in Seq(Items) /\ sent \in 0..MaxIn /\ frames \in 0..FrameCapacity
    /\ pongs \in 0..MaxIn /\ pings \in 0..MaxPings
    /\ signals \in Seq(Signals)

(* TypeOK, part by part.                                                   *)
LEMMA TypeParts == TypeOK <=> OutTypes /\ TaskTypes /\ CountTypes
  BY DEF TypeOK, OutTypes, TaskTypes, CountTypes, Signals, Sent

(* remove_connection leaves the entry, the aborts and the grace period     *)
(* well-typed.                                                             *)
LEMMA RemoveIs ==
  ASSUME TaskTypes, RemoveEntry
  PROVE  /\ entry' \in {"none", "pending", "open", "gone"}
         /\ aborts' \subseteq {"reader", "writer", "beat"} /\ grace' \in BOOLEAN
<1>1. CASE entry = "open"
  <2>1. entry' = "gone" /\ grace' = (kind = "ws")
        /\ aborts' = aborts \cup (IF kind = "raw" THEN {"reader", "writer", "beat"}
                                                  ELSE {"reader", "beat"})
    BY <1>1 DEF RemoveEntry
  <2> QED BY <2>1, Zenon DEF TaskTypes
<1>2. CASE entry # "open"
  <2>1. entry' \in {entry, "gone"} /\ UNCHANGED <<aborts, grace>>
    BY <1>2 DEF RemoveEntry
  <2> QED BY <2>1 DEF TaskTypes
<1> QED BY <1>1, <1>2

(* A step leaves the tasks, the entry and the peer well-typed.             *)
LEMMA TasksStep ==
  ASSUME TaskTypes, Next
  PROVE  TaskTypes'
<1>1. ASSUME TaskCloses PROVE /\ entry' \in {"none", "pending", "open", "gone"}
                              /\ aborts' \subseteq {"reader", "writer", "beat"}
                              /\ grace' \in BOOLEAN /\ missed' \in BOOLEAN
  <2>1. missed' = (missed \/ reg = "spawned")
    BY <1>1 DEF TaskCloses
  <2>2. missed' \in BOOLEAN
    BY <2>1
  <2> QED BY <1>1, <2>2, RemoveIs DEF TaskCloses
<1>2. CASE RegisterRaw \/ AcceptWebSocket
  BY <1>2 DEF RegisterRaw, AcceptWebSocket, Spawn, ioVars, TaskTypes
<1>3. CASE TakeHandshake \/ AcceptFails \/ RejectWebSocket \/ InsertEntry
  <2>1. /\ UNCHANGED <<kind, timers, peer, reader, beat, awaiting, watcher, aborts, grace, missed>>
        /\ entry' \in {entry, "gone", "open"} /\ reg' \in {"answering", "done"}
    BY <1>3 DEF TakeHandshake, AcceptFails, RejectWebSocket, InsertEntry, ioVars, beatVars,
      endVars
  <2> QED BY <2>1 DEF TaskTypes
<1>4. CASE GraceExpires
  <2>1. /\ UNCHANGED <<kind, timers, entry, reg, peer, reader, beat, awaiting, watcher, missed>>
        /\ grace' = FALSE /\ aborts' = aborts \cup {"writer"}
    BY <1>4 DEF GraceExpires, ioVars, beatVars
  <2>2. aborts' \subseteq {"reader", "writer", "beat"} /\ grace' \in BOOLEAN
    BY <2>1, Zenon DEF TaskTypes
  <2> QED BY <2>1, <2>2 DEF TaskTypes
<1>5. CASE Close
  BY <1>5, RemoveIs DEF Close, ioVars, beatVars, TaskTypes
<1>6. CASE Shutdown
  BY <1>6 DEF Shutdown, ioVars, beatVars, TaskTypes
<1>7. ASSUME NEW quality \in Qualities, Send(quality) PROVE TaskTypes'
  BY <1>7 DEF Send, ioVars, beatVars, endVars, TaskTypes
<1>8. CASE WriterNext
  <2>1. UNCHANGED WriterOnly
    BY <1>8 DEF WriterNext, WriterTakes, WriterDrained, WriterPrepares, WriterWrites, WriteFails,
      WriterFlushes, FlushFails, WriterSaysGoodbye, WriterAborted
  <2> QED BY <2>1 DEF WriterOnly, ioVars, beatVars, TaskTypes
<1>9. CASE ReaderNext
  <2>1. UNCHANGED ReaderOnly
    BY <1>9 DEF ReaderNext, ReaderReads, ReaderStops, ReaderDelivers, ReaderPongs, ReaderCloses,
      ReaderAborted
  <2>2. reader' \in {"reading", "deliver", "pong", "close", "done"}
    BY <1>9 DEF ReaderNext, ReaderReads, ReaderStops, ReaderDelivers, ReaderPongs, ReaderCloses,
      ReaderAborted, ReaderEnds
  <2> QED BY <2>1, <2>2 DEF ReaderOnly, TaskTypes
<1>10. CASE BeatNext
  <2>1. UNCHANGED BeatOnly
    BY <1>10 DEF BeatNext, BeatTicks, BeatPings, BeatHears, BeatEnds, BeatTimesOut, BeatAborted
  <2>2. TaskCloses \/ UNCHANGED <<entry, aborts, grace, missed>>
    BY <1>10 DEF BeatNext, BeatTicks, BeatPings, BeatHears, BeatEnds, BeatTimesOut, BeatAborted
  <2>3. beat' \in {"ticking", "sending", "done"} /\ awaiting' \in {TRUE, FALSE, awaiting}
    BY <1>10 DEF BeatNext, BeatTicks, BeatPings, BeatHears, BeatEnds, BeatTimesOut, BeatAborted
  <2>4. /\ entry' \in {"none", "pending", "open", "gone"}
        /\ aborts' \subseteq {"reader", "writer", "beat"}
        /\ grace' \in BOOLEAN /\ missed' \in BOOLEAN
    BY <2>2, <1>1, Zenon DEF TaskTypes
  <2>5. awaiting' \in BOOLEAN
    BY <2>3, Zenon DEF TaskTypes
  <2>6. UNCHANGED <<kind, timers, reg, peer, reader, watcher>>
    BY <2>1 DEF BeatOnly, ioVars
  <2> QED BY <2>3, <2>4, <2>5, <2>6 DEF TaskTypes
<1>11. CASE WatcherNext
  <2>1. TaskCloses \/ UNCHANGED <<entry, aborts, grace, missed>>
    BY <1>11 DEF WatcherNext, WatcherHears, WatcherGrace, WatcherCloses
  <2>2. /\ watcher' \in {"grace", "closing", "done"}
        /\ UNCHANGED <<kind, timers, reg, ioVars, reader, beatVars>>
    BY <1>11 DEF WatcherNext, WatcherHears, WatcherGrace, WatcherCloses
  <2>3. /\ entry' \in {"none", "pending", "open", "gone"}
        /\ aborts' \subseteq {"reader", "writer", "beat"}
        /\ grace' \in BOOLEAN /\ missed' \in BOOLEAN
    BY <2>1, <1>1, Zenon DEF TaskTypes
  <2>4. UNCHANGED <<kind, timers, reg, peer, reader, beat, awaiting>>
    BY <2>2 DEF ioVars, beatVars
  <2> QED BY <2>2, <2>3, <2>4 DEF TaskTypes
<1>12. CASE Poll
  BY <1>12 DEF Poll, ioVars, beatVars, endVars, TaskTypes
<1>13. ASSUME NEW item \in Items, PeerSends(item) PROVE TaskTypes'
  BY <1>13 DEF PeerSends, beatVars, endVars, TaskTypes
<1>14. ASSUME NEW how \in {"silent", "left"}, PeerStops(how) PROVE TaskTypes'
  BY <1>14 DEF PeerStops, beatVars, endVars, TaskTypes
<1> QED BY <1>2, <1>3, <1>4, <1>5, <1>6, <1>7, <1>8, <1>9, <1>10, <1>11, <1>12, <1>13, <1>14
     DEF Next

(* A step leaves the counted things well-typed: a pong the heartbeat has   *)
(* not heard was one the peer sent.                                        *)
LEMMA CountsStep ==
  ASSUME TypeOK, PongsCounted, Next
  PROVE  CountTypes' /\ PongsCounted'
<1> DEFINE Good == CountTypes' /\ PongsCounted'
<1> USE Constants
<1>0. /\ CountTypes /\ Len(inbox) \in Nat /\ sent \in Nat /\ sent <= MaxIn
      /\ pongs \in Nat /\ frames \in Nat /\ pings \in Nat
  BY TypeParts DEF CountTypes
<1>1. ASSUME UNCHANGED <<inbox, sent, frames, pongs, pings, signals>> PROVE Good
  BY <1>0, <1>1 DEF CountTypes, PongsCounted
<1>s. \A s \in Signals : Append(signals, s) \in Seq(Signals)
  BY <1>0 DEF CountTypes
<1>t. signals # <<>> => Tail(signals) \in Seq(Signals)
  BY <1>0 DEF CountTypes
<1>2. ASSUME signals' \in Seq(Signals), UNCHANGED <<inbox, sent, pongs, pings>>,
             frames' \in 0..FrameCapacity
      PROVE  Good
  BY <1>0, <1>2 DEF CountTypes, PongsCounted
<1>3. ASSUME \/ RegisterRaw \/ AcceptWebSocket \/ TakeHandshake \/ AcceptFails
             \/ RejectWebSocket \/ InsertEntry \/ GraceExpires \/ Close \/ Shutdown
             \/ (\E quality \in Qualities : Send(quality))
             \/ (\E how \in {"silent", "left"} : PeerStops(how))
      PROVE Good
  <2>1. UNCHANGED <<inbox, sent, frames, pongs, pings, signals>>
    BY <1>3 DEF RegisterRaw, AcceptWebSocket, TakeHandshake, AcceptFails, RejectWebSocket,
      InsertEntry, GraceExpires, Close, Shutdown, Send, PeerStops, ioVars, beatVars, endVars
  <2> QED BY <2>1, <1>1
<1>4. ASSUME WriterNext PROVE Good
  <2>1. UNCHANGED WriterOnly
    BY <1>4 DEF WriterNext, WriterTakes, WriterDrained, WriterPrepares, WriterWrites, WriteFails,
      WriterFlushes, FlushFails, WriterSaysGoodbye, WriterAborted
  <2>2. signals' = signals \/ signals' = Append(signals, "WriterClosed")
    BY <1>4 DEF WriterNext, WriterTakes, WriterDrained, WriterPrepares, WriterWrites, WriteFails,
      WriterFlushes, FlushFails, WriterSaysGoodbye, WriterAborted, WriterEnds
  <2>3. signals' \in Seq(Signals)
    BY <2>2, <1>s, <1>0 DEF CountTypes, Signals
  <2> QED BY <2>1, <2>3, <1>2, <1>0 DEF WriterOnly, ioVars, beatVars, CountTypes
<1>5. ASSUME ReaderNext PROVE Good
  <2>1. UNCHANGED <<sent, pings>>
    BY <1>5 DEF ReaderNext, ReaderReads, ReaderStops, ReaderDelivers, ReaderPongs, ReaderCloses,
      ReaderAborted, ReaderOnly
  <2>2. signals' \in Seq(Signals)
    <3>1. signals' = signals \/ \E s \in Signals : signals' = Append(signals, s)
      BY <1>5 DEF ReaderNext, ReaderReads, ReaderStops, ReaderDelivers, ReaderPongs,
        ReaderCloses, ReaderAborted, ReaderEnds, Signals
    <3> QED BY <3>1, <1>s, <1>0 DEF CountTypes
  <2>3. frames' \in 0..FrameCapacity
    BY <1>5, <1>0 DEF ReaderNext, ReaderReads, ReaderStops, ReaderDelivers, ReaderPongs,
      ReaderCloses, ReaderAborted, CountTypes
  <2>4. ASSUME ReaderReads PROVE Good
    <3>1. inbox # <<>> /\ inbox' = Tail(inbox)
      BY <2>4 DEF ReaderReads
    <3>2. inbox' \in Seq(Items) /\ Len(inbox') = Len(inbox) - 1
      BY <3>1, <1>0 DEF CountTypes
    <3>3. pongs' \in {pongs, pongs + 1}
      BY <2>4 DEF ReaderReads
    <3> HIDE DEF Signals
    <3> QED BY <2>1, <2>2, <2>3, <3>2, <3>3, <1>0 DEF CountTypes, PongsCounted
  <2>5. ASSUME ReaderStops \/ ReaderDelivers \/ ReaderPongs \/ ReaderCloses \/ ReaderAborted
        PROVE Good
    <3>1. UNCHANGED <<inbox, pongs>>
      BY <2>5 DEF ReaderStops, ReaderDelivers, ReaderPongs, ReaderCloses, ReaderAborted
    <3> QED BY <3>1, <2>1, <2>2, <2>3, <1>2
  <2> QED BY <1>5, <2>4, <2>5 DEF ReaderNext
<1>6. ASSUME BeatNext PROVE Good
  <2>1. UNCHANGED <<inbox, sent, frames, signals>>
    BY <1>6 DEF BeatNext, BeatTicks, BeatPings, BeatHears, BeatEnds, BeatTimesOut, BeatAborted,
      BeatOnly, ioVars
  <2>2. pings' \in 0..MaxPings
    BY <1>6, <1>0 DEF BeatNext, BeatTicks, BeatPings, BeatHears, BeatEnds, BeatTimesOut,
      BeatAborted, CountTypes
  <2>3. pongs' = pongs \/ (pongs > 0 /\ pongs' = pongs - 1)
    BY <1>6 DEF BeatNext, BeatTicks, BeatPings, BeatHears, BeatEnds, BeatTimesOut, BeatAborted
  <2> QED BY <2>1, <2>2, <2>3, <1>0 DEF CountTypes, PongsCounted
<1>7. ASSUME WatcherNext PROVE Good
  <2>1. UNCHANGED <<inbox, sent, frames, pongs, pings>>
    BY <1>7 DEF WatcherNext, WatcherHears, WatcherGrace, WatcherCloses, ioVars, beatVars
  <2>2. signals' = signals \/ (signals # <<>> /\ signals' = Tail(signals))
    BY <1>7 DEF WatcherNext, WatcherHears, WatcherGrace, WatcherCloses
  <2> QED BY <2>1, <2>2, <1>2, <1>t, <1>0 DEF CountTypes
<1>8. ASSUME Poll PROVE Good
  <2>1. UNCHANGED <<inbox, sent, pongs, pings, signals>> /\ frames' = frames - 1 /\ frames > 0
    BY <1>8 DEF Poll, ioVars, beatVars, endVars
  <2> QED BY <2>1, <1>2, <1>0 DEF CountTypes
<1>9. ASSUME NEW item \in Items, PeerSends(item) PROVE Good
  <2>1. /\ inbox' = Append(inbox, item) /\ sent' = sent + 1 /\ sent < MaxIn
        /\ UNCHANGED <<frames, pongs, pings, signals>>
    BY <1>9 DEF PeerSends, beatVars, endVars
  <2>2. inbox' \in Seq(Items) /\ Len(inbox') = Len(inbox) + 1
    BY <2>1, <1>0 DEF CountTypes
  <2> QED BY <2>1, <2>2, <1>0 DEF CountTypes, PongsCounted
<1> QED BY <1>3, <1>4, <1>5, <1>6, <1>7, <1>8, <1>9 DEF Next

(* The invariant holds of a connection that is about to be registered.     *)
LEMMA InitSound == Init => IndInv
<1> SUFFICES ASSUME Init PROVE IndInv
  OBVIOUS
<1> USE DEF Init
<1>1. OutTypes
  BY FrameTypes, Constants DEF OutTypes
<1>2. TaskTypes
  BY DEF TaskTypes
<1>3. CountTypes /\ PongsCounted
  BY Constants DEF CountTypes, PongsCounted
<1>4. hand.id = 0 /\ hand.type = "none" /\ hand = NoFrame
  BY FrameTypes
<1>5. DOMAIN queue = {} /\ DOMAIN wire = {} /\ DOMAIN outcome = {}
  OBVIOUS
<1>6. WriterSound
  BY <1>4, <1>5 DEF WriterSound
<1>7. InOrder /\ ReceiptsSound /\ EndsSound
  BY <1>4, <1>5 DEF InOrder, ReceiptsSound, EndsSound
<1> QED BY <1>1, <1>2, <1>3, <1>6, <1>7, TypeParts DEF IndInv

(* WriterSound is what the outbound side decides, and that nobody writes   *)
(* before Spawn.                                                           *)
LEMMA WriterParts ==
    WriterSound <=> HandSound /\ (reg \in {"idle", "answering"} => writer = "none")
  BY DEF WriterSound, HandSound

(* No writer runs before the handshake is answered.                        *)
LEMMA WriterStep ==
  ASSUME TypeOK, WriterSound, HandSound', Next
  PROVE  WriterSound'
<1>1. reg' \in {"idle", "answering"} => writer' = "none"
  <2>1. ASSUME WriterNext PROVE reg' = reg /\ writer # "none"
    BY <2>1 DEF WriterNext, WriterTakes, WriterDrained, WriterPrepares, WriterWrites, WriteFails,
      WriterFlushes, FlushFails, WriterSaysGoodbye, WriterAborted, WriterOnly, WriterRuns
  <2>2. ASSUME RegisterRaw \/ AcceptWebSocket \/ AcceptFails \/ RejectWebSocket \/ InsertEntry
        PROVE  reg' \in {"spawned", "done"}
    BY <2>2 DEF RegisterRaw, AcceptWebSocket, Spawn, AcceptFails, RejectWebSocket, InsertEntry
  <2>3. ASSUME TakeHandshake PROVE reg = "idle" /\ writer' = writer
    BY <2>3 DEF TakeHandshake, outVars
  <2>4. ASSUME \/ GraceExpires \/ Close \/ Shutdown \/ Poll \/ WatcherNext
               \/ (\E quality \in Qualities : Send(quality))
               \/ (\E item \in Items : PeerSends(item))
               \/ (\E how \in {"silent", "left"} : PeerStops(how))
        PROVE  reg' = reg /\ writer' = writer
    BY <2>4 DEF GraceExpires, Close, Shutdown, Poll, WatcherNext, WatcherHears, WatcherGrace,
      WatcherCloses, Send, PeerSends, PeerStops, outVars
  <2>5. ASSUME ReaderNext PROVE reg' = reg /\ writer' = writer
    BY <2>5 DEF ReaderNext, ReaderReads, ReaderStops, ReaderDelivers, ReaderPongs, ReaderCloses,
      ReaderAborted, ReaderOnly
  <2>6. ASSUME BeatNext PROVE reg' = reg /\ writer' = writer
    BY <2>6 DEF BeatNext, BeatTicks, BeatPings, BeatHears, BeatEnds, BeatTimesOut, BeatAborted,
      BeatOnly
  <2> QED BY <2>1, <2>2, <2>3, <2>4, <2>5, <2>6 DEF Next, WriterSound
<1> QED BY <1>1, WriterParts DEF WriterSound, HandSound

(* Every step of the connection's tasks, of Dart and of the peer preserves *)
(* the invariant.                                                          *)
LEMMA StepSound == IndInv /\ [Next]_vars => IndInv'
<1> SUFFICES ASSUME IndInv, [Next]_vars PROVE IndInv'
  OBVIOUS
<1>1. CASE UNCHANGED vars
  <2>1. UNCHANGED <<queue, writer, hand, wire, outcome, reg, inbox, sent, pongs>> /\ TypeOK'
    BY <1>1 DEF vars, IndInv, TypeOK
  <2> QED BY <2>1 DEF IndInv, PongsCounted, WriterSound, InOrder, ReceiptsSound, EndsSound
<1>2. CASE Next
  <2>1. OutTypes /\ TaskTypes /\ HandSound /\ OutStep
    BY <1>2, TypeParts, WriterParts, OutSteps DEF IndInv
  <2>2. OutTypes' /\ TaskTypes' /\ CountTypes' /\ PongsCounted'
    BY <1>2, <2>1, OutTypesStep, TasksStep, CountsStep DEF IndInv
  <2>3. TypeOK'
    BY <2>2 DEF TypeOK, OutTypes, TaskTypes, CountTypes, Signals, Sent
  <2>4. HandSound' /\ InOrder' /\ ReceiptsSound' /\ EndsSound'
    BY <2>1, HandStep, OrderStep, ReceiptsStep, EndsStep DEF IndInv
  <2>5. WriterSound'
    BY <1>2, <2>4, WriterStep DEF IndInv
  <2> QED BY <2>2, <2>3, <2>4, <2>5 DEF IndInv
<1> QED BY <1>1, <1>2

(* The invariant holds in every reachable state.                           *)
LEMMA IndInvHolds == Spec => []IndInv
  BY InitSound, StepSound, PTL DEF Spec

(* A frame cut short, and a close frame, is the last thing on the wire,    *)
(* for every transport, queue capacity and number of frames: the writers   *)
(* of spawn_connection_writer and spawn_websocket_writer stop there,       *)
(* however aborts, failed writes and the close frames of the reader cross. *)
THEOREM NothingFollowsTheEnd == Spec => []NothingAfterTheEnd
<1>1. IndInv => NothingAfterTheEnd
  BY DEF IndInv, EndsSound, NothingAfterTheEnd
<1> QED BY <1>1, IndInvHolds, PTL

(* What a WriteReceipt says is what happened: a frame said to be written   *)
(* went out behind everything queued before it, a frame cut short is never *)
(* said to be written, and none stays pending once the writer is gone      *)
(* (write_completion.rs).                                                  *)
THEOREM ReceiptsAreTrue == Spec => []ReceiptsTrue
<1>1. ASSUME IndInv PROVE ReceiptsTrue
  <2>1. TypeOK /\ WrittenIsTrue
    BY <1>1 DEF IndInv, InOrder, ReceiptsSound, WrittenIsTrue
  <2>2. SettledWithWriter
    <3> SUFFICES ASSUME writer = "done", NEW i \in DOMAIN outcome, outcome[i] = "Pending"
                 PROVE  FALSE
      BY DEF SettledWithWriter
    <3>1. queue = <<>> /\ hand.id = 0
      BY <1>1, FrameTypes DEF IndInv, WriterSound
    <3>2. DOMAIN queue = {}
      BY <3>1
    <3>3. i # 0
      BY <1>1 DEF IndInv, TypeOK
    <3> QED BY <1>1, <3>1, <3>2, <3>3 DEF IndInv, ReceiptsSound
  <2> QED BY <2>1, <2>2 DEF ReceiptsTrue
<1> QED BY <1>1, IndInvHolds, PTL

-----------------------------------------------------------------------------

(***************************************************************************)
(* The HTTP server.  The argument for the request bodies follows the read  *)
(* half of an HTTP/1 connection: whoever has it stands at a known byte of  *)
(* what the peer sent, so a body reader that has counted down to zero has  *)
(* read its body and nothing of the next request.  A stream of HTTP/2 or   *)
(* HTTP/3 carries one body, and its reader's count is what it has read.    *)
(* The argument for the responses follows a response from Dart's channel   *)
(* to its lane of the wire: what was taken off the channel is what was     *)
(* written, and the loop goes on only when the end was.                    *)
(***************************************************************************)

(* A byte of a request's body: the request and the byte's place in it (0:  *)
(* the head).                                                              *)
ByteStrings == Seq(Nat \X Nat)
Reasons == {"none", "graceful", "goaway", "protocol", "idle", "total"}
Stats == [reason : Reasons, requests : Nat, depth : Nat]
Phases == {"read", "inline", "handle", "route", "await", "reclaim", "ended"}
Chunks == ByteStrings \ {<<>>}
Body == [queue : Seq(Chunks), finished : BOOLEAN, error : BOOLEAN, asked : BOOLEAN,
         use : Uses, got : ByteStrings, told : {"nothing", "end", "error"}]
Underway == {"queued", "polled", "buffered", "streaming", "chunks", "dropped"}

(* The types of what the peer, the serving loop and the body readers keep. *)
NetTypes ==
    /\ proto \in {"http1", "http2", "http3"}
    /\ client \in [opened : 0..MaxRequests, gone : BOOLEAN]
    /\ uplink \in ByteStrings
    /\ fetched \in Nat /\ taken \in Nat /\ taken <= fetched /\ fetched <= Len(uplink)
    /\ half \in {"serve", "body", "returned", "gone"}
    /\ incoming \in [Requests -> [data : ByteStrings, sent : Nat,
                                  end : {"open", "fin", "reset"}]]
    /\ len \in [Requests -> Nat \cup {Unknown}]
    /\ serve \in [at : Phases, req : 0..MaxRequests, keep : BOOLEAN]
    /\ readers \in [Requests -> [on : BOOLEAN, count : Nat]]
    /\ body \in [Requests -> Body]

(* The types of what Dart, the registry and the response tasks keep; a     *)
(* response stream is no longer than its channel.                          *)
DartTypes ==
    /\ registered \in [present : BOOLEAN, pending : Seq(Requests)]
    /\ stats \in Stats /\ events \in Seq(Stats)
    /\ held \in [Requests -> {"none", "held", "released"}]
    /\ resp \in [Requests -> Underway \cup {"none", "sent", "failed"}]
    /\ stream \in [Requests -> [queue : Seq(Nat), writer : BOOLEAN, reading : BOOLEAN,
                                made : Nat]]
    /\ \A r \in Requests : Len(stream[r].queue) <= StreamBuffer
    /\ out \in [Requests -> Seq(Requests \X Int)]

(* While the entry is registered no lifecycle event was pushed; at most    *)
(* one ever is.                                                            *)
EventsSound ==
    Len(events) <= 1 /\ (registered.present => events = <<>>)

(* Where the requests are: those behind the one served are untouched.      *)
Fresh(r) ==
    /\ body[r] = NewBody /\ readers[r] = [on |-> FALSE, count |-> 0]
    /\ held[r] = "none" /\ resp[r] = "none"
    /\ Mux => incoming[r].data = Prefix(r, incoming[r].sent)

(* The loop has reached no request the peer has not opened, and has        *)
(* touched none after the one it serves.                                   *)
Future ==
    /\ serve.req <= client.opened
    /\ \A r \in Requests : r > serve.req => Fresh(r)

(* Who has the read half of an HTTP/1 connection: the loop while it reads  *)
(* a request, else only the body reader of the request served.             *)
HalfSound ==
    ~Mux => /\ serve.at \in {"read", "inline", "handle"} => half = "serve"
            /\ \A r \in Requests : readers[r].on => half = "body" /\ r = serve.req
            /\ serve.at \notin {"read", "ended"} => serve.req > 0

(* The body of r has ended, or a reader is there to end it.                *)
EndsOf(r) == body[r].finished \/ readers[r].on

(* A thread sleeps in stream_read only on an empty, unfinished body that   *)
(* Dart holds; a body Dart can reach has ended or has a reader that will   *)
(* end it.                                                                 *)
AwaitedAt(r) ==
    /\ body[r].use \in {"locked", "asleep"} => body[r].queue = <<>> /\ ~body[r].finished
    /\ body[r].use # "idle" => held[r] = "held"
    /\ held[r] # "none" \/ resp[r] \in {"queued", "polled"} => EndsOf(r)
    /\ readers[r].on => ~body[r].finished
    /\ body[r].error => body[r].finished
    /\ body[r].told = "end" => body[r].finished /\ ~body[r].error

(* The same for every request, and for the one about to be routed.         *)
Awaited ==
    /\ \A r \in Requests : AwaitedAt(r)
    /\ ~Mux /\ serve.at = "route" => EndsOf(serve.req)

(* What is pending in the registry is queued, and is there once.           *)
Queued ==
    /\ \A i \in DOMAIN registered.pending : resp[registered.pending[i]] = "queued"
    /\ \A i, j \in DOMAIN registered.pending :
          registered.pending[i] = registered.pending[j] => i = j

(* What an HTTP/1 peer sent is whole requests one after the other, the     *)
(* last one perhaps in part.                                               *)
UplinkSound ==
    /\ \A i \in DOMAIN uplink : /\ uplink[i][1] \in 1..client.opened
                                /\ uplink[i][2] <= len[uplink[i][1]]
    /\ \A i \in 1..(Len(uplink) - 1) :
          uplink[i + 1] = IF uplink[i][2] = len[uplink[i][1]]
                          THEN <<uplink[i][1] + 1, 0>>
                          ELSE <<uplink[i][1], uplink[i][2] + 1>>
    /\ uplink # <<>> => uplink[1] = <<1, 0>> /\ uplink[Len(uplink)][1] = client.opened
    /\ ~Mux /\ uplink = <<>> => client.opened = 0
    /\ ~Mux => \A r \in 1..client.opened : len[r] \in Nat
    /\ Mux => uplink = <<>>

(* The last byte taken off the connection is byte n of request r.          *)
AtByte(r, n) == taken > 0 /\ uplink[taken] = <<r, n>>

(* All of request r, and nothing after it, was taken off the connection.   *)
AtEnd(r) == (taken = 0 /\ r = 0) \/ (r > 0 /\ AtByte(r, len[r]))

(* Where the reading of an HTTP/1 connection stands, by who has the read   *)
(* half: no byte of a body is skipped, and none is taken for the next      *)
(* request's.                                                              *)
Position ==
    ~Mux =>
      /\ half \in {"serve", "returned"} /\ serve.at \notin {"inline", "handle"} => AtEnd(serve.req)
      /\ serve.at = "inline" =>
           LET b == body[serve.req] IN
           /\ AtByte(serve.req, Len(b.got))
           /\ b.got = Prefix(serve.req, Len(b.got)) /\ b.queue = <<>> /\ b.use = "idle"
           /\ ~b.finished /\ ~b.error /\ ~b.asked /\ b.told = "nothing"
           /\ held[serve.req] = "none"
      /\ serve.at = "handle" => AtByte(serve.req, 0)
      /\ \A r \in Requests : readers[r].on =>
           /\ taken = fetched /\ readers[r].count <= len[r]
           /\ AtByte(r, len[r] - readers[r].count)

(* The length a whole body of r has: the declared one, or what the peer    *)
(* sent.                                                                   *)
Declared(r) == IF len[r] # Unknown THEN len[r] ELSE incoming[r].sent

(* How many bytes of r's body went into its queue or to Dart.              *)
Got(r) == Len(Seen(body[r]))

(* Dart has been given, or will be, a prefix of r's body, and all of it    *)
(* once the body is finished without an error; a reader's count says how   *)
(* far it is.                                                              *)
SeenAt(r) ==
    /\ Seen(body[r]) = Prefix(r, Got(r))
    /\ body[r].finished /\ ~body[r].error /\ ~body[r].asked => Got(r) = Declared(r)
    /\ readers[r].on /\ ~body[r].asked =>
         Got(r) = IF Mux THEN readers[r].count ELSE len[r] - readers[r].count
    /\ readers[r].on /\ Mux =>
         /\ Len(incoming[r].data) + readers[r].count = incoming[r].sent
         /\ \A i \in DOMAIN incoming[r].data :
               incoming[r].data[i] = <<r, readers[r].count + i>>

(* The same for every request.                                             *)
SeenSound == \A r \in Requests : SeenAt(r)

(* An HTTP/1 loop waits for the response of the request it serves and of   *)
(* no other, and goes on once it is sent.                                  *)
RespSound ==
    ~Mux => /\ serve.at \in {"inline", "handle", "route"} => resp[serve.req] = "none"
            /\ \A r \in Requests : resp[r] \in Underway => serve.at = "await" /\ serve.req = r
            /\ serve.at \in {"read", "reclaim"} /\ serve.req > 0 => resp[serve.req] = "sent"

(* Every request before the one an HTTP/1 loop serves was answered.        *)
Past == ~Mux => \A q \in Requests : q < serve.req => resp[q] = "sent"

(* A stream holds the chunks Dart wrote that were not sent, and its end.   *)
Left(q, hasWriter, made) == made - Len(q) + (IF hasWriter THEN 0 ELSE 1)

(* How many of the chunks written by Dart were taken off the stream's      *)
(* channel.                                                                *)
Passed(r) == Left(stream[r].queue, stream[r].writer, stream[r].made)
StreamOK(q, hasWriter, made, p) ==
    /\ p \in Nat /\ p <= made /\ Left(q, hasWriter, made) = p
    /\ \A i \in 1..(made - p) : q[i] = p + i
    /\ ~hasWriter => q[made - p + 1] = Finished

(* A response stream is read exactly while its response is being sent, and *)
(* a response whose head is not out has lost no chunk.                     *)
StreamAt(r) ==
    /\ stream[r].reading <=> resp[r] \in {"streaming", "chunks"}
    /\ stream[r].reading => StreamOK(stream[r].queue, stream[r].writer, stream[r].made, Passed(r))
    /\ resp[r] = "streaming" => Passed(r) = 0

(* The same for every request.                                             *)
StreamSound == \A r \in Requests : StreamAt(r)

(* What a lane holds of one request, by where its response is.             *)
Idle == {"none", "queued", "polled", "buffered", "dropped"}

(* Nothing of the response is on the wire.                                 *)
Before == Idle \cup {"streaming"}

(* The lane o ends in r's head and the first p of its chunks, and holds    *)
(* nothing else of r.                                                      *)
Block(o, r, p) ==
    /\ Len(o) - p > 0 /\ o[Len(o) - p] = Opening(r)
    /\ \A i \in 1..p : o[(Len(o) - p) + i] = <<r, i>>
    /\ \A i \in DOMAIN o : o[i][1] = r => i >= Len(o) - p

(* Up to item k the lane o holds r's head, its chunks and its end, and     *)
(* holds nothing else of r.                                                *)
Terminated(o, r, k, made) ==
    LET first == k - made - 1 IN
    /\ first > 0 /\ o[first] = Opening(r)
    /\ \A i \in 1..made : o[first + i] = <<r, i>>
    /\ \A i \in DOMAIN o : o[i][1] = r => i \in first..k

(* What the lane o holds of r's response, when the response is at "at", p  *)
(* of the chunks made were taken off its channel, and hasWriter says       *)
(* whether Dart may write more.                                            *)
Answered(o, r, at, p, made, hasWriter) ==
    /\ at \in Before => \A i \in DOMAIN o : o[i][1] # r
    /\ at = "chunks" => Block(o, r, p)
    /\ at = "sent" => \A i \in DOMAIN o : o[i] = Opening(r) =>
                        \E k \in DOMAIN o : i < k /\ o[k] = <<r, Finished>>
    /\ \A i, j \in DOMAIN o : o[i][1] = r /\ o[j][1] = r /\ BeginsAnswer(o[i]) /\ BeginsAnswer(o[j]) => i = j
    /\ \A k \in DOMAIN o : o[k] = <<r, Finished>> =>
         at = "sent" /\ ~hasWriter /\ Terminated(o, r, k, made)

(* The same for the lane r's response is written to.                       *)
OutAt(r) ==
    Answered(out[Lane(r)], r, resp[r], Passed(r), stream[r].made, stream[r].writer)

(* A lane holds responses in the order of their requests, a streamed one   *)
(* ended before the next begins.                                           *)
InLane(o) ==
    \A i, j \in DOMAIN o : i < j =>
      /\ o[i][1] <= o[j][1]
      /\ o[i] = Opening(o[i][1]) /\ o[j][1] > o[i][1] =>
           \E k \in i..j : o[k] = <<o[i][1], Finished>>

(* A stream of HTTP/2 or HTTP/3 holds its own request's response only; an  *)
(* HTTP/1 connection holds them in order; each is as its response is.      *)
OutSound ==
    /\ \A l \in Requests : InLane(out[l])
    /\ \A l \in Requests : \A i \in DOMAIN out[l] :
         IF Mux THEN out[l][i][1] = l ELSE l = 1 /\ out[l][i][1] <= serve.req
    /\ \A r \in Requests : OutAt(r)

(* A nonempty set of numbers has a smallest. *)
LEMMA SmallestNumber ==
    ASSUME NEW T \in SUBSET Nat, T # {}
    PROVE  \E m \in T : \A k \in T : m <= k
<1>1. PICK n \in T : TRUE
  OBVIOUS
<1> DEFINE F == {0..k : k \in {j \in T : j <= n}}
<1>2. /\ IsFiniteSet(0..n)
      /\ F \in SUBSET SUBSET (0..n)
      /\ F # {}
  <2>1. IsFiniteSet(0..n)
    BY <1>1, FS_Interval
  <2>2. 0..n \in F
    BY <1>1
  <2>3. ASSUME NEW k \in T, k <= n PROVE 0..k \in SUBSET (0..n)
    BY <1>1, <2>3
  <2> QED BY <2>1, <2>2, <2>3
<1>3. IsWellFoundedOn(StrictSubsetOrdering(0..n), SUBSET (0..n))
  BY <1>2, FS_FiniteSubsetsOfFinite, FS_StrictSubsetOrderingWellFounded
<1>4. PICK s \in F : \A r \in F : <<r, s>> \notin StrictSubsetOrdering(0..n)
  <2> HIDE DEF F
  <2> QED BY <1>2, <1>3, WFMin
<1>5. PICK m \in T : m <= n /\ s = 0..m
  BY <1>4
<1>6. ASSUME NEW k \in T, k < m PROVE FALSE
  <2>1. 0..k \in F
    BY <1>1, <1>5, <1>6
  <2>2. 0..k \subseteq 0..m /\ 0..k # 0..m
    BY <1>5, <1>6
  <2> QED BY <1>2, <1>4, <1>5, <2>1, <2>2 DEF StrictSubsetOrdering
<1> QED BY <1>5, <1>6

(* A function of numbers may be defined step by step. *)
Iterates(f, s0, N, step) == f[0] = s0 /\ \A i \in 1..N : f[i] = step[i][f[i - 1]]

(* Every iteration of a step function is a function on the naturals up to  *)
(* N.                                                                      *)
LEMMA Iteration ==
    ASSUME NEW S, NEW s0 \in S, NEW N \in Nat, NEW step \in [Nat \ {0} -> [S -> S]]
    PROVE  \E f \in [0..N -> S] : Iterates(f, s0, N, step)
<1> DEFINE Good(n, f) == f \in [0..n -> S] /\ f[0] = s0
                         /\ \A i \in 1..n : f[i] = step[i][f[i - 1]]
           Amiss == {n \in Nat : ~\E f : Good(n, f)}
<1> SUFFICES ASSUME Amiss # {} PROVE FALSE
  BY DEF Iterates
<1>1. PICK m \in Amiss : \A k \in Amiss : m <= k
  <2> HIDE DEF Amiss
  <2>1. Amiss \in SUBSET Nat
    BY DEF Amiss
  <2> QED BY <2>1, SmallestNumber
<1>2. m # 0
  <2> DEFINE g == [i \in 0..0 |-> s0]
  <2>1. g \in [0..0 -> S] /\ g[0] = s0
    OBVIOUS
  <2>2. 1..0 = {}
    OBVIOUS
  <2> HIDE DEF g
  <2>3. Good(0, g)
    BY <2>1, <2>2
  <2> QED BY <2>3
<1>3. m \in Nat /\ m - 1 \in Nat /\ m - 1 \notin Amiss
  <2>1. m \in Nat
    BY <1>1
  <2> HIDE DEF Amiss
  <2> QED BY <1>1, <1>2, <2>1
<1>4. PICK f : Good(m - 1, f)
  BY <1>3
<1> DEFINE g == [i \in 0..m |-> IF i = m THEN step[m][f[m - 1]] ELSE f[i]]
<1>5. Good(m, g)
  <2>1. f[m - 1] \in S
    BY <1>3, <1>4
  <2>2. step[m][f[m - 1]] \in S
    BY <1>2, <1>3, <2>1
  <2>3. ASSUME NEW i \in 0..m, i # m PROVE i \in 0..(m - 1) /\ g[i] = f[i]
    BY <1>3, <2>3
  <2>4. g[m] = step[m][f[m - 1]]
    BY <1>3
  <2>5. g \in [0..m -> S]
    BY <1>4, <2>2, <2>3, <2>4
  <2>6. g[0] = s0
    BY <1>2, <1>3, <1>4, <2>3
  <2>7. ASSUME NEW i \in 1..m PROVE g[i] = step[i][g[i - 1]]
    <3>1. i - 1 \in 0..m /\ i - 1 # m
      BY <1>3
    <3>2. g[i - 1] = f[i - 1]
      BY <2>3, <3>1
    <3>3. CASE i = m
      BY <2>4, <3>2, <3>3
    <3>4. CASE i # m
      <4>1. i \in 1..(m - 1) /\ g[i] = f[i]
        BY <1>3, <2>3, <3>4
      <4> HIDE DEF g
      <4> QED BY <1>4, <4>1, <3>2
    <3> QED BY <3>3, <3>4
  <2> HIDE DEF g
  <2> QED BY <2>5, <2>6, <2>7
<1> QED BY <1>1, <1>5

(* Concatenation of byte strings. *)
LEMMA Concats ==
    /\ \A x, y \in ByteStrings : x \o y \in ByteStrings /\ Len(x \o y) = Len(x) + Len(y)
    /\ \A x, y, z \in ByteStrings : (x \o y) \o z = x \o (y \o z)
    /\ \A x \in ByteStrings : x \o <<>> = x /\ <<>> \o x = x
    /\ <<>> \in ByteStrings
<1>1. <<>> \in ByteStrings
  BY DEF ByteStrings
<1>2. \A x, y \in ByteStrings : x \o y \in ByteStrings /\ Len(x \o y) = Len(x) + Len(y)
  BY ConcatProperties DEF ByteStrings
<1>3. \A x, y, z \in ByteStrings : (x \o y) \o z = x \o (y \o z)
  BY SMTT(30), ConcatAssociative DEF ByteStrings
<1>4. \A x \in ByteStrings : x \o <<>> = x /\ <<>> \o x = x
  BY ConcatEmptySeq DEF ByteStrings
<1> QED BY <1>1, <1>2, <1>3, <1>4

(* A byte string cut in two. *)
LEMMA Cut ==
    ASSUME NEW x \in ByteStrings, NEW n \in 0..Len(x)
    PROVE  /\ SubSeq(x, 1, n) \in ByteStrings /\ SubSeq(x, n + 1, Len(x)) \in ByteStrings
           /\ Len(SubSeq(x, 1, n)) = n
           /\ x = SubSeq(x, 1, n) \o SubSeq(x, n + 1, Len(x))
<1>1. x \in Seq(Nat \X Nat) /\ Len(x) \in Nat /\ n \in Nat /\ n <= Len(x)
  BY DEF ByteStrings
<1>2. SubSeq(x, 1, n) \o SubSeq(x, n + 1, Len(x)) = SubSeq(x, 1, Len(x))
  <2>1. 1 \in 1..(Len(x) + 1) /\ n \in (1 - 1)..Len(x) /\ Len(x) \in n..Len(x)
    BY <1>1
  <2> QED BY <1>1, <2>1, ConcatAdjacentSubSeq
<1>3. SubSeq(x, 1, Len(x)) = x
  BY <1>1, SubSeqFull
<1>4. SubSeq(x, 1, n) \in Seq(Nat \X Nat) /\ Len(SubSeq(x, 1, n)) = n
  BY <1>1
<1>5. SubSeq(x, n + 1, Len(x)) \in Seq(Nat \X Nat)
  BY <1>1
<1> QED BY <1>2, <1>3, <1>4, <1>5 DEF ByteStrings

(* FlattenSeq, step by step. *)
FlatOf(f, ss) == f[0] = <<>> /\ \A i \in 1..Len(ss) : f[i] = f[i - 1] \o ss[i]

(* FlattenSeq concatenates one chunk after the other.                      *)
LEMMA FlatSteps ==
    ASSUME NEW ss \in Seq(ByteStrings)
    PROVE  \E f \in [0..Len(ss) -> ByteStrings] : FlatOf(f, ss) /\ FlattenSeq(ss) = f[Len(ss)]
<1> DEFINE N == Len(ss)
           Nth(i) == IF i <= N THEN ss[i] ELSE <<>>
           step == [i \in Nat \ {0} |-> [x \in ByteStrings |-> x \o Nth(i)]]
<1>1. N \in Nat /\ \A i \in 1..N : ss[i] \in ByteStrings
  OBVIOUS
<1>2. step \in [Nat \ {0} -> [ByteStrings -> ByteStrings]]
  <2>1. \A i \in Nat \ {0} : Nth(i) \in ByteStrings
    BY <1>1, Concats
  <2> HIDE DEF Nth
  <2> QED BY <2>1, Concats
<1>3. \A i \in 1..N, x \in ByteStrings : step[i][x] = x \o ss[i]
  <2>1. \A i \in 1..N : i \in Nat \ {0} /\ Nth(i) = ss[i]
    BY <1>1
  <2> HIDE DEF Nth, N
  <2> QED BY <2>1
<1> HIDE DEF step
<1>4. PICK f \in [0..N -> ByteStrings] : Iterates(f, <<>>, N, step)
  <2> HIDE DEF N
  <2> QED BY <1>1, <1>2, Concats, Iteration
<1>5. FlatOf(f, ss)
  <2>1. ASSUME NEW i \in 1..N PROVE f[i] = f[i - 1] \o ss[i]
    <3>1. i - 1 \in 0..N
      BY <1>1
    <3> QED BY <1>1, <1>3, <1>4, <3>1 DEF Iterates
  <2> QED BY <1>4, <2>1 DEF FlatOf, Iterates
<1>6. CASE N = 0
  <2>1. FlattenSeq(ss) = ss /\ ss = <<>>
    BY <1>6 DEF FlattenSeq
  <2> QED BY <1>4, <1>5, <1>6, <2>1 DEF FlatOf
<1>7. CASE N # 0
  <2> DEFINE Is(h) == h = [i \in 1..N |-> IF i = 1 THEN ss[i] ELSE h[i - 1] \o ss[i]]
             h0 == [i \in 1..N |-> f[i]]
             g == CHOOSE h : Is(h)
  <2>1. Is(h0)
    <3>1. ASSUME NEW i \in 1..N
          PROVE  h0[i] = IF i = 1 THEN ss[i] ELSE h0[i - 1] \o ss[i]
      <4>1. f[i] = f[i - 1] \o ss[i]
        BY <1>5 DEF FlatOf
      <4>2. CASE i = 1
        <5>1. f[i - 1] = <<>>
          BY <1>5, <4>2 DEF FlatOf
        <5> QED BY <1>1, <4>1, <4>2, <5>1, Concats
      <4>3. CASE i # 1
        <5>1. i - 1 \in 1..N
          BY <1>1, <4>3
        <5> QED BY <4>1, <4>3, <5>1
      <4> QED BY <4>2, <4>3
    <3> HIDE DEF N
    <3> QED BY <3>1
  <2>2. Is(g)
    <3> HIDE DEF Is, h0
    <3> QED BY <2>1
  <2>3. FlattenSeq(ss) = g[N]
    BY <1>7 DEF FlattenSeq
  <2>4. \A i \in 1..N : g[i] = IF i = 1 THEN ss[i] ELSE g[i - 1] \o ss[i]
    <3> HIDE DEF g
    <3> QED BY <2>2
  <2> HIDE DEF g, N, Is
  <2> DEFINE Amiss == {i \in 1..N : g[i] # f[i]}
  <2>5. Amiss = {}
    <3> SUFFICES ASSUME Amiss # {} PROVE FALSE
      OBVIOUS
    <3>1. Amiss \in SUBSET Nat
      BY <1>1
    <3>2. PICK m \in Amiss : \A k \in Amiss : m <= k
      <4> HIDE DEF Amiss
      <4> QED BY <3>1, SmallestNumber
    <3>3. m \in 1..N /\ f[m] = f[m - 1] \o ss[m] /\ g[m] # f[m]
      BY <1>5, <3>2 DEF FlatOf, N
    <3>4. CASE m = 1
      <4>1. f[m - 1] = <<>>
        BY <1>5, <3>4 DEF FlatOf
      <4> QED BY <1>1, <2>4, <3>3, <3>4, <4>1, Concats
    <3>5. CASE m # 1
      <4>1. m - 1 \in 1..N /\ m - 1 \notin Amiss
        BY <1>1, <3>1, <3>2, <3>3, <3>5
      <4> QED BY <2>4, <3>3, <3>5, <4>1
    <3> QED BY <3>4, <3>5
  <2>6. g[N] = f[N]
    BY <1>1, <1>7, <2>5
  <2> QED BY <1>5, <2>3, <2>6 DEF N
<1> QED BY <1>6, <1>7

(* Two ways of flattening with the same first lists agree on them. *)
LEMMA FlatAgree ==
    ASSUME NEW ss \in Seq(ByteStrings), NEW tt \in Seq(ByteStrings), Len(ss) <= Len(tt),
           \A i \in 1..Len(ss) : ss[i] = tt[i],
           NEW f, FlatOf(f, ss), NEW g, FlatOf(g, tt)
    PROVE  \A i \in 0..Len(ss) : f[i] = g[i]
<1> DEFINE Amiss == {i \in 0..Len(ss) : f[i] # g[i]}
<1> SUFFICES ASSUME Amiss # {} PROVE FALSE
  OBVIOUS
<1>1. Amiss \in SUBSET Nat /\ Len(ss) \in Nat /\ Len(tt) \in Nat
  OBVIOUS
<1>2. PICK m \in Amiss : \A k \in Amiss : m <= k
  <2> HIDE DEF Amiss
  <2> QED BY <1>1, SmallestNumber
<1>3. m # 0
  BY <1>2 DEF FlatOf
<1>4. m \in 1..Len(ss) /\ m \in 1..Len(tt) /\ m - 1 \in 0..Len(ss) /\ m - 1 \notin Amiss
  BY <1>1, <1>2, <1>3
<1> QED BY <1>2, <1>4 DEF FlatOf

(* What FlattenSeq gives. *)
LEMMA FlatEmpty == FlattenSeq(<<>>) = <<>>
BY DEF FlattenSeq

(* The chunks of a queue flatten to bytes.                                 *)
LEMMA FlatType == ASSUME NEW ss \in Seq(ByteStrings) PROVE FlattenSeq(ss) \in ByteStrings
BY FlatSteps

(* A chunk put at the end of a queue adds its bytes at the end.            *)
LEMMA FlatAppend ==
    ASSUME NEW ss \in Seq(ByteStrings), NEW x \in ByteStrings
    PROVE  FlattenSeq(Append(ss, x)) = FlattenSeq(ss) \o x
<1> DEFINE tt == Append(ss, x)
<1>1. /\ tt \in Seq(ByteStrings) /\ Len(tt) = Len(ss) + 1 /\ Len(ss) \in Nat
      /\ tt[Len(tt)] = x /\ \A i \in 1..Len(ss) : ss[i] = tt[i]
  OBVIOUS
<1> HIDE DEF tt
<1>2. PICK f \in [0..Len(ss) -> ByteStrings] : FlatOf(f, ss) /\ FlattenSeq(ss) = f[Len(ss)]
  BY FlatSteps
<1>3. PICK g \in [0..Len(tt) -> ByteStrings] : FlatOf(g, tt) /\ FlattenSeq(tt) = g[Len(tt)]
  BY <1>1, FlatSteps
<1>4. f[Len(ss)] = g[Len(ss)]
  BY <1>1, <1>2, <1>3, FlatAgree
<1>5. g[Len(tt)] = g[Len(ss)] \o tt[Len(tt)]
  <2>1. Len(tt) \in 1..Len(tt) /\ Len(tt) - 1 = Len(ss)
    BY <1>1
  <2> QED BY <1>3, <2>1 DEF FlatOf
<1> QED BY <1>1, <1>2, <1>3, <1>4, <1>5 DEF tt

(* A queue cut in two flattens to the bytes of its two parts.              *)
LEMMA FlatSplit ==
    ASSUME NEW ss \in Seq(ByteStrings), NEW n \in 0..Len(ss)
    PROVE  FlattenSeq(ss)
             = FlattenSeq(SubSeq(ss, 1, n)) \o FlattenSeq(SubSeq(ss, n + 1, Len(ss)))
<1> DEFINE N == Len(ss)
           aa == SubSeq(ss, 1, n)
           bb == SubSeq(ss, n + 1, N)
<1>1. /\ N \in Nat /\ n \in Nat /\ n <= N
      /\ aa \in Seq(ByteStrings) /\ Len(aa) = n /\ \A i \in 1..n : aa[i] = ss[i]
      /\ bb \in Seq(ByteStrings) /\ Len(bb) = N - n /\ \A i \in 1..(N - n) : bb[i] = ss[n + i]
  OBVIOUS
<1> HIDE DEF aa, bb
<1>2. PICK f \in [0..N -> ByteStrings] : FlatOf(f, ss) /\ FlattenSeq(ss) = f[N]
  BY FlatSteps
<1>3. PICK a \in [0..n -> ByteStrings] : FlatOf(a, aa) /\ FlattenSeq(aa) = a[n]
  BY <1>1, FlatSteps
<1>4. PICK b \in [0..(N - n) -> ByteStrings] : FlatOf(b, bb) /\ FlattenSeq(bb) = b[N - n]
  BY <1>1, FlatSteps
<1>5. a[n] = f[n]
  BY SMTT(30), <1>1, <1>2, <1>3, FlatAgree
<1> DEFINE Amiss == {i \in 0..(N - n) : f[n + i] # f[n] \o b[i]}
<1>6. Amiss = {}
  <2> SUFFICES ASSUME Amiss # {} PROVE FALSE
    OBVIOUS
  <2>1. Amiss \in SUBSET Nat
    BY <1>1
  <2>2. PICK m \in Amiss : \A k \in Amiss : m <= k
    <3> HIDE DEF Amiss
    <3> QED BY <2>1, SmallestNumber
  <2>3. m \in 0..(N - n) /\ f[n + m] # f[n] \o b[m]
    BY <2>2
  <2>4. f[n] \in ByteStrings
    BY <1>1, <1>2
  <2>5. CASE m = 0
    <3>1. b[m] = <<>> /\ n + m = n
      BY <1>1, <1>4, <2>5 DEF FlatOf
    <3> QED BY <2>3, <2>4, <3>1, Concats
  <2>6. CASE m # 0
    <3>1. /\ m \in 1..(N - n) /\ n + m \in 1..N /\ m - 1 \in 0..(N - n)
          /\ (n + m) - 1 = n + (m - 1) /\ m \in Nat /\ m - 1 \in Nat /\ ~(m <= m - 1)
      <4> HIDE DEF Amiss, N
      <4> QED BY <1>1, <2>3, <2>6
    <3>7. m - 1 \notin Amiss
      <4> HIDE DEF Amiss
      <4> QED BY <2>2, <3>1
    <3>2. f[n + m] = f[n + (m - 1)] \o ss[n + m]
      BY <1>2, <3>1 DEF FlatOf
    <3>3. f[n + (m - 1)] = f[n] \o b[m - 1]
      BY <3>1, <3>7
    <3>4. b[m] = b[m - 1] \o ss[n + m]
      BY <1>1, <1>4, <3>1 DEF FlatOf
    <3>5. b[m - 1] \in ByteStrings /\ ss[n + m] \in ByteStrings
      <4> HIDE DEF Amiss
      <4> QED BY <1>4, <3>1
    <3> HIDE DEF Amiss
    <3>8. (f[n] \o b[m - 1]) \o ss[n + m] = f[n] \o (b[m - 1] \o ss[n + m])
      BY <2>4, <3>5, Concats
    <3> QED BY <2>3, <3>2, <3>3, <3>4, <3>8
  <2> QED BY <2>5, <2>6
<1>7. N - n \in 0..(N - n) /\ n + (N - n) = N
  BY <1>1
<1>8. f[N] = f[n] \o b[N - n]
  BY <1>6, <1>7
<1> QED BY <1>2, <1>3, <1>4, <1>5, <1>8 DEF aa, bb

(* The first chunk of a queue holds its first bytes.                       *)
LEMMA FlatHead ==
    ASSUME NEW ss \in Seq(ByteStrings), ss # <<>>
    PROVE  FlattenSeq(ss) = Head(ss) \o FlattenSeq(Tail(ss))
<1>1. /\ Len(ss) \in Nat \ {0} /\ 1 \in 0..Len(ss) /\ Head(ss) \in ByteStrings
      /\ <<Head(ss)>> \in Seq(ByteStrings)
  OBVIOUS
<1>2. SubSeq(ss, 1, 1) = <<Head(ss)>> /\ SubSeq(ss, 1 + 1, Len(ss)) = Tail(ss)
  <2>1. SubSeq(ss, 1, 1) = <<Head(ss)>>
    <3>1. SubSeq(ss, 1, 1) \in Seq(ByteStrings) /\ Len(SubSeq(ss, 1, 1)) = 1
          /\ SubSeq(ss, 1, 1)[1] = ss[1]
      BY <1>1
    <3> DEFINE u == SubSeq(ss, 1, 1)
               v == <<Head(ss)>>
    <3>2. v \in Seq(ByteStrings) /\ Len(v) = 1 /\ v[1] = ss[1]
      BY <1>1
    <3> HIDE DEF u, v
    <3>3. \A i \in 1..Len(u) : u[i] = v[i]
      BY <3>1, <3>2 DEF u
    <3>4. u = v
      BY <3>1, <3>2, <3>3, SeqEqual DEF u
    <3> QED BY <3>4 DEF u, v
  <2>2. SubSeq(ss, 2, Len(ss)) = Tail(ss)
    BY <1>1
  <2> QED BY <2>1, <2>2
<1>3. FlattenSeq(<<Head(ss)>>) = Head(ss)
  <2> DEFINE h == Head(ss)
  <2>1. <<h>> = Append(<<>>, h)
    OBVIOUS
  <2>2. h \in ByteStrings /\ <<>> \in Seq(ByteStrings)
    BY <1>1
  <2> HIDE DEF h
  <2>3. FlattenSeq(Append(<<>>, h)) = FlattenSeq(<<>>) \o h
    BY <2>2, FlatAppend
  <2>4. <<>> \o h = h
    BY <2>2, Concats
  <2> QED BY <2>1, <2>3, <2>4, FlatEmpty DEF h
<1> QED BY <1>1, <1>2, <1>3, FlatSplit

(* What the operations on a body do. *)
LEMMA ChunkStrings == Seq(Chunks) \subseteq Seq(ByteStrings)
BY DEF Chunks

(* The assumption on the constants, and the requests they bound.           *)
LEMMA HttpConstants ==
    /\ MaxRequests \in Nat \ {0} /\ MuxRequests \in Nat /\ MuxRequests <= MaxRequests
    /\ MaxLen \in Nat /\ InlineLimit \in Nat /\ StreamBuffer \in Nat \ {0} /\ MaxChunks \in Nat
    /\ Requests \subseteq Nat \ {0} /\ 1 \in Requests
BY HttpAssumption DEF Requests

(* A new body is a body, and nothing of it was seen.                       *)
LEMMA NewBodyType == NewBody \in Body /\ Seen(NewBody) = <<>>
<1>1. <<>> \in Seq(Chunks) /\ <<>> \in ByteStrings
  BY Concats
<1>2. NewBody \in Body
  BY <1>1 DEF NewBody, Body, Uses
<1> QED BY <1>1, <1>2, FlatEmpty, Concats DEF NewBody, Seen

(* What was seen of a body is bytes.                                       *)
LEMMA SeenType ==
    ASSUME NEW b \in Body
    PROVE  Seen(b) \in ByteStrings
<1>1. b.got \in ByteStrings /\ b.queue \in Seq(ByteStrings)
  BY ChunkStrings DEF Body
<1> QED BY <1>1, FlatType, Concats DEF Seen

(* The body of a request read inline is finished, and all of it was seen.  *)
LEMMA Inlined ==
    ASSUME NEW x \in ByteStrings
    PROVE  /\ InlineBody(x) \in Body /\ Seen(InlineBody(x)) = x
           /\ InlineBody(x).finished /\ ~InlineBody(x).error /\ ~InlineBody(x).asked
           /\ InlineBody(x).use = "idle" /\ InlineBody(x).told = "end"
           /\ InlineBody(x).queue = <<>>
<1>1. /\ NewBody \in Body /\ NewBody.queue = <<>> /\ ~NewBody.error /\ ~NewBody.asked
      /\ NewBody.use = "idle"
  BY NewBodyType DEF NewBody
<1> DEFINE c == InlineBody(x)
<1>2. /\ c \in Body /\ c.got = x /\ c.queue = NewBody.queue /\ c.asked = NewBody.asked
      /\ c.finished = TRUE /\ c.error = NewBody.error /\ c.told = "end" /\ c.use = NewBody.use
  <2>1. c = [NewBody EXCEPT !.got = x, !.finished = TRUE, !.told = "end"]
    BY DEF InlineBody
  <2> HIDE DEF c
  <2> QED BY <1>1, <2>1 DEF Body
<1> HIDE DEF c
<1>3. Seen(c) = x
  <2>1. Seen(c) = x \o <<>>
    BY <1>1, <1>2, FlatEmpty DEF Seen
  <2> QED BY <2>1, Concats
<1> QED BY <1>1, <1>2, <1>3 DEF c

(* enqueue_bytes adds x to what is seen of a body, changes neither its end *)
(* nor what Dart was told, and leaves a sleeper asleep only when there is  *)
(* nothing to add.                                                         *)
LEMMA Enqueued ==
    ASSUME NEW b \in Body, NEW x \in ByteStrings
    PROVE  LET c == EnqueueBytes(b, x) IN
           /\ c \in Body /\ Seen(c) = Seen(b) \o x
           /\ c.finished = b.finished /\ c.error = b.error /\ c.asked = b.asked
           /\ c.told = b.told /\ (b.use = "idle" <=> c.use = "idle")
           /\ b.use # "locked" => c.use # "locked"
           /\ c.use = "asleep" => c = b
<1>0. Seen(b) \in ByteStrings
  BY SeenType
<1>1. CASE x = <<>>
  BY <1>0, <1>1, Concats DEF EnqueueBytes
<1>2. CASE x # <<>>
  <2>1. EnqueueBytes(b, x) = [b EXCEPT !.queue = Append(b.queue, x), !.use = Notified(b.use)]
    BY <1>2 DEF EnqueueBytes
  <2>2. x \in Chunks /\ b.queue \in Seq(Chunks) /\ b.got \in ByteStrings
    BY <1>2 DEF Chunks, Body
  <2>3. Append(b.queue, x) \in Seq(Chunks) /\ b.queue \in Seq(ByteStrings)
    BY <2>2, ChunkStrings
  <2>4. Notified(b.use) \in Uses
    BY DEF Notified, Body, Uses
  <2>5. FlattenSeq(Append(b.queue, x)) = FlattenSeq(b.queue) \o x /\ FlattenSeq(b.queue) \in ByteStrings
    BY <2>3, FlatAppend, FlatType
  <2> DEFINE c == EnqueueBytes(b, x)
  <2>6. /\ c \in Body /\ c.got = b.got /\ c.queue = Append(b.queue, x)
        /\ c.finished = b.finished /\ c.error = b.error /\ c.asked = b.asked /\ c.told = b.told
        /\ c.use = Notified(b.use)
    BY <2>1, <2>3, <2>4 DEF Body
  <2> HIDE DEF c
  <2>7. Seen(c) = Seen(b) \o x
    <3> DEFINE g == b.got
               f == FlattenSeq(b.queue)
    <3>1. Seen(c) = g \o (f \o x) /\ Seen(b) = g \o f
      BY <2>5, <2>6 DEF Seen
    <3>2. g \in ByteStrings /\ f \in ByteStrings
      BY <2>2, <2>5
    <3> HIDE DEF f, g
    <3>3. (g \o f) \o x = g \o (f \o x)
      BY <3>2, Concats
    <3> QED BY <3>1, <3>3
  <2>8. /\ b.use = "idle" <=> c.use = "idle"
        /\ b.use # "locked" => c.use # "locked"
        /\ c.use # "asleep"
    BY <2>6 DEF Notified
  <2> QED BY <2>6, <2>7, <2>8 DEF c
<1> QED BY <1>1, <1>2

(* request_finish loses no byte, and leaves no thread asleep.              *)
LEMMA Asked ==
    ASSUME NEW b \in Body
    PROVE  LET c == RequestFinish(b) IN
           /\ c \in Body /\ Seen(c) = Seen(b) /\ c.asked
           /\ c.finished = b.finished /\ c.error = b.error /\ c.queue = b.queue
           /\ c.told = b.told /\ (b.use = "idle" <=> c.use = "idle")
           /\ c.use = "locked" <=> b.use = "locked"
           /\ c.use # "asleep"
<1>1. Notified(b.use) \in Uses
  BY DEF Notified, Body, Uses
<1> DEFINE c == RequestFinish(b)
<1>2. /\ c \in Body /\ c.got = b.got /\ c.queue = b.queue /\ c.asked = TRUE
      /\ c.finished = b.finished /\ c.error = b.error /\ c.told = b.told
      /\ c.use = Notified(b.use)
  BY <1>1 DEF RequestFinish, Body
<1> HIDE DEF c
<1> QED BY <1>2 DEF Seen, Notified, c

(* mark_finished and mark_error end a body, lose no byte and leave no      *)
(* thread asleep; only mark_error sets the error.                          *)
LEMMA Marked ==
    ASSUME NEW b \in Body, NEW c \in {MarkFinished(b), MarkError(b)}
    PROVE  /\ c \in Body /\ Seen(c) = Seen(b) /\ c.asked = b.asked /\ c.queue = b.queue
           /\ c.finished /\ c.told = b.told /\ (b.use = "idle" <=> c.use = "idle")
           /\ c.use = "locked" <=> b.use = "locked"
           /\ c.use # "asleep"
           /\ c = MarkFinished(b) => c.error = b.error
           /\ c = MarkError(b) => c.error
<1>1. Notified(b.use) \in Uses
  BY DEF Notified, Body, Uses
<1> DEFINE d == MarkFinished(b)
           e == MarkError(b)
<1>2. /\ d \in Body /\ d.got = b.got /\ d.queue = b.queue /\ d.asked = b.asked
      /\ d.finished = TRUE /\ d.error = b.error /\ d.told = b.told
      /\ d.use = Notified(b.use)
  BY <1>1 DEF MarkFinished, Body
<1>3. e = [d EXCEPT !.error = TRUE]
  BY DEF MarkError
<1> HIDE DEF d, e
<1>4. /\ e \in Body /\ e.got = b.got /\ e.queue = b.queue /\ e.asked = b.asked
      /\ e.finished = TRUE /\ e.error = TRUE /\ e.told = b.told
      /\ e.use = Notified(b.use)
  BY <1>2, <1>3 DEF Body
<1>5. CASE c = d
  BY <1>2, <1>4, <1>5 DEF Seen, Notified, d, e
<1>6. CASE c = e
  BY <1>2, <1>4, <1>6 DEF Seen, Notified, d, e
<1> QED BY <1>5, <1>6 DEF d, e

(* What Dart takes is what was there first. *)
LEMMA TakenBytes ==
    ASSUME NEW b \in Body, NEW n \in Nat
    PROVE  LET c == TakeSlice(b, n) IN
           /\ c \in Body /\ Seen(c) = Seen(b) /\ c.asked = b.asked
           /\ c.finished = b.finished /\ c.error = b.error
           /\ c.told = "end" => b.told = "end" \/ (b.finished /\ ~b.error)
           /\ c.use \in {"idle", "locked"}
           /\ c.use = "locked" => c.queue = <<>> /\ ~c.finished
<1>1. b.queue \in Seq(Chunks) /\ b.got \in ByteStrings /\ b.queue \in Seq(ByteStrings)
  BY ChunkStrings DEF Body
<1>2. CASE b.queue # <<>>
  <2> DEFINE chunk == Head(b.queue)
             wanted == IF n > 1 THEN n ELSE 1
             size == IF wanted < Len(chunk) THEN wanted ELSE Len(chunk)
             front == SubSeq(chunk, 1, size)
             rest == SubSeq(chunk, size + 1, Len(chunk))
             q == IF rest = <<>> THEN Tail(b.queue) ELSE <<rest>> \o Tail(b.queue)
             c == TakeSlice(b, n)
  <2>1. chunk \in ByteStrings /\ chunk \in Chunks /\ Tail(b.queue) \in Seq(Chunks)
        /\ Tail(b.queue) \in Seq(ByteStrings)
    <3>1. chunk \in Chunks /\ Tail(b.queue) \in Seq(Chunks)
      BY <1>1, <1>2
    <3> QED BY <3>1, ChunkStrings DEF Chunks
  <2>2. Len(chunk) \in Nat
    BY <2>1 DEF ByteStrings
  <2>3. size \in 0..Len(chunk)
    <3> HIDE DEF chunk
    <3> QED BY <2>2
  <2> HIDE DEF size, chunk
  <2>4. /\ front \in ByteStrings /\ rest \in ByteStrings /\ chunk = front \o rest
    BY <2>1, <2>3, Cut
  <2>5. c = [b EXCEPT !.got = b.got \o front, !.queue = q, !.use = "idle"]
    BY <1>2 DEF TakeSlice, size, chunk
  <2> HIDE DEF front, rest, c
  <2>6. FlattenSeq(b.queue) = chunk \o FlattenSeq(Tail(b.queue))
    BY <1>1, <1>2, FlatHead DEF chunk
  <2>7. q \in Seq(Chunks) /\ FlattenSeq(q) = rest \o FlattenSeq(Tail(b.queue))
    <3>1. CASE rest = <<>>
      BY <2>1, <3>1, FlatType, Concats
    <3>2. CASE rest # <<>>
      <4> DEFINE p == <<rest>> \o Tail(b.queue)
      <4>1. rest \in Chunks
        BY <2>4, <3>2 DEF Chunks
      <4>2. p \in Seq(Chunks) /\ p # <<>> /\ Head(p) = rest /\ Tail(p) = Tail(b.queue)
        BY <2>1, <4>1
      <4>3. q = p
        BY <3>2
      <4> HIDE DEF p, q
      <4>4. p \in Seq(ByteStrings)
        BY <4>2, ChunkStrings
      <4>5. FlattenSeq(p) = rest \o FlattenSeq(Tail(b.queue))
        BY <4>2, <4>4, FlatHead
      <4> QED BY <4>2, <4>3, <4>5
    <3> QED BY <3>1, <3>2
  <2> HIDE DEF q
  <2>8. b.got \o front \in ByteStrings /\ FlattenSeq(Tail(b.queue)) \in ByteStrings
    BY <1>1, <2>1, <2>4, Concats, FlatType
  <2>9. /\ c \in Body /\ c.got = b.got \o front /\ c.queue = q /\ c.use = "idle"
        /\ c.asked = b.asked /\ c.finished = b.finished /\ c.error = b.error /\ c.told = b.told
    BY <2>5, <2>7, <2>8 DEF Body, Uses
  <2>10. Seen(c) = Seen(b)
    <3> DEFINE t == FlattenSeq(Tail(b.queue))
    <3>1. Seen(c) = (b.got \o front) \o (rest \o t)
      BY <2>7, <2>9 DEF Seen
    <3>2. Seen(b) = b.got \o ((front \o rest) \o t)
      BY <2>4, <2>6 DEF Seen
    <3> HIDE DEF t
    <3>3. t \in ByteStrings
      BY <2>8 DEF t
    <3>4. (front \o rest) \o t = front \o (rest \o t) /\ rest \o t \in ByteStrings
      BY <2>4, <3>3, Concats
    <3>5. (b.got \o front) \o (rest \o t) = b.got \o (front \o (rest \o t))
      BY <1>1, <2>4, <3>4, Concats
    <3> QED BY <3>1, <3>2, <3>4, <3>5
  <2> QED BY <2>9, <2>10 DEF c
<1>3. CASE b.queue = <<>> /\ b.finished
  <2> DEFINE c == TakeSlice(b, n)
  <2>1. c = [b EXCEPT !.told = IF b.error THEN "error" ELSE "end", !.use = "idle"]
    BY <1>3 DEF TakeSlice
  <2> HIDE DEF c
  <2>2. /\ c \in Body /\ c.got = b.got /\ c.queue = b.queue /\ c.use = "idle"
        /\ c.asked = b.asked /\ c.finished = b.finished /\ c.error = b.error
        /\ c.told = IF b.error THEN "error" ELSE "end"
    BY <2>1 DEF Body, Uses
  <2> QED BY <1>3, <2>2 DEF Seen, c
<1>4. CASE b.queue = <<>> /\ ~b.finished
  <2> DEFINE c == TakeSlice(b, n)
  <2>1. c = [b EXCEPT !.use = "locked"]
    BY <1>4 DEF TakeSlice
  <2> HIDE DEF c
  <2>2. /\ c \in Body /\ c.got = b.got /\ c.queue = b.queue /\ c.use = "locked"
        /\ c.asked = b.asked /\ c.finished = b.finished /\ c.error = b.error
        /\ c.told = b.told
    BY <2>1 DEF Body, Uses
  <2> QED BY <1>4, <2>2 DEF Seen, c
<1> QED BY <1>2, <1>3, <1>4

(* The types of the parts of the state that the steps change.              *)
LEMMA Prefixed ==
    ASSUME NEW r \in Requests, NEW n \in Nat
    PROVE  Prefix(r, n) \in ByteStrings /\ Len(Prefix(r, n)) = n
           /\ \A i \in 1..n : Prefix(r, n)[i] = <<r, i>>
<1>1. \A i \in 1..n : Byte(r, i) \in Nat \X Nat
  BY HttpConstants DEF Byte
<1> QED BY <1>1 DEF Prefix, ByteStrings, Byte

(* A connection starts well-typed.                                         *)
LEMMA HttpTypesInit == HttpInit => NetTypes /\ DartTypes
<1> SUFFICES ASSUME HttpInit PROVE NetTypes /\ DartTypes
  OBVIOUS
<1>1. <<>> \in ByteStrings /\ Len(<<>>) = 0
  BY Concats
<1>2. NetTypes
  BY <1>1, HttpConstants, NewBodyType DEF HttpInit, NetTypes, Phases
<1>3. DartTypes
  BY <1>1, HttpConstants DEF HttpInit, DartTypes, Stats, Reasons, NewStream, Underway
<1> QED BY <1>2, <1>3

(* The bytes of an HTTP/1 connection, and those of them the BufReader      *)
(* holds.                                                                  *)
LEMMA UplinkTypes ==
    ASSUME NetTypes
    PROVE  /\ uplink \in ByteStrings /\ Len(uplink) \in Nat /\ DOMAIN uplink = 1..Len(uplink)
           /\ \A i \in 1..Len(uplink) : uplink[i] \in Nat \X Nat
           /\ Available \in Nat /\ (~(Available > 0) => Available = 0)
           /\ Buffered \in ByteStrings /\ Len(Buffered) = fetched - taken /\ Len(Buffered) \in Nat
           /\ \A i \in 1..(fetched - taken) : Buffered[i] = uplink[taken + i]
           /\ Buffered # <<>> <=> taken < fetched
<1>1. uplink \in Seq(Nat \X Nat) /\ taken \in Nat /\ fetched \in Nat
      /\ taken <= fetched /\ fetched <= Len(uplink)
  BY DEF NetTypes, ByteStrings
<1>2. Buffered \in Seq(Nat \X Nat) /\ Len(Buffered) = fetched - taken
      /\ \A i \in 1..(fetched - taken) : Buffered[i] = uplink[taken + i]
  <2> DEFINE m == taken + 1
  <2>1. m \in 1..(Len(uplink) + 1) /\ fetched \in (m - 1)..Len(uplink) /\ fetched - m + 1 = fetched - taken
        /\ \A i \in 1..(fetched - taken) : m + i - 1 = taken + i
    BY <1>1
  <2> HIDE DEF m
  <2>2. /\ SubSeq(uplink, m, fetched) \in Seq(Nat \X Nat)
        /\ Len(SubSeq(uplink, m, fetched)) = fetched - m + 1
        /\ \A i \in 1..(fetched - m + 1) : SubSeq(uplink, m, fetched)[i] = uplink[m + i - 1]
    BY <1>1, <2>1, SubSeqProperties
  <2>3. Buffered = SubSeq(uplink, m, fetched)
    BY DEF Buffered, m
  <2> QED BY <2>1, <2>2, <2>3
<1> QED BY <1>1, <1>2 DEF Available, ByteStrings

(* The steps that move no byte. *)
LEMMA ServeTypes ==
    ASSUME NetTypes, UNCHANGED <<proto, net, fetched, taken, readers, body>>,
           half' \in {"serve", "body", "returned", "gone"},
           serve' \in [at : Phases, req : 0..MaxRequests, keep : BOOLEAN]
    PROVE  NetTypes'
BY DEF NetTypes, net, ByteStrings, Body

(* Going on to the next request, or ending, leaves the loop well-typed.    *)
LEMMA ContinueTypes ==
    ASSUME NetTypes, NEW keep \in BOOLEAN, Continue(keep) \/ ServeEnds
    PROVE  /\ half' \in {"serve", "body", "returned", "gone"}
           /\ serve' \in [at : Phases, req : 0..MaxRequests, keep : BOOLEAN]
BY DEF NetTypes, Continue, ServeEnds, Phases

(* The peer's bytes arrive one after the other.                            *)
LEMMA Sends ==
    ASSUME NetTypes, NEW b \in Nat \X Nat, uplink' = Append(uplink, b)
    PROVE  /\ uplink' \in ByteStrings /\ Len(uplink') = Len(uplink) + 1 /\ Len(uplink) \in Nat
           /\ uplink'[Len(uplink')] = b
           /\ \A i \in 1..Len(uplink) : uplink'[i] = uplink[i]
BY DEF NetTypes, ByteStrings

(* The last byte the peer sent is of the request it opened last.           *)
LEMMA LastByte ==
    ASSUME NetTypes, UplinkSound, ~Mux, client.opened > 0
    PROVE  /\ uplink # <<>> /\ Len(uplink) \in 1..Len(uplink) /\ SentOfLast \in Nat
           /\ uplink[Len(uplink)] = <<client.opened, SentOfLast>>
           /\ len[client.opened] \in Nat /\ client.opened \in Requests
<1>1. client.opened \in 1..MaxRequests
  BY HttpConstants DEF NetTypes
<1>2. uplink # <<>>
  BY <1>1 DEF UplinkSound
<1>3. Len(uplink) \in 1..Len(uplink)
  BY <1>2, UplinkTypes
<1>4. uplink[Len(uplink)] \in Nat \X Nat
  BY <1>3, UplinkTypes
<1>5. uplink[Len(uplink)][1] = client.opened
  BY <1>2 DEF UplinkSound
<1>6. len[client.opened] \in Nat
  BY <1>1 DEF UplinkSound
<1> QED BY <1>1, <1>2, <1>3, <1>4, <1>5, <1>6 DEF SentOfLast, Requests

(* A request the peer opens is the next one, with its length, and nothing  *)
(* of the others changes.                                                  *)
LEMMA OpensOne ==
    ASSUME NetTypes, PeerOpens
    PROVE  /\ client.opened + 1 \in Requests
           /\ client' \in [opened : 0..MaxRequests, gone : BOOLEAN]
           /\ client'.opened = client.opened + 1 /\ client'.gone = client.gone
           /\ len' \in [Requests -> Nat \cup {Unknown}]
           /\ ~Mux => len'[client.opened + 1] \in Nat
           /\ \A q \in Requests : q # client.opened + 1 => len'[q] = len[q]
                                                          /\ incoming'[q] = incoming[q]
           /\ Mux => LET s == incoming'[client.opened + 1] IN
                     s.data = Prefix(client.opened + 1, s.sent)
           /\ incoming' \in [Requests -> [data : ByteStrings, sent : Nat,
                                          end : {"open", "fin", "reset"}]]
           /\ IF Mux THEN uplink' = uplink
              ELSE /\ uplink' = Append(uplink, <<client.opened + 1, 0>>)
                   /\ client.opened > 0 => SentOfLast = len[client.opened]
<1> DEFINE r == client.opened + 1
<1>1. r \in Requests /\ client \in [opened : 0..MaxRequests, gone : BOOLEAN]
  BY HttpConstants DEF PeerOpens, NetTypes, Requests
<1>2. client' = [client EXCEPT !.opened = r]
  BY DEF PeerOpens
<1>3. client' \in [opened : 0..MaxRequests, gone : BOOLEAN] /\ client'.opened = r
      /\ client'.gone = client.gone
  BY <1>1, <1>2 DEF Requests
<1>4. PICK n \in IF Mux THEN {Unknown, MaxLen} ELSE 0..MaxLen : len' = [len EXCEPT ![r] = n]
  BY DEF PeerOpens
<1>5. n \in Nat \cup {Unknown} /\ (~Mux => n \in Nat)
  BY HttpConstants, <1>4
<1>6. len \in [Requests -> Nat \cup {Unknown}]
      /\ incoming \in [Requests -> [data : ByteStrings, sent : Nat, end : {"open", "fin", "reset"}]]
  BY DEF NetTypes
<1> HIDE DEF r
<1>7. /\ len' \in [Requests -> Nat \cup {Unknown}]
      /\ ~Mux => len'[r] \in Nat
      /\ \A q \in Requests : q # r => len'[q] = len[q]
  BY <1>1, <1>4, <1>5, <1>6
<1>8. CASE Mux
  <2>1. PICK m \in 0..(MaxLen + 1), end \in {"open", "fin", "reset"} :
          incoming' = [incoming EXCEPT ![r] = [data |-> Prefix(r, m), sent |-> m, end |-> end]]
    BY <1>8 DEF PeerOpens, Prefix, r
  <2>2. m \in Nat /\ Prefix(r, m) \in ByteStrings
    BY <1>1, <2>1, HttpConstants, Prefixed
  <2>3. [data |-> Prefix(r, m), sent |-> m, end |-> end]
          \in [data : ByteStrings, sent : Nat, end : {"open", "fin", "reset"}]
    BY <2>1, <2>2
  <2>4. /\ incoming' \in [Requests -> [data : ByteStrings, sent : Nat, end : {"open", "fin", "reset"}]]
        /\ incoming'[r] = [data |-> Prefix(r, m), sent |-> m, end |-> end]
        /\ \A q \in Requests : q # r => incoming'[q] = incoming[q]
    BY <1>1, <1>6, <2>1, <2>3
  <2>5. uplink' = uplink
    BY <1>8 DEF PeerOpens
  <2> QED BY <1>1, <1>3, <1>7, <1>8, <2>4, <2>5 DEF r
<1>9. CASE ~Mux
  <2>1. /\ incoming' = incoming
        /\ uplink' = Append(uplink, <<client.opened + 1, 0>>)
        /\ client.opened > 0 => SentOfLast = len[client.opened]
    BY <1>9 DEF PeerOpens, HeadOf, Byte
  <2> QED BY <1>1, <1>3, <1>6, <1>7, <1>9, <2>1 DEF r
<1> QED BY <1>8, <1>9

(* The peer leaves the connection well-typed.                              *)
LEMMA PeerTypes ==
    ASSUME NetTypes, UplinkSound, PeerOpens \/ PeerSendsByte \/ PeerLeaves
    PROVE  NetTypes'
<1> USE HttpConstants
<1>0. fetched <= Len(uplink) /\ fetched \in Nat /\ Len(uplink) \in Nat
  BY UplinkTypes DEF NetTypes
<1>1. CASE PeerLeaves
  BY <1>1 DEF NetTypes, PeerLeaves, input, record, dart
<1>2. CASE PeerSendsByte
  <2>1. client.opened \in Nat /\ SentOfLast \in Nat
    BY <1>2, LastByte DEF PeerSendsByte, NetTypes
  <2>2. <<client.opened, SentOfLast + 1>> \in Nat \X Nat
        /\ uplink' = Append(uplink, <<client.opened, SentOfLast + 1>>)
    BY <1>2, <2>1 DEF PeerSendsByte, Byte
  <2>3. uplink' \in ByteStrings /\ fetched <= Len(uplink')
    BY <1>0, <2>2, Sends
  <2> QED BY <1>2, <2>3 DEF NetTypes, PeerSendsByte, input, record, dart
<1>3. CASE PeerOpens
  <2>1. uplink' \in ByteStrings /\ fetched <= Len(uplink')
    <3>1. CASE Mux
      BY <1>0, <1>3, <3>1, OpensOne DEF NetTypes
    <3>2. CASE ~Mux
      <4>1. <<client.opened + 1, 0>> \in Nat \X Nat
        BY DEF NetTypes
      <4>2. uplink' = Append(uplink, <<client.opened + 1, 0>>)
        BY <1>3, <3>2, OpensOne
      <4> QED BY <1>0, <4>1, <4>2, Sends
    <3> QED BY <3>1, <3>2
  <2>2. UNCHANGED <<proto, fetched, taken, half, serve, readers, body>>
    BY <1>3 DEF PeerOpens, input
  <2> QED BY <1>3, <2>1, <2>2, OpensOne DEF NetTypes
<1> QED BY <1>1, <1>2, <1>3

(* One request's body changes. *)
LEMMA BodyChanges ==
    ASSUME NetTypes, NEW r \in Requests, NEW c \in Body, body' = [body EXCEPT ![r] = c]
    PROVE  /\ body' \in [Requests -> Body] /\ body'[r] = c
           /\ \A q \in Requests : q # r => body'[q] = body[q]
BY DEF NetTypes

(* What changes when a body reader is started.                             *)
LEMMA ReaderChanges ==
    ASSUME NetTypes, NEW r \in Requests, NEW on \in BOOLEAN, NEW n \in Nat,
           readers' = [readers EXCEPT ![r] = [on |-> on, count |-> n]]
    PROVE  /\ readers' \in [Requests -> [on : BOOLEAN, count : Nat]]
           /\ readers'[r].on = on /\ readers'[r].count = n
           /\ \A q \in Requests : q # r => readers'[q] = readers[q]
BY DEF NetTypes

(* What is left of the types is for each step to show.                     *)
LEMMA NetTypesFollow ==
    ASSUME NetTypes, UNCHANGED <<proto, net>>,
           fetched' \in Nat, taken' \in Nat, taken' <= fetched', fetched' <= Len(uplink),
           half' \in {"serve", "body", "returned", "gone"},
           serve' \in [at : Phases, req : 0..MaxRequests, keep : BOOLEAN],
           readers' \in [Requests -> [on : BOOLEAN, count : Nat]],
           body' \in [Requests -> Body]
    PROVE  NetTypes'
BY DEF NetTypes, net

(* The body reader of the request served. *)
LEMMA Serving ==
    ASSUME NetTypes, HalfSound, ~Mux, serve.at \notin {"read", "ended"}
    PROVE  serve.req \in Requests /\ body[serve.req] \in Body
           /\ readers[serve.req] \in [on : BOOLEAN, count : Nat]
BY HttpConstants DEF NetTypes, HalfSound, Requests

(* Bytes taken from the front of the buffer. *)
LEMMA BufferFront ==
    ASSUME NetTypes, NEW n \in 0..Len(Buffered)
    PROVE  /\ SubSeq(Buffered, 1, n) \in ByteStrings /\ Len(SubSeq(Buffered, 1, n)) = n
           /\ \A i \in 1..n : SubSeq(Buffered, 1, n)[i] = uplink[taken + i]
<1>1. Buffered \in Seq(Nat \X Nat) /\ Len(Buffered) \in Nat /\ Len(Buffered) = fetched - taken
      /\ \A i \in 1..(fetched - taken) : Buffered[i] = uplink[taken + i]
  BY UplinkTypes DEF ByteStrings
<1>2. n \in Nat /\ n <= Len(Buffered)
  BY <1>1
<1>3. SubSeq(Buffered, 1, n) \in Seq(Nat \X Nat) /\ Len(SubSeq(Buffered, 1, n)) = n
      /\ \A i \in 1..n : SubSeq(Buffered, 1, n)[i] = Buffered[i]
  BY <1>1, <1>2
<1> QED BY <1>1, <1>2, <1>3 DEF ByteStrings

(* What the steps that read do, without the detail of their definitions.   *)
LEMMA ReadsHead ==
    ASSUME NetTypes, UplinkSound, ReadHead
    PROVE  LET r == uplink[taken + 1][1] IN
           /\ r \in Requests /\ r <= client.opened /\ taken + 1 <= fetched /\ taken' = taken + 1
           /\ \E keep \in BOOLEAN :
                serve' = [at |-> IF len[r] <= InlineLimit THEN "inline" ELSE "handle",
                          req |-> r, keep |-> keep]
           /\ serve'.req = r /\ serve'.at \in {"inline", "handle"}
           /\ serve' \in [at : Phases, req : 0..MaxRequests, keep : BOOLEAN]
           /\ ~Mux /\ serve.at = "read"
           /\ UNCHANGED <<proto, net, fetched, half, readers, body, registered, record, dart, out>>
<1>1. Buffered # <<>> /\ ~Mux /\ serve.at = "read" /\ taken' = taken + 1
      /\ UNCHANGED <<proto, net, fetched, half, readers, body, registered, record, dart, out>>
  BY DEF ReadHead, At
<1>2. /\ taken < fetched /\ taken \in Nat /\ fetched \in Nat /\ Buffered \in Seq(Nat \X Nat)
      /\ Buffered[1] = uplink[taken + 1] /\ taken + 1 \in 1..Len(uplink)
  BY <1>1, UplinkTypes DEF NetTypes, ByteStrings
<1>3. Head(Buffered)[1] = uplink[taken + 1][1]
  BY <1>2
<1> DEFINE r == uplink[taken + 1][1]
<1>4. r \in 1..client.opened /\ client.opened \in 0..MaxRequests
  BY <1>2, UplinkTypes DEF UplinkSound, NetTypes
<1>5. r \in Requests /\ r <= client.opened
  BY <1>4, HttpConstants DEF Requests
<1>6. PICK keep \in BOOLEAN :
         serve' = [at |-> IF len[r] <= InlineLimit THEN "inline" ELSE "handle",
                   req |-> r, keep |-> keep]
  BY <1>3 DEF ReadHead
<1> HIDE DEF r
<1>7. serve' \in [at : Phases, req : 0..MaxRequests, keep : BOOLEAN]
      /\ serve'.req = r /\ serve'.at \in {"inline", "handle"}
  BY <1>5, <1>6, HttpConstants DEF Phases, Requests
<1> QED BY <1>1, <1>2, <1>5, <1>6, <1>7 DEF r

(* What read_inline_body does: it ends the body when it is whole, else     *)
(* takes some bytes off the buffer, and never one of the next request.     *)
LEMMA ReadsInline ==
    ASSUME NetTypes, HalfSound, ReadInline, len[serve.req] \in Nat
    PROVE  LET r == serve.req IN
           /\ ~Mux /\ serve.at = "inline" /\ r \in Requests
           /\ UNCHANGED <<proto, net, fetched, half, readers, registered, record, dart, out>>
           /\ \/ /\ Len(body[r].got) = len[r]
                 /\ body' = [body EXCEPT ![r] = InlineBody(body[r].got)]
                 /\ serve' = [serve EXCEPT !.at = "route"] /\ taken' = taken
              \/ \E n \in 1..(fetched - taken) :
                 /\ serve' = serve /\ taken' = taken + n
                 /\ Len(body[r].got) < len[r] => n <= len[r] - Len(body[r].got)
                 /\ Len(body[r].got) # len[r]
                 /\ body' = [body EXCEPT ![r] = [body[r] EXCEPT !.got = body[r].got \o SubSeq(Buffered, 1, n)]]
<1> DEFINE r == serve.req
           wanted == len[r] - Len(body[r].got)
           size == IF wanted < Len(Buffered) THEN wanted ELSE Len(Buffered)
<1>1. ~Mux /\ serve.at = "inline"
      /\ UNCHANGED <<proto, net, fetched, half, readers, registered, record, dart, out>>
  BY DEF ReadInline, At
<1>2. r \in Requests /\ body[r].got \in Seq(Nat \X Nat) /\ Len(body[r].got) \in Nat
  BY <1>1, Serving DEF Body, ByteStrings
<1>3. Len(Buffered) \in Nat /\ Len(Buffered) = fetched - taken
  BY UplinkTypes
<1>4. CASE wanted = 0
  <2>1. body' = [body EXCEPT ![r] = InlineBody(body[r].got)]
        /\ serve' = [serve EXCEPT !.at = "route"] /\ taken' = taken
    BY <1>4 DEF ReadInline
  <2>2. Len(body[r].got) = len[r]
    BY <1>2, <1>4
  <2> QED BY <1>1, <1>2, <2>1, <2>2
<1>5. CASE wanted # 0
  <2>1. /\ size > 0 /\ taken' = taken + size /\ serve' = serve
        /\ body' = [body EXCEPT ![r].got = @ \o SubSeq(Buffered, 1, size)]
    BY <1>5 DEF ReadInline
  <2>2. body' = [body EXCEPT ![r] = [body[r] EXCEPT !.got = body[r].got \o SubSeq(Buffered, 1, size)]]
    BY <2>1
  <2>3. size \in 1..(fetched - taken) /\ Len(body[r].got) # len[r]
        /\ (Len(body[r].got) < len[r] => size <= len[r] - Len(body[r].got))
    <3> DEFINE g == Len(body[r].got)
               m == len[r]
               k == Len(Buffered)
    <3>1. g \in Nat /\ m \in Nat /\ k \in Nat /\ k = fetched - taken
      BY <1>2, <1>3
    <3>2. m - g # 0 /\ size = (IF m - g < k THEN m - g ELSE k) /\ size > 0
      BY <1>5, <2>1
    <3> HIDE DEF size, g, m, k
    <3>3. size \in 1..(fetched - taken) /\ g # m /\ (g < m => size <= m - g)
      BY <3>1, <3>2
    <3> QED BY <3>3 DEF g, m
  <2> HIDE DEF size
  <2> QED BY <1>1, <1>2, <2>1, <2>2, <2>3
<1> QED BY <1>4, <1>5

(* What handle_http_request does with the bytes already buffered: the      *)
(* whole body is inlined, else all of them are enqueued and a reader gets  *)
(* the rest to read.                                                       *)
LEMMA StartsBody ==
    ASSUME NetTypes, HalfSound, StartBody, len[serve.req] \in Nat
    PROVE  LET r == serve.req IN
           /\ ~Mux /\ serve.at = "handle" /\ r \in Requests
           /\ serve' = [serve EXCEPT !.at = "route"]
           /\ UNCHANGED <<proto, net, fetched, registered, record, dart, out>>
           /\ \E n \in 0..Len(Buffered) :
                /\ n <= len[r] /\ taken' = taken + n
                /\ \/ /\ n = len[r] /\ body' = [body EXCEPT ![r] = InlineBody(SubSeq(Buffered, 1, n))]
                      /\ UNCHANGED <<half, readers>>
                   \/ /\ n # len[r] /\ n = Len(Buffered) /\ half' = "body"
                      /\ body' = [body EXCEPT ![r] = EnqueueBytes(NewBody, SubSeq(Buffered, 1, n))]
                      /\ readers' = [readers EXCEPT ![r] = [on |-> TRUE, count |-> len[r] - n]]
<1> DEFINE r == serve.req
           n == IF len[r] < Len(Buffered) THEN len[r] ELSE Len(Buffered)
<1>1. ~Mux /\ serve.at = "handle" /\ serve' = [serve EXCEPT !.at = "route"]
      /\ UNCHANGED <<proto, net, fetched, registered, record, dart, out>>
  BY DEF StartBody, At
<1>2. r \in Requests
  BY <1>1, Serving
<1>3. Len(Buffered) \in Nat /\ Len(Buffered) = fetched - taken /\ taken \in Nat /\ fetched \in Nat
  BY UplinkTypes DEF NetTypes
<1>4. n \in 0..Len(Buffered) /\ n <= len[r] /\ (n # len[r] => n = Len(Buffered))
  BY <1>3
<1>5. CASE n = len[r]
  <2>1. /\ body' = [body EXCEPT ![r] = InlineBody(SubSeq(Buffered, 1, n))]
        /\ taken' = taken + n /\ UNCHANGED <<half, readers>>
    BY <1>5 DEF StartBody
  <2> HIDE DEF n
  <2> QED BY <1>1, <1>2, <1>4, <1>5, <2>1
<1>6. CASE n # len[r]
  <2>1. /\ body' = [body EXCEPT ![r] = EnqueueBytes(NewBody, SubSeq(Buffered, 1, n))]
        /\ readers' = [readers EXCEPT ![r] = [on |-> TRUE, count |-> len[r] - n]]
        /\ half' = "body" /\ taken' = fetched
    BY <1>6 DEF StartBody
  <2>2. taken' = taken + n
    BY <1>3, <1>4, <1>6, <2>1
  <2> HIDE DEF n
  <2> QED BY <1>1, <1>2, <1>4, <1>6, <2>1, <2>2
<1> QED BY <1>5, <1>6

(* The HTTP/1 loop leaves the connection well-typed.                       *)
LEMMA Http1Types ==
    ASSUME NetTypes, UplinkSound, HalfSound, ~Mux => len[serve.req] \in Nat \/ serve.req = 0, Http1Step
    PROVE  NetTypes'
<1> USE HttpConstants
<1>0. /\ fetched \in Nat /\ taken \in Nat /\ taken <= fetched /\ fetched <= Len(uplink)
      /\ Len(uplink) \in Nat /\ half \in {"serve", "body", "returned", "gone"}
      /\ serve \in [at : Phases, req : 0..MaxRequests, keep : BOOLEAN]
      /\ readers \in [Requests -> [on : BOOLEAN, count : Nat]] /\ body \in [Requests -> Body]
  BY UplinkTypes DEF NetTypes
<1>1. CASE FillBuf
  BY <1>0, <1>1, NetTypesFollow DEF FillBuf, record, dart
<1>2. CASE ReadHead
  <2>1. /\ taken' = taken + 1 /\ taken + 1 <= fetched
        /\ serve' \in [at : Phases, req : 0..MaxRequests, keep : BOOLEAN]
        /\ UNCHANGED <<proto, net, fetched, half, readers, body>>
    BY <1>2, ReadsHead
  <2> QED BY <1>0, <2>1, NetTypesFollow
<1>3. CASE ReadInline
  <2>0. serve.at = "inline" /\ ~Mux
    BY <1>3 DEF ReadInline, At
  <2> DEFINE r == serve.req
  <2>1. r \in Requests /\ body[r] \in Body /\ body[r].got \in ByteStrings /\ len[r] \in Nat
    BY <2>0, Serving DEF Body
  <2>2. UNCHANGED <<proto, net, fetched, half, readers>>
    BY <1>3, <2>1, ReadsInline
  <2>3. CASE /\ body' = [body EXCEPT ![r] = InlineBody(body[r].got)]
             /\ serve' = [serve EXCEPT !.at = "route"] /\ taken' = taken
    <3>1. body' \in [Requests -> Body]
      BY <2>1, <2>3, Inlined, BodyChanges
    <3>2. serve' \in [at : Phases, req : 0..MaxRequests, keep : BOOLEAN]
      BY <1>0, <2>3 DEF Phases
    <3> QED BY <1>0, <2>2, <2>3, <3>1, <3>2, NetTypesFollow
  <2>4. CASE \E n \in 1..(fetched - taken) :
                 /\ serve' = serve /\ taken' = taken + n
                 /\ body' = [body EXCEPT ![r] = [body[r] EXCEPT !.got = body[r].got \o SubSeq(Buffered, 1, n)]]
    <3>1. PICK n \in 1..(fetched - taken) :
                 /\ serve' = serve /\ taken' = taken + n
                 /\ body' = [body EXCEPT ![r] = [body[r] EXCEPT !.got = body[r].got \o SubSeq(Buffered, 1, n)]]
      BY <2>4
    <3>2. n \in 0..Len(Buffered) /\ taken + n <= fetched /\ n \in Nat
      BY <1>0, <3>1, UplinkTypes
    <3>3. body[r].got \o SubSeq(Buffered, 1, n) \in ByteStrings
      BY <2>1, <3>2, BufferFront, Concats
    <3>4. [body[r] EXCEPT !.got = body[r].got \o SubSeq(Buffered, 1, n)] \in Body
      BY <2>1, <3>3 DEF Body
    <3>5. body' \in [Requests -> Body]
      BY <2>1, <3>1, <3>4, BodyChanges
    <3> QED BY <1>0, <2>2, <3>1, <3>2, <3>5, NetTypesFollow
  <2> QED BY <1>3, <2>1, <2>3, <2>4, ReadsInline
<1>4. CASE StartBody
  <2>0. serve.at = "handle" /\ ~Mux
    BY <1>4 DEF StartBody, At
  <2> DEFINE r == serve.req
  <2>1. r \in Requests /\ len[r] \in Nat
    BY <2>0, Serving
  <2>2. serve' = [serve EXCEPT !.at = "route"] /\ UNCHANGED <<proto, net, fetched>>
    BY <1>4, <2>1, StartsBody
  <2>3. PICK n \in 0..Len(Buffered) :
                /\ n <= len[r] /\ taken' = taken + n
                /\ \/ /\ n = len[r] /\ body' = [body EXCEPT ![r] = InlineBody(SubSeq(Buffered, 1, n))]
                      /\ UNCHANGED <<half, readers>>
                   \/ /\ n # len[r] /\ n = Len(Buffered) /\ half' = "body"
                      /\ body' = [body EXCEPT ![r] = EnqueueBytes(NewBody, SubSeq(Buffered, 1, n))]
                      /\ readers' = [readers EXCEPT ![r] = [on |-> TRUE, count |-> len[r] - n]]
    BY <1>4, <2>1, StartsBody
  <2>4. serve' \in [at : Phases, req : 0..MaxRequests, keep : BOOLEAN]
    BY <1>0, <2>2 DEF Phases
  <2>5. taken' \in Nat /\ taken' <= fetched /\ n \in Nat
    BY <1>0, <2>3, UplinkTypes
  <2>6. SubSeq(Buffered, 1, n) \in ByteStrings
    BY <2>3, BufferFront
  <2>7. InlineBody(SubSeq(Buffered, 1, n)) \in Body /\ EnqueueBytes(NewBody, SubSeq(Buffered, 1, n)) \in Body
    BY <2>6, Inlined, Enqueued, NewBodyType
  <2>8. body' \in [Requests -> Body]
    BY <2>1, <2>3, <2>7, BodyChanges
  <2>9. readers' \in [Requests -> [on : BOOLEAN, count : Nat]]
    <3>1. CASE UNCHANGED readers
      BY <1>0, <3>1
    <3>2. CASE n # len[r] /\ readers' = [readers EXCEPT ![r] = [on |-> TRUE, count |-> len[r] - n]]
      <4>1. len[r] - n \in Nat
        BY <2>1, <2>3, <2>5
      <4> QED BY <2>1, <3>2, <4>1, ReaderChanges
    <3> QED BY <2>3, <3>1, <3>2
  <2>10. half' \in {"serve", "body", "returned", "gone"}
    BY <1>0, <2>3
  <2> QED BY <1>0, <2>2, <2>4, <2>5, <2>8, <2>9, <2>10, NetTypesFollow
<1>5. CASE RouteResolved
  BY <1>0, <1>5, ServeTypes, ContinueTypes DEF RouteResolved, Phases
<1>6. CASE RouteRejected
  <2>1. PICK keep \in BOOLEAN : Continue(keep)
    BY <1>0, <1>6 DEF RouteRejected
  <2> QED BY <1>6, <2>1, ServeTypes, ContinueTypes DEF RouteRejected
<1>7. CASE RejectionFails
  BY <1>7, ServeTypes, ContinueTypes DEF RejectionFails
<1>8. CASE ReadEnds
  BY <1>8, ServeTypes, ContinueTypes DEF ReadEnds
<1>9. CASE ResponseCancelled
  BY <1>9, ServeTypes, ContinueTypes DEF ResponseCancelled
<1>10. CASE Reclaim
  BY <1>0, <1>10, ServeTypes DEF Reclaim, Phases
<1> QED BY <1>1, <1>2, <1>3, <1>4, <1>5, <1>6, <1>7, <1>8, <1>9, <1>10 DEF Http1Step

(* What changes when a reader has read on.                                 *)
LEMMA ReaderCounts ==
    ASSUME NetTypes, NEW r \in Requests, NEW n \in Nat, readers' = [readers EXCEPT ![r].count = n]
    PROVE  /\ readers' \in [Requests -> [on : BOOLEAN, count : Nat]]
           /\ readers'[r].on = readers[r].on /\ readers'[r].count = n
           /\ \A q \in Requests : q # r => readers'[q] = readers[q]
BY DEF NetTypes

(* What changes when a reader stops.                                       *)
LEMMA ReaderTurns ==
    ASSUME NetTypes, NEW r \in Requests, NEW on \in BOOLEAN, readers' = [readers EXCEPT ![r].on = on]
    PROVE  /\ readers' \in [Requests -> [on : BOOLEAN, count : Nat]]
           /\ readers'[r].on = on /\ readers'[r].count = readers[r].count
           /\ \A q \in Requests : q # r => readers'[q] = readers[q]
BY DEF NetTypes

(* What the readers' steps do. *)
LEMMA BodyReads ==
    ASSUME NetTypes, NEW r \in Requests, Http1BodyRead(r)
    PROVE  /\ ~Mux /\ readers[r].on /\ body[r].use # "locked"
           /\ UNCHANGED <<proto, net, half, serve, registered, record, dart, out>>
           /\ \E n \in 1..(Len(uplink) - fetched) :
                /\ n <= readers[r].count /\ fetched' = fetched + n /\ taken' = taken + n
                /\ readers' = [readers EXCEPT ![r].count = readers[r].count - n]
                /\ \/ body[r].asked /\ body' = body
                   \/ /\ ~body[r].asked
                      /\ body' = [body EXCEPT ![r] =
                                    EnqueueBytes(body[r], SubSeq(uplink, fetched + 1, fetched + n))]
<1> DEFINE n == IF readers[r].count < Available THEN readers[r].count ELSE Available
<1>1. /\ ~Mux /\ readers[r].on /\ body[r].use # "locked" /\ readers[r].count > 0 /\ Available > 0
      /\ UNCHANGED <<proto, net, half, serve, registered, record, dart, out>>
      /\ fetched' = fetched + n /\ taken' = taken + n
      /\ readers' = [readers EXCEPT ![r].count = readers[r].count - n]
      /\ body' = IF body[r].asked THEN body
                 ELSE [body EXCEPT ![r] = EnqueueBytes(body[r], SubSeq(uplink, fetched + 1, fetched + n))]
  BY DEF Http1BodyRead, Lent, Unlocked
<1>2. readers[r].count \in Nat /\ Available \in Nat /\ Available = Len(uplink) - fetched
  BY UplinkTypes DEF NetTypes, Available
<1>3. n \in 1..(Len(uplink) - fetched) /\ n <= readers[r].count
  BY <1>1, <1>2
<1> HIDE DEF n
<1> QED BY <1>1, <1>3

(* What a body reader reads off the socket is the bytes that follow those  *)
(* fetched.                                                                *)
LEMMA UplinkPart ==
    ASSUME NetTypes, NEW n \in 1..(Len(uplink) - fetched)
    PROVE  /\ SubSeq(uplink, fetched + 1, fetched + n) \in ByteStrings
           /\ Len(SubSeq(uplink, fetched + 1, fetched + n)) = n
           /\ \A i \in 1..n : SubSeq(uplink, fetched + 1, fetched + n)[i] = uplink[fetched + i]
<1>1. uplink \in Seq(Nat \X Nat) /\ fetched \in Nat /\ n \in Nat /\ fetched + n <= Len(uplink)
  BY UplinkTypes DEF NetTypes, ByteStrings
<1>2. SubSeq(uplink, fetched + 1, fetched + n) \in Seq(Nat \X Nat)
      /\ Len(SubSeq(uplink, fetched + 1, fetched + n)) = n
      /\ \A i \in 1..n : SubSeq(uplink, fetched + 1, fetched + n)[i] = uplink[fetched + i]
  BY <1>1
<1> QED BY <1>2 DEF ByteStrings

(* A reader ends: of either kind of connection. *)
Stops(r, c) ==
    /\ readers[r].on /\ body[r].use # "locked"
    /\ c \in {MarkFinished(body[r]), MarkError(body[r])}
    /\ body' = [body EXCEPT ![r] = c] /\ readers' = [readers EXCEPT ![r].on = FALSE]
    /\ UNCHANGED <<proto, uplink, len, fetched, taken, serve, registered, events, dart, out>>

(* Every way a body reader ends, it ends its body.                         *)
LEMMA BodyStops ==
    ASSUME NetTypes, NEW r \in Requests,
           \/ Http1BodyDone(r) \/ Http1BodyFails(r) \/ BodyAbandoned(r) \/ BodyEnd(r) \/ BodyBroken(r)
           \/ \E why \in {"idle", "total"} : BodyTimesOut(r, why)
    PROVE  /\ \E c : Stops(r, c)
           /\ client' \in [opened : 0..MaxRequests, gone : BOOLEAN] /\ client'.opened = client.opened
           /\ incoming' = incoming
           /\ half' = half \/ (~Mux /\ half' \in {"returned", "gone"})
<1>1. client \in [opened : 0..MaxRequests, gone : BOOLEAN]
  BY DEF NetTypes
<1>2. CASE Http1BodyDone(r)
  BY <1>1, <1>2 DEF Http1BodyDone, Stops, Lent, Unlocked, net, record
<1>3. CASE Http1BodyFails(r)
  BY <1>1, <1>3 DEF Http1BodyFails, Stops, Lent, Unlocked, net, record
<1>4. CASE BodyAbandoned(r)
  BY <1>1, <1>4 DEF BodyAbandoned, Stops, StopReader, Reading, Unlocked, net, record, input
<1>5. CASE BodyEnd(r)
  BY <1>1, <1>5 DEF BodyEnd, Stops, StopReader, Reading, Unlocked, net, record, input
<1>6. CASE BodyBroken(r)
  BY <1>1, <1>6 DEF BodyBroken, Stops, StopReader, Reading, Unlocked, net, record, input
<1>7. CASE \E why \in {"idle", "total"} : BodyTimesOut(r, why)
  BY <1>1, <1>7 DEF BodyTimesOut, Stops, StopReader, Reading, Unlocked, net, record, input
<1> QED BY <1>2, <1>3, <1>4, <1>5, <1>6, <1>7

(* What changes when a reader ends its body.                               *)
LEMMA StopsFacts ==
    ASSUME NetTypes, NEW r \in Requests, NEW c, Stops(r, c)
    PROVE  /\ body' \in [Requests -> Body] /\ body'[r] = c /\ body[r] \in Body
           /\ \A q \in Requests : q # r => body'[q] = body[q]
           /\ readers' \in [Requests -> [on : BOOLEAN, count : Nat]]
           /\ ~readers'[r].on
           /\ \A q \in Requests : q # r => readers'[q] = readers[q]
<1>1. body[r] \in Body
  BY DEF NetTypes
<1>2. c \in Body
  BY <1>1, Marked DEF Stops
<1> QED BY <1>1, <1>2, BodyChanges, ReaderTurns DEF Stops

(* A DATA frame goes to its body, or exceeds the limit and breaks it.      *)
LEMMA ReadsData ==
    ASSUME NetTypes, NEW r \in Requests, BodyData(r)
    PROVE  /\ Mux /\ readers[r].on /\ body[r].use # "locked" /\ ~body[r].asked
           /\ incoming[r].data # <<>> /\ Head(incoming[r].data) \in Nat \X Nat
           /\ incoming' = [incoming EXCEPT ![r].data = Tail(incoming[r].data)]
           /\ incoming' \in [Requests -> [data : ByteStrings, sent : Nat, end : {"open", "fin", "reset"}]]
           /\ UNCHANGED <<proto, client, uplink, len, input, serve, registered, record, dart, out>>
           /\ \/ /\ body' = [body EXCEPT ![r] = MarkError(body[r])]
                 /\ readers' = [readers EXCEPT ![r].on = FALSE]
              \/ /\ body' = [body EXCEPT ![r] = EnqueueBytes(body[r], <<Head(incoming[r].data)>>)]
                 /\ readers' = [readers EXCEPT ![r].count = readers[r].count + 1]
                 /\ ~Exceeded(r, readers[r].count + 1)
<1>1. /\ Mux /\ readers[r].on /\ body[r].use # "locked" /\ ~body[r].asked
      /\ incoming[r].data # <<>>
      /\ incoming' = [incoming EXCEPT ![r].data = Tail(incoming[r].data)]
      /\ UNCHANGED <<proto, client, uplink, len, input, serve, registered, record, dart, out>>
  BY DEF BodyData, Reading, Unlocked
<1>2. incoming[r].data \in Seq(Nat \X Nat)
  BY DEF NetTypes, ByteStrings
<1>3. Head(incoming[r].data) \in Nat \X Nat /\ Tail(incoming[r].data) \in ByteStrings
  BY <1>1, <1>2 DEF ByteStrings
<1>4. incoming' \in [Requests -> [data : ByteStrings, sent : Nat, end : {"open", "fin", "reset"}]]
  BY <1>1, <1>3 DEF NetTypes
<1>5. \/ /\ body' = [body EXCEPT ![r] = MarkError(body[r])]
         /\ readers' = [readers EXCEPT ![r].on = FALSE]
      \/ /\ body' = [body EXCEPT ![r] = EnqueueBytes(body[r], <<Head(incoming[r].data)>>)]
         /\ readers' = [readers EXCEPT ![r].count = readers[r].count + 1]
         /\ ~Exceeded(r, readers[r].count + 1)
  BY DEF BodyData, StopReader
<1> QED BY <1>1, <1>3, <1>4, <1>5

(* A reader's step, of either protocol. *)
LEMMA ReaderTypes ==
    ASSUME NetTypes, NEW r \in Requests, Http1BodyStep(r) \/ BodyStep(r)
    PROVE  NetTypes'
<1>0. /\ fetched \in Nat /\ taken \in Nat /\ taken <= fetched /\ fetched <= Len(uplink)
      /\ Len(uplink) \in Nat /\ half \in {"serve", "body", "returned", "gone"}
      /\ serve \in [at : Phases, req : 0..MaxRequests, keep : BOOLEAN]
      /\ readers \in [Requests -> [on : BOOLEAN, count : Nat]] /\ body \in [Requests -> Body]
  BY UplinkTypes DEF NetTypes
<1>1. CASE Http1BodyRead(r)
  <2>1. UNCHANGED <<proto, net, half, serve>>
    BY <1>1, BodyReads
  <2>2. PICK n \in 1..(Len(uplink) - fetched) :
                /\ n <= readers[r].count /\ fetched' = fetched + n /\ taken' = taken + n
                /\ readers' = [readers EXCEPT ![r].count = readers[r].count - n]
                /\ \/ body[r].asked /\ body' = body
                   \/ /\ ~body[r].asked
                      /\ body' = [body EXCEPT ![r] =
                                    EnqueueBytes(body[r], SubSeq(uplink, fetched + 1, fetched + n))]
    BY <1>1, BodyReads
  <2>3. readers[r].count - n \in Nat
    BY <1>0, <2>2
  <2>4. readers' \in [Requests -> [on : BOOLEAN, count : Nat]]
    BY <2>2, <2>3, ReaderCounts
  <2>5. EnqueueBytes(body[r], SubSeq(uplink, fetched + 1, fetched + n)) \in Body
    BY <1>0, <2>2, UplinkPart, Enqueued
  <2>6. body' \in [Requests -> Body]
    BY <1>0, <2>2, <2>5, BodyChanges
  <2>7. fetched' \in Nat /\ taken' \in Nat /\ taken' <= fetched' /\ fetched' <= Len(uplink)
    BY <1>0, <2>2
  <2> QED BY <1>0, <2>1, <2>4, <2>6, <2>7, NetTypesFollow
<1>2. CASE BodyData(r)
  <2>1. /\ UNCHANGED <<proto, client, uplink, len, fetched, taken, half, serve>>
        /\ incoming' \in [Requests -> [data : ByteStrings, sent : Nat, end : {"open", "fin", "reset"}]]
        /\ Head(incoming[r].data) \in Nat \X Nat
    BY <1>2, ReadsData DEF input
  <2>2. MarkError(body[r]) \in Body /\ EnqueueBytes(body[r], <<Head(incoming[r].data)>>) \in Body
    <3>1. <<Head(incoming[r].data)>> \in ByteStrings /\ body[r] \in Body
      BY <1>0, <2>1 DEF ByteStrings
    <3> QED BY <3>1, Marked, Enqueued
  <2>3. body' \in [Requests -> Body]
    BY <1>2, <2>2, ReadsData, BodyChanges
  <2>4. readers' \in [Requests -> [on : BOOLEAN, count : Nat]]
    <3>1. readers[r].count + 1 \in Nat
      BY <1>0
    <3> QED BY <1>2, <3>1, ReadsData, ReaderCounts, ReaderTurns
  <2> QED BY <1>0, <2>1, <2>3, <2>4 DEF NetTypes
<1>3. CASE \/ Http1BodyDone(r) \/ Http1BodyFails(r) \/ BodyAbandoned(r) \/ BodyEnd(r) \/ BodyBroken(r)
           \/ \E why \in {"idle", "total"} : BodyTimesOut(r, why)
  <2>1. PICK c : Stops(r, c)
    BY <1>3, BodyStops
  <2>2. /\ client' \in [opened : 0..MaxRequests, gone : BOOLEAN] /\ incoming' = incoming
        /\ half' \in {"serve", "body", "returned", "gone"}
    BY <1>0, <1>3, BodyStops
  <2>3. UNCHANGED <<proto, uplink, len, fetched, taken, serve>>
    BY <2>1 DEF Stops
  <2>4. body' \in [Requests -> Body] /\ readers' \in [Requests -> [on : BOOLEAN, count : Nat]]
    BY <2>1, StopsFacts
  <2> QED BY <1>0, <2>2, <2>3, <2>4 DEF NetTypes
<1> QED BY <1>1, <1>2, <1>3 DEF Http1BodyStep, BodyStep

(* A request accepted on HTTP/2 or HTTP/3 gets a reader and is queued or   *)
(* rejected; without a registry entry it fails.                            *)
LEMMA Accepts ==
    ASSUME NetTypes, AcceptRequest
    PROVE  LET r == serve.req + 1 IN
           /\ Mux /\ serve.at = "read" /\ r \in Requests /\ r <= client.opened
           /\ serve' \in [at : Phases, req : 0..MaxRequests, keep : BOOLEAN]
           /\ serve'.req = r /\ serve'.at = serve.at
           /\ UNCHANGED <<proto, net, input, body, events, held, stream>>
           /\ \/ /\ registered.present /\ readers' = [readers EXCEPT ![r].on = TRUE]
                 /\ \/ EnqueueHttpRequest(r) /\ UNCHANGED out
                    \/ /\ resp' = [resp EXCEPT ![r] = "sent"] /\ out' = Written(r, Whole(r))
                       /\ UNCHANGED registered
              \/ /\ resp' = [resp EXCEPT ![r] = "failed"]
                 /\ UNCHANGED <<readers, registered, out>>
<1>1. serve \in [at : Phases, req : 0..MaxRequests, keep : BOOLEAN] /\ client.opened \in 0..MaxRequests
  BY DEF NetTypes
<1>2. /\ Mux /\ serve.at = "read" /\ serve.req + 1 <= client.opened
      /\ serve' = [serve EXCEPT !.req = serve.req + 1]
  BY DEF AcceptRequest, Accepting
<1>3. serve.req + 1 \in Requests
  BY <1>1, <1>2, HttpConstants DEF Requests
<1>4. /\ serve' \in [at : Phases, req : 0..MaxRequests, keep : BOOLEAN]
      /\ serve'.req = serve.req + 1 /\ serve'.at = serve.at
  BY <1>1, <1>2, <1>3, HttpConstants DEF Requests
<1> QED BY <1>2, <1>3, <1>4 DEF AcceptRequest

(* Accepting requests leaves the connection well-typed.                    *)
LEMMA AcceptTypes ==
    ASSUME NetTypes, AcceptRequest \/ AcceptEnds
    PROVE  NetTypes'
<1>1. CASE AcceptRequest
  <2>1. readers' \in [Requests -> [on : BOOLEAN, count : Nat]]
    BY <1>1, Accepts, ReaderTurns DEF NetTypes
  <2> QED BY <1>1, <2>1, Accepts DEF NetTypes, net, input
<1>2. CASE AcceptEnds
  <2>1. serve' \in [at : Phases, req : 0..MaxRequests, keep : BOOLEAN]
    BY <1>2 DEF NetTypes, AcceptEnds, Phases
  <2> QED BY <1>2, <2>1, ServeTypes DEF AcceptEnds, input, net, NetTypes
<1> QED BY <1>1, <1>2

(* Sending a response leaves what is read alone.                           *)
LEMMA SendTypes ==
    ASSUME NetTypes, NEW r \in Requests, SendStep(r)
    PROVE  /\ NetTypes'
           /\ UNCHANGED <<proto, net, fetched, taken, readers, body, registered, record, held>>
<1>1. UNCHANGED <<proto, net, fetched, taken, readers, body, registered, record, held>>
  BY DEF SendStep, SendBuffered, SendCancelled, SendStreamHead, SendFrame, SendFails, input
<1>2. AfterSend(TRUE) \/ AfterSend(FALSE) \/ UNCHANGED <<serve, half>>
  BY DEF SendStep, SendBuffered, SendCancelled, SendStreamHead, SendFrame, SendFails, input
<1>3. /\ half' \in {"serve", "body", "returned", "gone"}
      /\ serve' \in [at : Phases, req : 0..MaxRequests, keep : BOOLEAN]
  <2>1. CASE UNCHANGED <<serve, half>>
    BY <2>1 DEF NetTypes
  <2>2. CASE Continue(serve.keep)
    BY <2>2, ContinueTypes DEF NetTypes
  <2>3. CASE ServeEnds
    BY <2>3, ContinueTypes DEF NetTypes
  <2> QED BY <1>2, <2>1, <2>2, <2>3 DEF AfterSend
<1> QED BY <1>1, <1>3, ServeTypes

(* What Dart's calls do to a body. *)
Touches(r, c) ==
    /\ c \in Body /\ body' = [body EXCEPT ![r] = c] /\ Seen(c) = Seen(body[r])
    /\ c.finished = body[r].finished /\ c.error = body[r].error
    /\ body[r].asked => c.asked
    /\ c.told = "end" => body[r].told = "end" \/ (body[r].finished /\ ~body[r].error)
    /\ c.use \in {"locked", "asleep"} => c.queue = <<>> /\ ~c.finished
    /\ \/ UNCHANGED held /\ (c.use # "idle" => held[r] = "held")
       \/ held[r] = "held" /\ held' = [held EXCEPT ![r] = "released"] /\ c.use = "idle"

(* What Dart does with a request's body.                                   *)
DartReads(r) ==
    \/ StreamRead(r) \/ StreamReadStep(r, 1) \/ StreamReadWaits(r) \/ FinishBody(r) \/ ReleaseBody(r)

(* Whatever Dart does with a body, it touches it in the sense above.       *)
LEMMA DartTouches ==
    ASSUME NetTypes, Awaited, NEW r \in Requests, DartReads(r)
    PROVE  /\ \E c : Touches(r, c)
           /\ UNCHANGED <<proto, net, input, serve, readers, registered, record, resp, stream, out>>
<1> DEFINE b == body[r]
<1>0. /\ b \in Body /\ (b.use \in {"locked", "asleep"} => b.queue = <<>> /\ ~b.finished)
      /\ (b.use # "idle" => held[r] = "held")
  BY DEF NetTypes, Awaited, AwaitedAt
<1>1. CASE StreamRead(r)
  <2> DEFINE c == [b EXCEPT !.use = "check"]
  <2>1. /\ c \in Body /\ c.got = b.got /\ c.queue = b.queue /\ c.finished = b.finished
        /\ c.error = b.error /\ c.asked = b.asked /\ c.told = b.told /\ c.use = "check"
    BY <1>0 DEF Body, Uses
  <2>2. body' = [body EXCEPT ![r] = c] /\ held[r] = "held" /\ UNCHANGED held
        /\ UNCHANGED <<proto, net, input, serve, readers, registered, record, resp, stream, out>>
    BY <1>1 DEF StreamRead, dart
  <2> HIDE DEF c
  <2>3. Touches(r, c)
    BY <2>1, <2>2 DEF Touches, Seen
  <2> QED BY <2>2, <2>3
<1>2. CASE StreamReadStep(r, 1)
  <2> DEFINE c == TakeSlice(b, 1)
  <2>1. /\ c \in Body /\ Seen(c) = Seen(b) /\ c.asked = b.asked
        /\ c.finished = b.finished /\ c.error = b.error
        /\ c.told = "end" => b.told = "end" \/ (b.finished /\ ~b.error)
        /\ c.use \in {"idle", "locked"}
        /\ c.use = "locked" => c.queue = <<>> /\ ~c.finished
    BY <1>0, TakenBytes
  <2>2. body' = [body EXCEPT ![r] = c] /\ held[r] = "held" /\ UNCHANGED held
        /\ UNCHANGED <<proto, net, input, serve, readers, registered, record, resp, stream, out>>
    BY <1>0, <1>2 DEF StreamReadStep, dart
  <2> HIDE DEF c
  <2>3. Touches(r, c)
    BY <2>1, <2>2 DEF Touches
  <2> QED BY <2>2, <2>3
<1>3. CASE StreamReadWaits(r)
  <2> DEFINE c == Sleep(b)
  <2>0. c = [b EXCEPT !.use = "asleep"]
    BY DEF Sleep
  <2> HIDE DEF c
  <2>1. /\ c \in Body /\ c.got = b.got /\ c.queue = b.queue /\ c.finished = b.finished
        /\ c.error = b.error /\ c.asked = b.asked /\ c.told = b.told /\ c.use = "asleep"
    BY <1>0, <2>0 DEF Body, Uses
  <2>2. body' = [body EXCEPT ![r] = c] /\ b.use = "locked" /\ UNCHANGED held
        /\ UNCHANGED <<proto, net, input, serve, readers, registered, record, resp, stream, out>>
    BY <1>3 DEF StreamReadWaits, dart, c
  <2>3. Touches(r, c)
    BY <1>0, <2>1, <2>2 DEF Touches, Seen
  <2> QED BY <2>2, <2>3
<1>4. CASE FinishBody(r) \/ ReleaseBody(r)
  <2> DEFINE c == RequestFinish(b)
  <2>1. /\ c \in Body /\ Seen(c) = Seen(b) /\ c.asked
        /\ c.finished = b.finished /\ c.error = b.error /\ c.queue = b.queue
        /\ c.told = b.told /\ (b.use = "idle" <=> c.use = "idle")
        /\ c.use = "locked" <=> b.use = "locked"
        /\ c.use # "asleep"
    BY <1>0, Asked
  <2>2. body' = [body EXCEPT ![r] = c] /\ held[r] = "held"
        /\ UNCHANGED <<proto, net, input, serve, readers, registered, record, resp, stream, out>>
        /\ \/ UNCHANGED held
           \/ b.use = "idle" /\ held' = [held EXCEPT ![r] = "released"]
    BY <1>4 DEF FinishBody, ReleaseBody, dart, BodyShardFree
  <2> HIDE DEF c
  <2>3. Touches(r, c)
    BY <1>0, <2>1, <2>2 DEF Touches
  <2> QED BY <2>2, <2>3
<1> QED BY <1>1, <1>2, <1>3, <1>4 DEF DartReads

(* What changes when Dart touches a body.                                  *)
LEMMA TouchFacts ==
    ASSUME NetTypes, NEW r \in Requests, NEW c, Touches(r, c)
    PROVE  /\ body' \in [Requests -> Body] /\ body'[r] = c /\ body[r] \in Body
           /\ \A q \in Requests : q # r => body'[q] = body[q]
BY BodyChanges DEF Touches, NetTypes

(* The calls of Dart that leave the bodies alone. *)
DartAnswers(r) ==
    \/ Respond(r) \/ ReleaseRequest(r) \/ OpenResponseStream(r)
    \/ WriteChunk(r) \/ FinishResponseStream(r)

(* Dart's steps leave what is read well-typed.                             *)
LEMMA DartTypesHold ==
    ASSUME NetTypes, Awaited, NEW r \in Requests, DartStep(r)
    PROVE  NetTypes'
<1>1. CASE DartReads(r)
  <2>1. PICK c : Touches(r, c)
    BY <1>1, DartTouches
  <2>2. UNCHANGED <<proto, net, input, serve, readers>>
    BY <1>1, DartTouches
  <2>3. body' \in [Requests -> Body]
    BY <2>1, TouchFacts
  <2> QED BY <2>2, <2>3 DEF NetTypes, net, input
<1>2. CASE RetainBody(r) \/ DartAnswers(r)
  <2>1. UNCHANGED <<proto, net, input, serve, readers, body>>
    BY <1>2 DEF DartAnswers, RetainBody, Respond, ReleaseRequest, OpenResponseStream, WriteChunk,
       FinishResponseStream
  <2> QED BY <2>1 DEF NetTypes, net, input
<1> QED BY <1>1, <1>2 DEF DartStep, DartReads, DartAnswers

(* Every step keeps NetTypes.                                              *)
LEMMA NetTypesHold ==
    ASSUME NetTypes, UplinkSound, HalfSound, Awaited, Future, [HttpNext]_httpVars
    PROVE  NetTypes'
<1>1. CASE PeerOpens \/ PeerSendsByte \/ PeerLeaves
  BY <1>1, PeerTypes
<1>2. CASE Http1Step
  <2>1. ~Mux => len[serve.req] \in Nat \/ serve.req = 0
    BY DEF UplinkSound, Future, NetTypes
  <2> QED BY <1>2, <2>1, Http1Types
<1>3. CASE AcceptRequest \/ AcceptEnds
  BY <1>3, AcceptTypes
<1>4. CASE \E r \in Requests : Http1BodyStep(r) \/ BodyStep(r)
  BY <1>4, ReaderTypes
<1>5. CASE \E r \in Requests : SendStep(r)
  BY <1>5, SendTypes
<1>6. CASE \E r \in Requests : DartStep(r)
  BY <1>6, DartTypesHold
<1>7. CASE PollRequest \/ CloseConnection \/ UNCHANGED httpVars
  <2>1. UNCHANGED <<proto, net, input, serve, readers, body>>
    BY <1>7 DEF PollRequest, CloseConnection, httpVars, net, input
  <2> QED BY <2>1 DEF NetTypes, net, input
<1> QED BY <1>1, <1>2, <1>3, <1>4, <1>5, <1>6, <1>7 DEF HttpNext

(* The types of what Dart and the senders share. *)
LEMMA Writes ==
    ASSUME DartTypes, NEW r \in Requests, NEW x \in Requests \X Int, out' = Written(r, x)
    PROVE  /\ out' \in [Requests -> Seq(Requests \X Int)] /\ Lane(r) \in Requests
           /\ out'[Lane(r)] = Append(out[Lane(r)], x) /\ out[Lane(r)] \in Seq(Requests \X Int)
           /\ \A l \in Requests : l # Lane(r) => out'[l] = out[l]
<1>1. Lane(r) \in Requests
  BY HttpConstants DEF Lane
<1>2. out \in [Requests -> Seq(Requests \X Int)]
  BY DEF DartTypes
<1>3. Append(out[Lane(r)], x) \in Seq(Requests \X Int)
  BY <1>1, <1>2
<1>4. out' = [out EXCEPT ![Lane(r)] = Append(out[Lane(r)], x)]
  BY DEF Written
<1> QED BY <1>1, <1>2, <1>3, <1>4

(* The items of a response are items of a lane.                            *)
LEMMA Answers ==
    ASSUME NEW r \in Requests
    PROVE  /\ Whole(r) \in Requests \X Int /\ Opening(r) \in Requests \X Int
           /\ \A n \in Nat : <<r, n>> \in Requests \X Int
BY DEF Whole, Opening

(* What changes when a response moves on.                                  *)
LEMMA RespChanges ==
    ASSUME DartTypes, NEW r \in Requests, NEW x \in Underway \cup {"none", "sent", "failed"},
           resp' = [resp EXCEPT ![r] = x]
    PROVE  /\ resp' \in [Requests -> Underway \cup {"none", "sent", "failed"}] /\ resp'[r] = x
           /\ \A q \in Requests : q # r => resp'[q] = resp[q]
BY DEF DartTypes

(* set_close_reason keeps the first reason.                                *)
LEMMA Reasoned ==
    ASSUME NEW s \in Stats, NEW why \in Reasons
    PROVE  /\ SetCloseReason(s, why) \in Stats
           /\ SetCloseReason(s, why).reason = IF s.reason = "none" THEN why ELSE s.reason
BY DEF SetCloseReason, Stats

(* finish_http_connection drops the requests still queued.                 *)
Dropped == [r \in Requests |-> IF resp[r] = "queued" THEN "dropped" ELSE resp[r]]

(* What changes when the queued requests are dropped.                      *)
LEMMA Drops ==
    ASSUME DartTypes, registered' = [present |-> FALSE, pending |-> <<>>], resp' = Dropped
    PROVE  /\ registered' \in [present : BOOLEAN, pending : Seq(Requests)]
           /\ ~registered'.present /\ registered'.pending = <<>>
           /\ resp' \in [Requests -> Underway \cup {"none", "sent", "failed"}]
           /\ \A r \in Requests : resp'[r] = IF resp[r] = "queued" THEN "dropped" ELSE resp[r]
BY DEF DartTypes, Dropped, Underway

(* What changes when a request is queued.                                  *)
LEMMA Enqueues ==
    ASSUME DartTypes, NEW r \in Requests, EnqueueHttpRequest(r)
    PROVE  /\ registered' \in [present : BOOLEAN, pending : Seq(Requests)]
           /\ registered'.present = registered.present
           /\ registered'.pending = Append(registered.pending, r)
           /\ registered.pending \in Seq(Requests)
           /\ resp' \in [Requests -> Underway \cup {"none", "sent", "failed"}] /\ resp'[r] = "queued"
           /\ \A q \in Requests : q # r => resp'[q] = resp[q]
<1>1. registered \in [present : BOOLEAN, pending : Seq(Requests)]
  BY DEF DartTypes
<1>2. Append(registered.pending, r) \in Seq(Requests) /\ registered.pending \in Seq(Requests)
  BY <1>1
<1>3. registered' = [registered EXCEPT !.pending = Append(registered.pending, r)]
  BY DEF EnqueueHttpRequest
<1>4. /\ registered' \in [present : BOOLEAN, pending : Seq(Requests)]
      /\ registered'.present = registered.present
      /\ registered'.pending = Append(registered.pending, r)
  BY <1>1, <1>2, <1>3
<1> QED BY <1>2, <1>4, RespChanges DEF EnqueueHttpRequest, Underway

(* A response ends: what its stream becomes. *)
StreamEnds(r) == stream' = [stream EXCEPT ![r].queue = <<>>, ![r].reading = FALSE]

(* What changes when a response stream is no longer read.                  *)
LEMMA StreamEnded ==
    ASSUME DartTypes, NEW r \in Requests, StreamEnds(r)
    PROVE  /\ stream' \in [Requests -> [queue : Seq(Nat), writer : BOOLEAN, reading : BOOLEAN,
                                        made : Nat]]
           /\ \A q \in Requests : Len(stream'[q].queue) <= StreamBuffer
           /\ ~stream'[r].reading /\ stream'[r].made = stream[r].made
           /\ stream'[r].writer = stream[r].writer
           /\ \A q \in Requests : q # r => stream'[q] = stream[q]
<1>1. <<>> \in Seq(Nat) /\ Len(<<>>) <= StreamBuffer
  BY HttpConstants
<1> QED BY <1>1 DEF DartTypes, StreamEnds

(* What changes when one response stream changes.                          *)
LEMMA StreamChanges ==
    ASSUME DartTypes, NEW r \in Requests,
           NEW s \in [queue : Seq(Nat), writer : BOOLEAN, reading : BOOLEAN, made : Nat],
           Len(s.queue) <= StreamBuffer, stream' = [stream EXCEPT ![r] = s]
    PROVE  /\ stream' \in [Requests -> [queue : Seq(Nat), writer : BOOLEAN, reading : BOOLEAN,
                                        made : Nat]]
           /\ \A q \in Requests : Len(stream'[q].queue) <= StreamBuffer
           /\ stream'[r] = s /\ \A q \in Requests : q # r => stream'[q] = stream[q]
BY DEF DartTypes

(* What the steps of a stream do to it. *)
LEMMA Opens ==
    ASSUME DartTypes, NEW r \in Requests, OpenResponseStream(r)
    PROVE  LET s == stream'[r] IN
           /\ s \in [queue : Seq(Nat), writer : BOOLEAN, reading : BOOLEAN, made : Nat]
           /\ s.queue = <<>> /\ s.writer /\ s.reading /\ s.made = 0 /\ Len(s.queue) = 0
           /\ stream' = [stream EXCEPT ![r] = s]
           /\ resp[r] = "polled" /\ resp' = [resp EXCEPT ![r] = "streaming"]
           /\ UNCHANGED <<proto, net, input, serve, readers, body, registered, record, held, out>>
<1> DEFINE s == [NewStream EXCEPT !.writer = TRUE, !.reading = TRUE]
<1>1. /\ s.queue = <<>> /\ s.writer /\ s.reading /\ s.made = 0 /\ Len(s.queue) = 0
      /\ s \in [queue : Seq(Nat), writer : BOOLEAN, reading : BOOLEAN, made : Nat]
  <2>1. /\ NewStream \in [queue : Seq(Nat), writer : BOOLEAN, reading : BOOLEAN, made : Nat]
        /\ NewStream.queue = <<>> /\ NewStream.made = 0
    BY DEF NewStream
  <2>2. /\ s \in [queue : Seq(Nat), writer : BOOLEAN, reading : BOOLEAN, made : Nat]
        /\ s.queue = NewStream.queue /\ s.made = NewStream.made /\ s.writer = TRUE /\ s.reading = TRUE
    BY <2>1
  <2> QED BY <2>1, <2>2
<1>2. stream' = [stream EXCEPT ![r] = s]
  BY DEF OpenResponseStream
<1> HIDE DEF s
<1>3. stream'[r] = s
  BY <1>2 DEF DartTypes
<1> QED BY <1>1, <1>2, <1>3 DEF OpenResponseStream

(* A chunk Dart writes goes to the end of the channel, which has room for  *)
(* it.                                                                     *)
LEMMA WritesChunk ==
    ASSUME DartTypes, NEW r \in Requests, WriteChunk(r)
    PROVE  LET s == stream'[r] IN
           /\ s \in [queue : Seq(Nat), writer : BOOLEAN, reading : BOOLEAN, made : Nat]
           /\ s.queue = Append(stream[r].queue, s.made) /\ s.made = stream[r].made + 1
           /\ s.writer /\ s.reading /\ stream[r].reading /\ stream[r].writer
           /\ Len(s.queue) <= StreamBuffer /\ Len(s.queue) = Len(stream[r].queue) + 1
           /\ stream' = [stream EXCEPT ![r] = s]
           /\ UNCHANGED <<proto, net, input, serve, readers, body, registered, record, held, resp, out>>
<1> DEFINE t == stream[r]
           s == [t EXCEPT !.queue = Append(t.queue, t.made + 1), !.made = t.made + 1]
<1>1. /\ t \in [queue : Seq(Nat), writer : BOOLEAN, reading : BOOLEAN, made : Nat]
      /\ Len(t.queue) < StreamBuffer /\ t.writer /\ t.reading
  BY DEF WriteChunk, DartTypes, Room
<1>2. /\ Append(t.queue, t.made + 1) \in Seq(Nat) /\ t.made + 1 \in Nat
      /\ Len(Append(t.queue, t.made + 1)) = Len(t.queue) + 1 /\ Len(t.queue) \in Nat
  BY <1>1
<1>3. stream' = [stream EXCEPT ![r] = s]
  BY DEF WriteChunk
<1>4. /\ s \in [queue : Seq(Nat), writer : BOOLEAN, reading : BOOLEAN, made : Nat]
      /\ s.queue = Append(t.queue, t.made + 1) /\ s.made = t.made + 1 /\ s.writer /\ s.reading
  BY <1>1, <1>2
<1> HIDE DEF s
<1>5. stream'[r] = s
  BY <1>3 DEF DartTypes
<1>6. Len(s.queue) <= StreamBuffer
  BY <1>1, <1>2, <1>4, HttpConstants
<1> QED BY <1>1, <1>2, <1>3, <1>4, <1>5, <1>6 DEF WriteChunk

(* Finishing a response stream puts its end into the channel, when someone *)
(* reads it, and ends the writer.                                          *)
LEMMA FinishesStream ==
    ASSUME DartTypes, NEW r \in Requests, FinishResponseStream(r)
    PROVE  LET s == stream'[r] IN
           /\ s \in [queue : Seq(Nat), writer : BOOLEAN, reading : BOOLEAN, made : Nat]
           /\ s.queue = IF stream[r].reading THEN Append(stream[r].queue, Finished) ELSE stream[r].queue
           /\ s.made = stream[r].made /\ ~s.writer /\ stream[r].writer /\ s.reading = stream[r].reading
           /\ Len(s.queue) <= StreamBuffer
           /\ stream' = [stream EXCEPT ![r] = s]
           /\ UNCHANGED <<proto, net, input, serve, readers, body, registered, record, held, resp, out>>
<1> DEFINE t == stream[r]
           q == IF t.reading THEN Append(t.queue, Finished) ELSE t.queue
           s == [t EXCEPT !.writer = FALSE, !.queue = q]
<1>1. /\ t \in [queue : Seq(Nat), writer : BOOLEAN, reading : BOOLEAN, made : Nat]
      /\ (~t.reading \/ Len(t.queue) < StreamBuffer) /\ t.writer /\ Len(t.queue) <= StreamBuffer
  BY DEF FinishResponseStream, DartTypes, Room
<1>2. /\ q \in Seq(Nat) /\ Len(q) <= StreamBuffer
  BY <1>1, HttpConstants DEF Finished
<1>3. stream' = [stream EXCEPT ![r] = s]
  BY DEF FinishResponseStream
<1> HIDE DEF q
<1>4. /\ s \in [queue : Seq(Nat), writer : BOOLEAN, reading : BOOLEAN, made : Nat]
      /\ s.queue = q /\ s.made = t.made /\ ~s.writer /\ s.reading = t.reading
  BY <1>1, <1>2
<1> HIDE DEF s
<1>5. stream'[r] = s
  BY <1>3 DEF DartTypes
<1> QED BY <1>1, <1>2, <1>3, <1>4, <1>5 DEF FinishResponseStream, q

(* Sending a chunk takes it off the channel; sending the end ends the      *)
(* response.                                                               *)
LEMMA SendsFrame ==
    ASSUME DartTypes, NEW r \in Requests, SendFrame(r)
    PROVE  LET frame == Head(stream[r].queue) IN
           /\ Sender(r) /\ resp[r] = "chunks" /\ frame \in Nat /\ frame = stream[r].queue[1]
           /\ Len(stream[r].queue) \in Nat \ {0}
           /\ out' = Written(r, <<r, frame>>)
           /\ \/ /\ frame = Finished /\ resp' = [resp EXCEPT ![r] = "sent"]
                 /\ StreamEnds(r) /\ AfterSend(TRUE)
              \/ /\ frame # Finished /\ UNCHANGED <<resp, serve, half>>
                 /\ LET s == stream'[r] IN
                    /\ s \in [queue : Seq(Nat), writer : BOOLEAN, reading : BOOLEAN, made : Nat]
                    /\ s.queue = Tail(stream[r].queue) /\ s.made = stream[r].made
                    /\ s.writer = stream[r].writer /\ s.reading = stream[r].reading
                    /\ Len(s.queue) = Len(stream[r].queue) - 1
                    /\ \A i \in 1..(Len(stream[r].queue) - 1) : s.queue[i] = stream[r].queue[i + 1]
                    /\ stream' = [stream EXCEPT ![r] = s]
<1> DEFINE t == stream[r]
           s == [t EXCEPT !.queue = Tail(t.queue)]
<1>1. /\ t \in [queue : Seq(Nat), writer : BOOLEAN, reading : BOOLEAN, made : Nat]
      /\ t.queue # <<>> /\ Sender(r) /\ resp[r] = "chunks"
      /\ out' = Written(r, <<r, Head(t.queue)>>)
  BY DEF SendFrame, DartTypes
<1>2. /\ Tail(t.queue) \in Seq(Nat) /\ Head(t.queue) \in Nat /\ Head(t.queue) = t.queue[1]
      /\ Len(t.queue) \in Nat \ {0} /\ Len(Tail(t.queue)) = Len(t.queue) - 1
      /\ \A i \in 1..(Len(t.queue) - 1) : Tail(t.queue)[i] = t.queue[i + 1]
  BY <1>1
<1>3. CASE Head(t.queue) = Finished
  BY <1>1, <1>2, <1>3 DEF SendFrame, StreamEnds
<1>4. CASE Head(t.queue) # Finished
  <2>1. stream' = [stream EXCEPT ![r] = s] /\ UNCHANGED <<resp, serve, half>>
    BY <1>4 DEF SendFrame
  <2>2. /\ s \in [queue : Seq(Nat), writer : BOOLEAN, reading : BOOLEAN, made : Nat]
        /\ s.queue = Tail(t.queue) /\ s.made = t.made /\ s.writer = t.writer /\ s.reading = t.reading
    BY <1>1, <1>2
  <2> HIDE DEF s
  <2>3. stream'[r] = s
    BY <2>1 DEF DartTypes
  <2> QED BY <1>1, <1>2, <1>4, <2>1, <2>2, <2>3
<1> QED BY <1>3, <1>4

(* The statistics and the event. *)
OneEventStep ==
    /\ Len(events') <= 1
    /\ events' # events => registered.present /\ ~registered'.present
    /\ registered.present /\ ~registered'.present /\ serve' # serve => events' # events
    /\ stats.reason # "none" => stats'.reason = stats.reason
    /\ events' # events /\ stats.reason # "none" => events'[1].reason = stats.reason

(* finish_http_connection: the entry goes, and an entry that was there     *)
(* leaves one event.                                                       *)
Finishes(s, why) ==
    /\ registered' = [present |-> FALSE, pending |-> <<>>] /\ resp' = Dropped
    /\ events' = IF registered.present THEN Append(events, SetCloseReason(s, why)) ELSE events
    /\ s \in Stats /\ why \in Reasons /\ (stats.reason # "none" => s.reason = stats.reason)

(* Accepting ends with finish_http_connection.                             *)
LEMMA EndsAccepting ==
    ASSUME DartTypes, AcceptEnds
    PROVE  /\ \E s, why : Finishes(s, why)
           /\ Mux /\ serve.at = "read" /\ serve' = [serve EXCEPT !.at = "ended"]
           /\ UNCHANGED <<proto, net, input, readers, body, stats, held, stream, out>>
<1>1. stats \in Stats
  BY DEF DartTypes
<1>2. /\ Mux /\ serve.at = "read" /\ serve' = [serve EXCEPT !.at = "ended"]
      /\ UNCHANGED <<proto, net, input, readers, body, stats, held, stream, out>>
  BY DEF AcceptEnds, Accepting
<1>3. CASE FinishHttpConnection(stats, "graceful")
  <2>1. Finishes(stats, "graceful")
    BY <1>1, <1>3 DEF FinishHttpConnection, Finishes, Dropped, Reasons
  <2> QED BY <1>2, <2>1
<1>4. CASE FinishHttpConnection(SetCloseReason(stats, "goaway"), "goaway")
  <2> DEFINE s == SetCloseReason(stats, "goaway")
  <2>1. s \in Stats /\ (stats.reason # "none" => s.reason = stats.reason)
    BY <1>1, Reasoned DEF Reasons
  <2>2. Finishes(s, "goaway")
    BY <1>4, <2>1 DEF FinishHttpConnection, Finishes, Dropped, Reasons
  <2> QED BY <1>2, <2>2
<1>5. CASE FinishHttpConnection(SetCloseReason(stats, "protocol"), "protocol")
  <2> DEFINE s == SetCloseReason(stats, "protocol")
  <2>1. s \in Stats /\ (stats.reason # "none" => s.reason = stats.reason)
    BY <1>1, Reasoned DEF Reasons
  <2>2. Finishes(s, "protocol")
    BY <1>5, <2>1 DEF FinishHttpConnection, Finishes, Dropped, Reasons
  <2> QED BY <1>2, <2>2
<1> QED BY <1>3, <1>4, <1>5 DEF AcceptEnds

(* Every step keeps the connection's record: one event at most, with the   *)
(* first reason set.                                                       *)
LEMMA Records ==
    ASSUME NetTypes, Awaited, DartTypes, EventsSound, [HttpNext]_httpVars
    PROVE  /\ stats' \in Stats /\ events' \in Seq(Stats) /\ EventsSound' /\ OneEventStep
<1>0. stats \in Stats /\ events \in Seq(Stats) /\ Len(events) \in Nat
      /\ registered \in [present : BOOLEAN, pending : Seq(Requests)]
  BY DEF DartTypes
<1>1. ASSUME UNCHANGED record, registered'.present => registered.present,
             registered'.present \/ ~registered.present \/ UNCHANGED serve
      PROVE  /\ stats' \in Stats /\ events' \in Seq(Stats) /\ EventsSound' /\ OneEventStep
  BY <1>0, <1>1 DEF record, EventsSound, OneEventStep
<1>2. CASE UNCHANGED <<record, registered>>
  BY <1>1, <1>2
<1>3. CASE PollRequest \/ CloseConnection
  BY <1>0, <1>1, <1>3 DEF PollRequest, CloseConnection
<1>4. CASE RouteResolved
  BY <1>0, <1>1, <1>4 DEF RouteResolved, EnqueueHttpRequest
<1>5. CASE AcceptRequest
  <2>1. stats' \in Stats /\ stats'.reason = stats.reason
    <3>1. Depth \in Nat
      <4>1. Len(registered.pending) \in Nat
        BY <1>0
      <4> QED BY <4>1 DEF Depth
    <3>2. stats.requests + 1 \in Nat /\ Deeper(Depth, stats.depth) \in Nat
      BY <1>0, <3>1 DEF Deeper, Stats
    <3> QED BY <1>0, <1>5, <3>2 DEF AcceptRequest, Stats
  <2>2. UNCHANGED events /\ registered'.present = registered.present
    BY <1>0, <1>5 DEF AcceptRequest, EnqueueHttpRequest
  <2> QED BY <1>0, <2>1, <2>2 DEF EventsSound, OneEventStep
<1>6. CASE AcceptEnds
  <2>1. PICK s, why : Finishes(s, why)
    BY <1>6, EndsAccepting
  <2> DEFINE e == SetCloseReason(s, why)
  <2>2. e \in Stats /\ (stats.reason # "none" => e.reason = stats.reason)
    BY <2>1, Reasoned DEF Finishes
  <2>3. UNCHANGED stats /\ ~registered'.present
        /\ events' = IF registered.present THEN Append(events, e) ELSE events
    BY <1>6, <2>1, EndsAccepting DEF Finishes
  <2> HIDE DEF e
  <2>4. CASE registered.present
    <3>1. events = <<>>
      BY <2>4 DEF EventsSound
    <3>2. events' = <<e>>
      BY <2>3, <2>4, <3>1
    <3> QED BY <1>0, <2>2, <2>3, <2>4, <3>1, <3>2 DEF EventsSound, OneEventStep
  <2>5. CASE ~registered.present
    BY <1>0, <2>3, <2>5 DEF EventsSound, OneEventStep
  <2> QED BY <2>4, <2>5
<1>7. CASE \E r \in Requests : BodyBroken(r) \/ \E why \in {"idle", "total"} : BodyTimesOut(r, why)
  <2>1. UNCHANGED <<events, registered>> /\ \E why \in Reasons : stats' = SetCloseReason(stats, why)
    BY <1>7 DEF BodyBroken, BodyTimesOut, Reasons
  <2>2. stats' \in Stats /\ (stats.reason # "none" => stats'.reason = stats.reason)
    BY <1>0, <2>1, Reasoned
  <2> QED BY <1>0, <2>1, <2>2 DEF EventsSound, OneEventStep
<1>8. CASE PeerOpens \/ PeerSendsByte \/ PeerLeaves
  BY <1>2, <1>8 DEF PeerOpens, PeerSendsByte, PeerLeaves
<1>9. CASE Http1Step /\ ~RouteResolved
  BY <1>2, <1>9 DEF Http1Step, FillBuf, ReadHead, ReadInline, StartBody, RouteRejected, RejectionFails,
     ReadEnds, ResponseCancelled, Reclaim
<1>10. CASE \E r \in Requests : Http1BodyStep(r)
  BY <1>2, <1>10 DEF Http1BodyStep, Http1BodyRead, Http1BodyDone, Http1BodyFails
<1>11. CASE \E r \in Requests : BodyAbandoned(r) \/ BodyData(r) \/ BodyEnd(r)
  BY <1>2, <1>11 DEF BodyAbandoned, BodyData, BodyEnd
<1>12. CASE \E r \in Requests : SendStep(r)
  BY <1>2, <1>12, SendTypes
<1>13. CASE \E r \in Requests : DartStep(r)
  <2>1. PICK r \in Requests : DartStep(r)
    BY <1>13
  <2>2. CASE DartReads(r)
    BY <1>2, <2>2, DartTouches
  <2>3. CASE RetainBody(r) \/ DartAnswers(r)
    BY <1>2, <2>3 DEF DartAnswers, RetainBody, Respond, ReleaseRequest, OpenResponseStream, WriteChunk,
       FinishResponseStream
  <2> QED BY <2>1, <2>2, <2>3 DEF DartStep, DartReads, DartAnswers
<1>14. CASE UNCHANGED httpVars
  BY <1>2, <1>14 DEF httpVars, record
<1> QED BY <1>3, <1>4, <1>5, <1>6, <1>7, <1>8, <1>9, <1>10, <1>11, <1>12, <1>13, <1>14
     DEF HttpNext, BodyStep

(* Polling takes the request that waited longest.                          *)
LEMMA Polls ==
    ASSUME DartTypes, PollRequest
    PROVE  LET r == registered.pending[1] IN
           /\ registered.present /\ registered'.present /\ r \in Requests
           /\ registered' \in [present : BOOLEAN, pending : Seq(Requests)]
           /\ Len(registered.pending) \in Nat \ {0} /\ Len(registered'.pending) = Len(registered.pending) - 1
           /\ \A i \in 1..(Len(registered.pending) - 1) : registered'.pending[i] = registered.pending[i + 1]
           /\ resp' = [resp EXCEPT ![r] = "polled"]
           /\ UNCHANGED <<proto, net, input, serve, readers, body, record, held, stream, out>>
<1> DEFINE p == registered.pending
<1>1. /\ registered \in [present : BOOLEAN, pending : Seq(Requests)] /\ p # <<>> /\ registered.present
      /\ registered' = [registered EXCEPT !.pending = Tail(p)]
      /\ resp' = [resp EXCEPT ![Head(p)] = "polled"]
      /\ UNCHANGED <<proto, net, input, serve, readers, body, record, held, stream, out>>
  BY DEF DartTypes, PollRequest
<1>2. /\ p \in Seq(Requests) /\ Head(p) = p[1] /\ p[1] \in Requests /\ Tail(p) \in Seq(Requests)
      /\ Len(p) \in Nat \ {0} /\ Len(Tail(p)) = Len(p) - 1
      /\ \A i \in 1..(Len(p) - 1) : Tail(p)[i] = p[i + 1]
  BY <1>1
<1>3. registered' \in [present : BOOLEAN, pending : Seq(Requests)] /\ registered'.pending = Tail(p)
      /\ registered'.present = registered.present
  BY <1>1, <1>2
<1> QED BY <1>1, <1>2, <1>3

(* The types of what a response task and Dart both change.                 *)
Shared ==
    /\ registered \in [present : BOOLEAN, pending : Seq(Requests)]
    /\ held \in [Requests -> {"none", "held", "released"}]
    /\ resp \in [Requests -> Underway \cup {"none", "sent", "failed"}]
    /\ stream \in [Requests -> [queue : Seq(Nat), writer : BOOLEAN, reading : BOOLEAN, made : Nat]]
    /\ \A r \in Requests : Len(stream[r].queue) <= StreamBuffer
    /\ out \in [Requests -> Seq(Requests \X Int)]

(* A response task's steps keep the types of what it shares with Dart.     *)
LEMMA SendsShared ==
    ASSUME NetTypes, DartTypes, NEW r \in Requests, SendStep(r)
    PROVE  Shared'
<1>0. Shared
  BY DEF DartTypes, Shared
<1>1. UNCHANGED <<registered, held>>
  BY SendTypes
<1>2. {"sent", "failed", "chunks"} \subseteq Underway \cup {"none", "sent", "failed"}
  BY DEF Underway
<1>3. CASE SendBuffered(r) \/ SendStreamHead(r) \/ SendCancelled(r)
  <2>1. UNCHANGED stream
    BY <1>3 DEF SendBuffered, SendStreamHead, SendCancelled
  <2>2. \E x \in {"sent", "failed", "chunks"} : resp' = [resp EXCEPT ![r] = x]
    BY <1>3 DEF SendBuffered, SendStreamHead, SendCancelled
  <2>3. out' = out \/ \E x \in {Whole(r), Opening(r)} : out' = Written(r, x)
    BY <1>3 DEF SendBuffered, SendStreamHead, SendCancelled
  <2>4. out' \in [Requests -> Seq(Requests \X Int)]
    BY <1>0, <2>3, Writes, Answers DEF Shared
  <2>5. resp' \in [Requests -> Underway \cup {"none", "sent", "failed"}]
    BY <1>2, <2>2, RespChanges
  <2> QED BY <1>0, <1>1, <2>1, <2>4, <2>5 DEF Shared
<1>4. CASE SendFrame(r)
  <2>1. out' \in [Requests -> Seq(Requests \X Int)]
    <3>1. Head(stream[r].queue) \in Nat /\ out' = Written(r, <<r, Head(stream[r].queue)>>)
      BY <1>4, SendsFrame
    <3>2. <<r, Head(stream[r].queue)>> \in Requests \X Int
      BY <3>1, Answers
    <3> QED BY <3>1, <3>2, Writes
  <2>2. resp' \in [Requests -> Underway \cup {"none", "sent", "failed"}]
    BY <1>0, <1>2, <1>4, SendsFrame, RespChanges DEF Shared
  <2>3. CASE StreamEnds(r)
    BY <1>0, <1>1, <2>1, <2>2, <2>3, StreamEnded DEF Shared
  <2>4. CASE ~StreamEnds(r)
    <3> DEFINE s == stream'[r]
    <3>1. /\ s \in [queue : Seq(Nat), writer : BOOLEAN, reading : BOOLEAN, made : Nat]
          /\ Len(s.queue) = Len(stream[r].queue) - 1 /\ Len(stream[r].queue) \in Nat
          /\ stream' = [stream EXCEPT ![r] = s]
      BY <1>4, <2>4, SendsFrame
    <3>2. Len(s.queue) <= StreamBuffer
      BY <1>0, <3>1, HttpConstants DEF Shared
    <3> HIDE DEF s
    <3>3. /\ stream' \in [Requests -> [queue : Seq(Nat), writer : BOOLEAN, reading : BOOLEAN, made : Nat]]
          /\ \A q \in Requests : Len(stream'[q].queue) <= StreamBuffer
      BY <3>1, <3>2, StreamChanges
    <3> QED BY <1>0, <1>1, <2>1, <2>2, <3>3 DEF Shared
  <2> QED BY <2>3, <2>4
<1>5. CASE SendFails(r)
  <2>1. resp' = [resp EXCEPT ![r] = "failed"] /\ StreamEnds(r) /\ UNCHANGED out
    BY <1>5 DEF SendFails, StreamEnds
  <2>2. resp' \in [Requests -> Underway \cup {"none", "sent", "failed"}]
    BY <1>2, <2>1, RespChanges
  <2> QED BY <1>0, <1>1, <2>1, <2>2, StreamEnded DEF Shared
<1> QED BY <1>3, <1>4, <1>5 DEF SendStep

(* So do Dart's.                                                           *)
LEMMA DartShared ==
    ASSUME NetTypes, DartTypes, Awaited, NEW r \in Requests, DartStep(r)
    PROVE  Shared'
<1>0. Shared
  BY DEF DartTypes, Shared
<1>1. CASE DartReads(r)
  <2>1. PICK c : Touches(r, c)
    BY <1>1, DartTouches
  <2>2. held' \in [Requests -> {"none", "held", "released"}]
    BY <1>0, <2>1 DEF Touches, Shared
  <2>3. UNCHANGED <<registered, resp, stream, out>>
    BY <1>1, DartTouches
  <2> QED BY <1>0, <2>2, <2>3 DEF Shared
<1>2. CASE RetainBody(r)
  BY <1>0, <1>2 DEF RetainBody, Shared
<1>3. CASE Respond(r) \/ ReleaseRequest(r)
  BY <1>0, <1>3 DEF Respond, ReleaseRequest, Shared, Underway
<1>4. CASE OpenResponseStream(r) \/ WriteChunk(r) \/ FinishResponseStream(r)
  <2> DEFINE s == stream'[r]
  <2>1. /\ s \in [queue : Seq(Nat), writer : BOOLEAN, reading : BOOLEAN, made : Nat]
        /\ Len(s.queue) <= StreamBuffer
        /\ stream' = [stream EXCEPT ![r] = s]
        /\ UNCHANGED <<registered, held, out>>
    <3>1. 0 <= StreamBuffer
      BY HttpConstants
    <3> QED BY <1>4, <3>1, Opens, WritesChunk, FinishesStream
  <2>2. UNCHANGED resp \/ resp' = [resp EXCEPT ![r] = "streaming"]
    BY <1>4, Opens, WritesChunk, FinishesStream
  <2>3. resp' \in [Requests -> Underway \cup {"none", "sent", "failed"}]
    BY <1>0, <2>2 DEF Shared, Underway
  <2> HIDE DEF s
  <2>4. /\ stream' \in [Requests -> [queue : Seq(Nat), writer : BOOLEAN, reading : BOOLEAN, made : Nat]]
        /\ \A q \in Requests : Len(stream'[q].queue) <= StreamBuffer
    BY <2>1, StreamChanges
  <2> QED BY <1>0, <2>1, <2>3, <2>4 DEF Shared
<1> QED BY <1>1, <1>2, <1>3, <1>4 DEF DartStep, DartReads

(* Every step keeps DartTypes.                                             *)
LEMMA DartTypesStay ==
    ASSUME NetTypes, DartTypes, HalfSound, Awaited, EventsSound, [HttpNext]_httpVars
    PROVE  DartTypes'
<1>0. Shared
  BY DEF DartTypes, Shared
<1> SUFFICES Shared'
  BY Records DEF DartTypes, Shared
<1>1. CASE UNCHANGED <<registered, dart, out>>
  BY <1>0, <1>1 DEF Shared, dart
<1>2. CASE PeerOpens \/ PeerSendsByte \/ PeerLeaves
  BY <1>1, <1>2 DEF PeerOpens, PeerSendsByte, PeerLeaves
<1>3. CASE FillBuf \/ ReadHead \/ ReadInline \/ StartBody \/ ReadEnds \/ Reclaim
  BY <1>1, <1>3 DEF FillBuf, ReadHead, ReadInline, StartBody, ReadEnds, Reclaim
<1>4. CASE RouteResolved
  <2>1. serve.req \in Requests /\ UNCHANGED <<held, stream, out>>
    BY <1>4, Serving DEF RouteResolved, At
  <2>2. CASE EnqueueHttpRequest(serve.req)
    BY <1>0, <2>1, <2>2, Enqueues DEF Shared
  <2>3. CASE UNCHANGED <<registered, resp>>
    BY <1>0, <2>1, <2>3 DEF Shared
  <2> QED BY <1>4, <2>2, <2>3 DEF RouteResolved
<1>5. CASE RouteRejected \/ ResponseCancelled
  <2>1. serve.req \in Requests /\ UNCHANGED <<registered, held, stream>>
    BY <1>5, Serving DEF RouteRejected, ResponseCancelled, At
  <2>2. out' = Written(serve.req, Whole(serve.req)) /\ resp' = [resp EXCEPT ![serve.req] = "sent"]
    BY <1>5 DEF RouteRejected, ResponseCancelled
  <2> QED BY <1>0, <2>1, <2>2, Writes, Answers, RespChanges DEF Shared
<1>6. CASE RejectionFails
  BY <1>0, <1>6, RespChanges DEF Shared, RejectionFails
<1>7. CASE AcceptRequest
  <2> DEFINE r == serve.req + 1
  <2>1. r \in Requests /\ UNCHANGED <<held, stream>>
    BY <1>7, Accepts
  <2>2. CASE EnqueueHttpRequest(r) /\ UNCHANGED out
    BY <1>0, <2>1, <2>2, Enqueues DEF Shared
  <2>3. CASE resp' = [resp EXCEPT ![r] = "sent"] /\ out' = Written(r, Whole(r)) /\ UNCHANGED registered
    <3>1. out' \in [Requests -> Seq(Requests \X Int)]
      <4> HIDE DEF r
      <4> QED BY <2>1, <2>3, Writes, Answers
    <3>2. resp' \in [Requests -> Underway \cup {"none", "sent", "failed"}]
      <4> HIDE DEF r
      <4> QED BY <2>1, <2>3, RespChanges
    <3> QED BY <1>0, <2>1, <2>3, <3>1, <3>2 DEF Shared
  <2>4. CASE resp' = [resp EXCEPT ![r] = "failed"] /\ UNCHANGED <<registered, out>>
    BY <1>0, <2>1, <2>4, RespChanges DEF Shared
  <2> QED BY <1>7, <2>2, <2>3, <2>4, Accepts
<1>8. CASE AcceptEnds
  BY <1>0, <1>8, EndsAccepting, Drops DEF Finishes, Shared
<1>9. CASE \E r \in Requests : Http1BodyStep(r) \/ BodyStep(r)
  BY <1>1, <1>9 DEF Http1BodyStep, BodyStep, Http1BodyRead, Http1BodyDone, Http1BodyFails, BodyAbandoned,
     BodyData, BodyEnd, BodyBroken, BodyTimesOut
<1>10. CASE \E r \in Requests : SendStep(r)
  BY <1>10, SendsShared
<1>11. CASE \E r \in Requests : DartStep(r)
  BY <1>11, DartShared
<1>12. CASE PollRequest
  BY <1>0, <1>12, Polls, RespChanges DEF Shared, Underway
<1>13. CASE CloseConnection
  BY <1>0, <1>13, Drops DEF Shared, CloseConnection, Dropped
<1>14. CASE UNCHANGED httpVars
  BY <1>1, <1>14 DEF httpVars, dart
<1> QED BY <1>2, <1>3, <1>4, <1>5, <1>6, <1>7, <1>8, <1>9, <1>10, <1>11, <1>12, <1>13, <1>14
     DEF HttpNext, Http1Step

(* What the peer has sent. *)
LEMMA UplinkKept ==
    ASSUME UplinkSound, UNCHANGED <<proto, uplink, len>>, client'.opened = client.opened
    PROVE  UplinkSound'
BY DEF UplinkSound, Mux

(* The peer goes on with the request it has begun before it begins         *)
(* another.                                                                *)
LEMMA UplinkGrows ==
    ASSUME NetTypes, UplinkSound, PeerOpens \/ PeerSendsByte
    PROVE  UplinkSound'
<1>0. /\ uplink \in ByteStrings /\ Len(uplink) \in Nat /\ DOMAIN uplink = 1..Len(uplink)
      /\ \A i \in 1..Len(uplink) : uplink[i] \in Nat \X Nat
      /\ client.opened \in Nat /\ client.opened <= MaxRequests
      /\ len \in [Requests -> Nat \cup {Unknown}]
  BY UplinkTypes DEF NetTypes
<1>1. /\ \A i \in 1..Len(uplink) : /\ uplink[i][1] \in 1..client.opened
                                   /\ uplink[i][2] <= len[uplink[i][1]]
      /\ \A i \in 1..(Len(uplink) - 1) :
            uplink[i + 1] = IF uplink[i][2] = len[uplink[i][1]]
                            THEN <<uplink[i][1] + 1, 0>>
                            ELSE <<uplink[i][1], uplink[i][2] + 1>>
      /\ uplink # <<>> => uplink[1] = <<1, 0>> /\ uplink[Len(uplink)][1] = client.opened
      /\ ~Mux /\ uplink = <<>> => client.opened = 0
      /\ ~Mux => \A r \in 1..client.opened : len[r] \in Nat
      /\ Mux => uplink = <<>>
  BY <1>0 DEF UplinkSound
<1>2. CASE PeerOpens /\ Mux
  <2>1. uplink' = uplink /\ uplink = <<>> /\ UNCHANGED proto
    BY <1>1, <1>2, OpensOne DEF PeerOpens
  <2>2. Len(<<>>) = 0 /\ DOMAIN <<>> = {}
    OBVIOUS
  <2> QED BY <1>2, <2>1, <2>2 DEF UplinkSound, Mux
<1>3. CASE ~Mux
  <2>1. /\ UNCHANGED proto /\ client'.opened \in Nat
        /\ client'.opened \in {client.opened, client.opened + 1} /\ client'.opened > 0
    BY <1>0, <1>3, OpensOne DEF PeerOpens, PeerSendsByte
  <2> DEFINE b == uplink'[Len(uplink) + 1]
  <2>2. /\ uplink' \in ByteStrings /\ Len(uplink') = Len(uplink) + 1 /\ uplink' # <<>>
        /\ DOMAIN uplink' = 1..(Len(uplink) + 1)
        /\ \A i \in 1..Len(uplink) : uplink'[i] = uplink[i]
        /\ b[1] = client'.opened /\ b[2] <= len'[b[1]]
        /\ IF uplink = <<>> THEN b = <<1, 0>>
           ELSE b = IF uplink[Len(uplink)][2] = len[uplink[Len(uplink)][1]]
                    THEN <<uplink[Len(uplink)][1] + 1, 0>>
                    ELSE <<uplink[Len(uplink)][1], uplink[Len(uplink)][2] + 1>>
    <3>1. CASE PeerOpens
      <4>1. /\ uplink' = Append(uplink, <<client.opened + 1, 0>>) /\ client'.opened = client.opened + 1
            /\ client.opened > 0 => SentOfLast = len[client.opened]
            /\ len'[client.opened + 1] \in Nat
        BY <1>3, <3>1, OpensOne
      <4>2. <<client.opened + 1, 0>> \in Nat \X Nat
        BY <1>0
      <4>3. /\ uplink' \in ByteStrings /\ Len(uplink') = Len(uplink) + 1
            /\ b = <<client.opened + 1, 0>>
            /\ \A i \in 1..Len(uplink) : uplink'[i] = uplink[i]
        BY <4>1, <4>2, Sends
      <4>4. uplink' # <<>> /\ DOMAIN uplink' = 1..(Len(uplink) + 1)
        BY <1>0, <4>3 DEF ByteStrings
      <4>5. CASE uplink = <<>>
        BY <1>0, <1>1, <1>3, <4>1, <4>3, <4>4, <4>5
      <4>6. CASE uplink # <<>>
        <5>1. Len(uplink) \in 1..Len(uplink) /\ uplink[Len(uplink)][1] = client.opened
          BY <1>0, <1>1, <4>6 DEF ByteStrings
        <5>2. uplink[Len(uplink)][1] \in 1..client.opened
          BY <1>1, <5>1
        <5>3. client.opened > 0
          BY <1>0, <5>1, <5>2
        <5>4. uplink[Len(uplink)][2] = len[uplink[Len(uplink)][1]]
          BY <4>1, <5>1, <5>3 DEF SentOfLast
        <5> QED BY <1>0, <4>1, <4>3, <4>4, <4>6, <5>1, <5>4
      <4> QED BY <4>5, <4>6
    <3>2. CASE PeerSendsByte
      <4>1. /\ client.opened > 0 /\ SentOfLast < len[client.opened]
            /\ uplink' = Append(uplink, <<client.opened, SentOfLast + 1>>)
            /\ client' = client /\ len' = len
        BY <3>2 DEF PeerSendsByte, Byte
      <4>2. /\ uplink # <<>> /\ SentOfLast \in Nat /\ len[client.opened] \in Nat
            /\ uplink[Len(uplink)] = <<client.opened, SentOfLast>>
        BY <1>3, <4>1, LastByte
      <4>3. <<client.opened, SentOfLast + 1>> \in Nat \X Nat
        BY <1>0, <4>2
      <4>4. /\ uplink' \in ByteStrings /\ Len(uplink') = Len(uplink) + 1
            /\ b = <<client.opened, SentOfLast + 1>>
            /\ \A i \in 1..Len(uplink) : uplink'[i] = uplink[i]
        BY <4>1, <4>3, Sends
      <4>5. uplink' # <<>> /\ DOMAIN uplink' = 1..(Len(uplink) + 1)
        BY <1>0, <4>4 DEF ByteStrings
      <4>6. SentOfLast + 1 <= len[client.opened] /\ SentOfLast # len[client.opened]
        BY <4>1, <4>2
      <4> QED BY <4>1, <4>2, <4>4, <4>5, <4>6
    <3> QED BY <3>1, <3>2
  <2> HIDE DEF b
  <2>3. \A r \in 1..client.opened : len'[r] = len[r]
    <3>1. CASE PeerOpens
      <4>1. \A r \in 1..client.opened : r \in Requests /\ r # client.opened + 1
        BY <1>0, HttpConstants DEF Requests
      <4> QED BY <3>1, <4>1, OpensOne
    <3>2. CASE PeerSendsByte
      BY <3>2 DEF PeerSendsByte
    <3> QED BY <3>1, <3>2
  <2>4. \A r \in 1..client'.opened : len'[r] \in Nat
    <3>1. CASE PeerOpens
      <4>1. len'[client.opened + 1] \in Nat /\ client'.opened = client.opened + 1
        BY <1>3, <3>1, OpensOne
      <4>2. \A r \in 1..client'.opened : r \in 1..client.opened \/ r = client.opened + 1
        BY <1>0, <4>1
      <4> QED BY <1>1, <1>3, <2>3, <4>1, <4>2
    <3>2. CASE PeerSendsByte
      BY <1>1, <1>3, <2>3, <3>2 DEF PeerSendsByte
    <3> QED BY <3>1, <3>2
  <2>5. \A i \in 1..(Len(uplink) + 1) : /\ uplink'[i][1] \in 1..client'.opened
                                        /\ uplink'[i][2] <= len'[uplink'[i][1]]
    <3> SUFFICES ASSUME NEW i \in 1..(Len(uplink) + 1)
                 PROVE  uplink'[i][1] \in 1..client'.opened /\ uplink'[i][2] <= len'[uplink'[i][1]]
      OBVIOUS
    <3>1. CASE i \in 1..Len(uplink)
      BY <1>0, <1>1, <2>1, <2>2, <2>3, <3>1
    <3>2. CASE i = Len(uplink) + 1
      BY <2>1, <2>2, <3>2 DEF b
    <3> QED BY <1>0, <3>1, <3>2
  <2>6. \A i \in 1..Len(uplink) :
            uplink'[i + 1] = IF uplink'[i][2] = len'[uplink'[i][1]]
                             THEN <<uplink'[i][1] + 1, 0>>
                             ELSE <<uplink'[i][1], uplink'[i][2] + 1>>
    <3> SUFFICES ASSUME NEW i \in 1..Len(uplink)
                 PROVE  uplink'[i + 1] = IF uplink'[i][2] = len'[uplink'[i][1]]
                                         THEN <<uplink'[i][1] + 1, 0>>
                                         ELSE <<uplink'[i][1], uplink'[i][2] + 1>>
      OBVIOUS
    <3>1. uplink'[i] = uplink[i] /\ len'[uplink[i][1]] = len[uplink[i][1]]
      BY <1>1, <2>2, <2>3
    <3>2. CASE i \in 1..(Len(uplink) - 1)
      <4>1. uplink'[i + 1] = uplink[i + 1]
        BY <1>0, <2>2, <3>2
      <4> QED BY <1>1, <3>1, <3>2, <4>1
    <3>3. CASE i = Len(uplink)
      <4>1. uplink # <<>>
        BY <1>0, <3>3
      <4> QED BY <2>2, <3>1, <3>3, <4>1 DEF b
    <3>4. i \in 1..(Len(uplink) - 1) \/ i = Len(uplink)
      <4>1. Len(uplink) \in Nat
        BY <1>0
      <4> QED BY <4>1
    <3> QED BY <3>2, <3>3, <3>4
  <2>7. uplink'[1] = <<1, 0>> /\ uplink'[Len(uplink')][1] = client'.opened
    <3>1. CASE uplink = <<>>
      <4>1. Len(uplink) = 0
        BY <3>1
      <4> QED BY <2>2, <3>1, <4>1 DEF b
    <3>2. CASE uplink # <<>>
      <4>1. 1 \in 1..Len(uplink)
        BY <1>0, <3>2 DEF ByteStrings
      <4> QED BY <1>1, <2>2, <3>2, <4>1 DEF b
    <3> QED BY <3>1, <3>2
  <2>8. Len(uplink') - 1 = Len(uplink)
    BY <1>0, <2>2
  <2>9. ~Mux' /\ uplink' # <<>>
    BY <1>3, <2>1, <2>2 DEF Mux
  <2> QED BY <2>2, <2>4, <2>5, <2>6, <2>7, <2>8, <2>9 DEF UplinkSound
<1> QED BY <1>2, <1>3 DEF PeerSendsByte

(* The n bytes that follow byte j of a request are its next n bytes, as    *)
(* long as the body has as many.                                           *)
LEMMA Run ==
    ASSUME NetTypes, UplinkSound, NEW k \in 1..Len(uplink), NEW r, NEW j \in Nat, NEW n \in Nat,
           uplink[k] = <<r, j>>, k + n <= Len(uplink), j + n <= len[r], len[r] \in Nat
    PROVE  \A i \in 0..n : uplink[k + i] = <<r, j + i>>
<1> DEFINE Amiss == {i \in 0..n : uplink[k + i] # <<r, j + i>>}
<1> SUFFICES ASSUME Amiss # {} PROVE FALSE
  OBVIOUS
<1>0. Len(uplink) \in Nat
  BY UplinkTypes
<1>1. Amiss \in SUBSET Nat
  OBVIOUS
<1>2. PICK m \in Amiss : \A i \in Amiss : m <= i
  <2> HIDE DEF Amiss
  <2> QED BY <1>1, SmallestNumber
<1>3. m \in 0..n /\ uplink[k + m] # <<r, j + m>>
  OBVIOUS
<1>4. m # 0
  <2> SUFFICES ASSUME m = 0 PROVE FALSE
    OBVIOUS
  <2>1. k + m = k /\ j + m = j
    BY <1>0
  <2> QED BY <1>3, <2>1
<1>5. m - 1 \in 0..n /\ ~(m <= m - 1)
  BY <1>3, <1>4
<1>6. uplink[k + (m - 1)] = <<r, j + (m - 1)>>
  BY <1>2, <1>5
<1> DEFINE h == k + (m - 1)
<1>7. h \in 1..(Len(uplink) - 1) /\ h + 1 = k + m /\ j + (m - 1) # len[r] /\ (j + (m - 1)) + 1 = j + m
  BY <1>0, <1>3, <1>4
<1> HIDE DEF h, Amiss
<1>8. uplink[h + 1] = IF uplink[h][2] = len[uplink[h][1]] THEN <<uplink[h][1] + 1, 0>>
                      ELSE <<uplink[h][1], uplink[h][2] + 1>>
  BY <1>7 DEF UplinkSound
<1>9. uplink[h][1] = r /\ uplink[h][2] = j + (m - 1)
  BY <1>6 DEF h
<1> QED BY <1>3, <1>7, <1>8, <1>9

(* Requests are numbered from 1.                                           *)
LEMMA Positive == \A r \in Requests : r \in Nat /\ r > 0 /\ r <= MaxRequests
BY HttpAssumption DEF Requests

(* The HTTP/1 task leaves a request it has read: by a response, or for good. *)
Leaves == ServeEnds \/ \E keep \in BOOLEAN : Continue(keep)

(* After a response the loop reads on with the read half, waits for its    *)
(* return, or ends.                                                        *)
LEMMA LeavesFacts ==
    ASSUME NetTypes, Leaves
    PROVE  /\ serve'.req = serve.req /\ serve'.at \in {"read", "reclaim", "ended"}
           /\ serve'.at = "read" => half = "serve" /\ half' = "serve"
           /\ half' \in {half, "gone"} /\ (half # "serve" => half' = half)
           /\ half' = "serve" => half = "serve" /\ serve'.at = "read"
           /\ serve'.at = "reclaim" => half # "serve"
BY DEF NetTypes, Leaves, ServeEnds, Continue

(* The ways the loop itself answers a request or gives up on it.           *)
Answering == RouteRejected \/ RejectionFails \/ ReadEnds \/ ResponseCancelled

(* The loop's own answers end the serving of a request and change nothing  *)
(* that is read.                                                           *)
LEMMA AnsweringLeaves ==
    ASSUME NetTypes, Answering
    PROVE  /\ Leaves /\ ~Mux /\ serve.at \in {"read", "inline", "route", "await"}
           /\ UNCHANGED <<proto, net, fetched, taken, readers, body, registered, record, held, stream>>
<1>1. CASE RouteRejected
  <2>1. \E unauthorized \in BOOLEAN : Continue(serve.keep \/ unauthorized)
    BY <1>1 DEF RouteRejected
  <2>2. serve.keep \in BOOLEAN
    BY DEF NetTypes
  <2>3. Leaves
    BY <2>1, <2>2 DEF Leaves
  <2> QED BY <1>1, <2>3 DEF RouteRejected, At
<1>2. CASE RejectionFails \/ ReadEnds \/ ResponseCancelled
  BY <1>2 DEF Leaves, RejectionFails, ReadEnds, ResponseCancelled, At, dart
<1> QED BY <1>1, <1>2 DEF Answering

(* A response sent lets the loop of HTTP/1 go on, and is nothing to HTTP/2 *)
(* and HTTP/3.                                                             *)
LEMMA AfterSendLeaves ==
    ASSUME NetTypes, NEW ok \in BOOLEAN, AfterSend(ok)
    PROVE  (Mux /\ UNCHANGED <<serve, half>>) \/ (~Mux /\ Leaves)
BY DEF NetTypes, AfterSend, Leaves

(* A response task moves the loop only while it waits for that response.   *)
LEMMA SendLeaves ==
    ASSUME NetTypes, NEW r \in Requests, SendStep(r)
    PROVE  /\ UNCHANGED <<serve, half>> \/ (~Mux /\ serve.at = "await" /\ serve.req = r /\ Leaves)
<1>1. AfterSend(TRUE) \/ AfterSend(FALSE) \/ UNCHANGED <<serve, half>>
  BY DEF SendStep, SendBuffered, SendCancelled, SendStreamHead, SendFrame, SendFails, input
<1>2. Sender(r) \/ Mux
  BY DEF SendStep, SendBuffered, SendCancelled, SendStreamHead, SendFrame, SendFails
<1>3. ~Mux => serve.at = "await" /\ serve.req = r
  BY <1>2 DEF Sender
<1> QED BY <1>1, <1>3, AfterSendLeaves

(* A connection keeps its protocol.                                        *)
LEMMA ProtoKept == ASSUME [HttpNext]_httpVars PROVE UNCHANGED proto /\ Mux' = Mux
<1>1. UNCHANGED proto
  <2>1. CASE Http1Step
    BY <2>1 DEF Http1Step, FillBuf, ReadHead, ReadInline, StartBody, RouteResolved, RouteRejected,
       RejectionFails, ReadEnds, ResponseCancelled, Reclaim
  <2>2. CASE \E r \in Requests : Http1BodyStep(r) \/ BodyStep(r)
    BY <2>2 DEF Http1BodyStep, BodyStep, Http1BodyRead, Http1BodyDone, Http1BodyFails, BodyAbandoned,
       BodyData, BodyEnd, BodyBroken, BodyTimesOut
  <2>3. CASE \E r \in Requests : SendStep(r)
    BY <2>3 DEF SendStep, SendBuffered, SendCancelled, SendStreamHead, SendFrame, SendFails
  <2>4. CASE \E r \in Requests : DartStep(r)
    BY <2>4 DEF DartStep, RetainBody, StreamRead, FinishBody, ReleaseBody, Respond, ReleaseRequest,
       OpenResponseStream, WriteChunk, FinishResponseStream, StreamReadWaits, StreamReadStep
  <2>5. CASE \/ PeerOpens \/ PeerSendsByte \/ PeerLeaves \/ AcceptRequest \/ AcceptEnds
             \/ PollRequest \/ CloseConnection \/ UNCHANGED httpVars
    BY <2>5 DEF PeerOpens, PeerSendsByte, PeerLeaves, AcceptRequest, AcceptEnds, PollRequest,
       CloseConnection, httpVars
  <2> QED BY <2>1, <2>2, <2>3, <2>4, <2>5 DEF HttpNext
<1> QED BY <1>1 DEF Mux

(* The header block read next is that of the next request. *)
LEMMA NextRequest ==
    ASSUME NetTypes, UplinkSound, HalfSound, Future, Position, ReadHead
    PROVE  uplink[taken + 1] = <<serve.req + 1, 0>> /\ serve'.req = serve.req + 1
<1>1. /\ serve'.req = uplink[taken + 1][1] /\ ~Mux /\ serve.at = "read" /\ taken + 1 <= fetched
  BY ReadsHead
<1>2. half = "serve"
  BY <1>1 DEF HalfSound
<1>3. AtEnd(serve.req)
  BY <1>1, <1>2 DEF Position
<1>4. taken \in Nat /\ fetched \in Nat /\ Len(uplink) \in Nat /\ taken + 1 <= Len(uplink)
  BY <1>1, UplinkTypes DEF NetTypes
<1>5. CASE taken = 0 /\ serve.req = 0
  <2>1. uplink # <<>> /\ taken + 1 = 1
    BY <1>4, <1>5
  <2> QED BY <1>1, <1>5, <2>1 DEF UplinkSound
<1>6. CASE serve.req > 0 /\ AtByte(serve.req, len[serve.req])
  <2>1. uplink[taken] = <<serve.req, len[serve.req]>> /\ taken \in 1..(Len(uplink) - 1)
    BY <1>4, <1>6 DEF AtByte
  <2>2. uplink[taken + 1] = IF uplink[taken][2] = len[uplink[taken][1]]
                            THEN <<uplink[taken][1] + 1, 0>>
                            ELSE <<uplink[taken][1], uplink[taken][2] + 1>>
    BY <2>1 DEF UplinkSound
  <2> QED BY <1>1, <2>1, <2>2
<1> QED BY <1>3, <1>5, <1>6 DEF AtEnd

(* A step that starts no reader and leaves the loop and the read half      *)
(* alone keeps HalfSound.                                                  *)
LEMMA HalfKept ==
    ASSUME HalfSound, UNCHANGED <<proto, half>>, serve' = serve,
           \A r \in Requests : readers'[r].on = readers[r].on
    PROVE  HalfSound'
BY DEF HalfSound, Mux

(* So does the end of the serving of a request.                            *)
LEMMA HalfLeaves ==
    ASSUME NetTypes, HalfSound, Leaves, UNCHANGED <<proto, readers>>, ~Mux, serve.at # "read" => serve.req > 0
    PROVE  HalfSound'
BY LeavesFacts DEF HalfSound, Mux

(* So does every step of the HTTP/1 loop.                                  *)
LEMMA HalfHttp1 ==
    ASSUME NetTypes, UplinkSound, HalfSound, Future, Http1Step
    PROVE  HalfSound'
<1>0. /\ serve \in [at : Phases, req : 0..MaxRequests, keep : BOOLEAN]
      /\ half \in {"serve", "body", "returned", "gone"}
      /\ ~Mux => len[serve.req] \in Nat \/ serve.req = 0
  BY DEF NetTypes, UplinkSound, Future
<1>1. CASE FillBuf
  BY <1>1, HalfKept DEF FillBuf
<1>2. CASE ReadHead
  <2>1. serve.at = "read" /\ ~Mux /\ UNCHANGED <<proto, half, readers>> /\ serve'.req \in Requests
        /\ serve'.at \in {"inline", "handle"}
    BY <1>2, ReadsHead
  <2>2. half = "serve" /\ \A r \in Requests : ~readers[r].on
    BY <2>1 DEF HalfSound
  <2>3. serve'.req > 0
    BY <2>1, Positive
  <2> QED BY <2>1, <2>2, <2>3 DEF HalfSound, Mux
<1>3. CASE ReadInline
  <2>1. serve.at = "inline" /\ ~Mux
    BY <1>3 DEF ReadInline, At
  <2>2. serve.req \in Requests /\ len[serve.req] \in Nat
    BY <1>0, <2>1, Serving, HttpConstants
  <2>3. /\ UNCHANGED <<proto, half, readers>>
        /\ serve' = serve \/ serve' = [serve EXCEPT !.at = "route"]
    BY <1>3, <2>2, ReadsInline
  <2>4. serve'.req = serve.req /\ serve'.at \in {"inline", "route"} /\ serve.req > 0
    BY <1>0, <2>1, <2>2, <2>3, HttpConstants
  <2> QED BY <2>1, <2>3, <2>4 DEF HalfSound, Mux
<1>4. CASE StartBody
  <2>1. serve.at = "handle" /\ ~Mux
    BY <1>4 DEF StartBody, At
  <2>2. serve.req \in Requests /\ len[serve.req] \in Nat
    BY <1>0, <2>1, Serving, HttpConstants
  <2>3. /\ UNCHANGED proto /\ serve' = [serve EXCEPT !.at = "route"]
        /\ \/ UNCHANGED <<half, readers>>
           \/ /\ half' = "body"
              /\ \E n : readers' = [readers EXCEPT ![serve.req] = [on |-> TRUE, count |-> n]]
    BY <1>4, <2>2, StartsBody
  <2>4. serve'.req = serve.req /\ serve'.at = "route" /\ serve.req > 0
    BY <1>0, <2>1, <2>2, <2>3, HttpConstants
  <2>5. \A r \in Requests : ~readers[r].on
    BY <2>1 DEF HalfSound
  <2>6. \A r \in Requests : readers'[r].on => half' = "body" /\ r = serve.req
    BY <2>2, <2>3, <2>5 DEF NetTypes
  <2> QED BY <2>1, <2>3, <2>4, <2>6 DEF HalfSound, Mux
<1>5. CASE RouteResolved
  <2>1. ~Mux /\ serve.at = "route" /\ UNCHANGED <<proto, readers>>
    BY <1>5 DEF RouteResolved, At
  <2>2. CASE ServeEnds
    BY <2>1, <2>2, HalfLeaves DEF HalfSound, Leaves
  <2>3. CASE serve' = [serve EXCEPT !.at = "await"] /\ UNCHANGED half
    <3>1. serve'.at = "await" /\ serve'.req = serve.req
      BY <1>0, <2>3
    <3> QED BY <2>1, <2>3, <3>1 DEF HalfSound, Mux
  <2> QED BY <1>5, <2>2, <2>3 DEF RouteResolved
<1>6. CASE Answering
  BY <1>6, AnsweringLeaves, HalfLeaves DEF HalfSound
<1>7. CASE Reclaim
  <2>1. /\ ~Mux /\ serve.at = "reclaim" /\ half \in {"returned", "gone"} /\ UNCHANGED <<proto, readers>>
        /\ \/ half' = "serve" /\ serve' = [serve EXCEPT !.at = "read"]
           \/ half' = "gone" /\ serve' = [serve EXCEPT !.at = "ended"]
    BY <1>7 DEF Reclaim, At
  <2>2. /\ serve'.req = serve.req
        /\ (half' = "serve" /\ serve'.at = "read") \/ (half' = "gone" /\ serve'.at = "ended")
    BY <1>0, <2>1
  <2> QED BY <2>1, <2>2 DEF HalfSound, Mux
<1> QED BY <1>1, <1>2, <1>3, <1>4, <1>5, <1>6, <1>7 DEF Http1Step, Answering

(* Every step keeps HalfSound.                                             *)
LEMMA HalfHolds ==
    ASSUME NetTypes, DartTypes, UplinkSound, HalfSound, Future, Awaited, [HttpNext]_httpVars
    PROVE  HalfSound'
<1>0. UNCHANGED proto /\ Mux' = Mux
  BY ProtoKept
<1>1. CASE Mux
  BY <1>0, <1>1 DEF HalfSound
<1>2. CASE UNCHANGED <<serve, half, readers>>
  BY <1>0, <1>2, HalfKept
<1>3. CASE Http1Step
  BY <1>3, HalfHttp1
<1>4. CASE PeerOpens \/ PeerSendsByte \/ PeerLeaves \/ PollRequest \/ CloseConnection \/ UNCHANGED httpVars
  BY <1>2, <1>4 DEF PeerOpens, PeerSendsByte, PeerLeaves, PollRequest, CloseConnection, httpVars, input
<1>5. CASE AcceptRequest \/ AcceptEnds
  BY <1>1, <1>5 DEF AcceptRequest, AcceptEnds, Accepting
<1>6. CASE ~Mux /\ \E r \in Requests : Http1BodyStep(r) \/ BodyStep(r)
  <2>1. PICK r \in Requests : Http1BodyStep(r) \/ BodyStep(r)
    BY <1>6
  <2>2. CASE Http1BodyRead(r)
    <3>1. UNCHANGED <<half, serve>> /\ \A q \in Requests : readers'[q].on = readers[q].on
      <4>1. PICK n \in 1..(Len(uplink) - fetched) :
                n <= readers[r].count /\ readers' = [readers EXCEPT ![r].count = readers[r].count - n]
        BY <2>2, BodyReads
      <4>2. readers[r].count - n \in Nat
        BY <4>1, UplinkTypes DEF NetTypes
      <4> QED BY <2>2, <4>1, <4>2, BodyReads, ReaderCounts
    <3> QED BY <1>0, <3>1, HalfKept
  <2>3. CASE ~Http1BodyRead(r)
    <3>1. ~BodyData(r)
      BY <1>6 DEF BodyData, Reading
    <3>2. \/ Http1BodyDone(r) \/ Http1BodyFails(r) \/ BodyAbandoned(r) \/ BodyEnd(r) \/ BodyBroken(r)
          \/ \E why \in {"idle", "total"} : BodyTimesOut(r, why)
      BY <2>1, <2>3, <3>1 DEF Http1BodyStep, BodyStep
    <3>3. PICK c : Stops(r, c)
      BY <3>2, BodyStops
    <3>4. readers[r].on /\ UNCHANGED serve /\ ~readers'[r].on
          /\ \A q \in Requests : q # r => readers'[q] = readers[q]
      BY <3>3, StopsFacts DEF Stops
    <3>5. half = "body" /\ r = serve.req /\ serve.at \notin {"read", "inline", "handle"}
      BY <1>6, <3>4 DEF HalfSound
    <3>6. \A q \in Requests : ~readers'[q].on
      BY <1>6, <3>4, <3>5 DEF HalfSound
    <3> QED BY <1>0, <1>6, <3>4, <3>5, <3>6 DEF HalfSound
  <2> QED BY <2>2, <2>3
<1>7. CASE \E r \in Requests : SendStep(r)
  BY <1>2, <1>7, SendLeaves, SendTypes, HalfLeaves DEF HalfSound
<1>8. CASE \E r \in Requests : DartStep(r)
  <2>1. PICK r \in Requests : DartStep(r)
    BY <1>8
  <2>2. CASE DartReads(r)
    BY <1>2, <2>2, DartTouches DEF input
  <2>3. CASE RetainBody(r) \/ DartAnswers(r)
    BY <1>2, <2>3 DEF DartAnswers, RetainBody, Respond, ReleaseRequest, OpenResponseStream, WriteChunk,
       FinishResponseStream, input
  <2> QED BY <2>1, <2>2, <2>3 DEF DartStep, DartReads, DartAnswers
<1> QED BY <1>1, <1>3, <1>4, <1>5, <1>6, <1>7, <1>8 DEF HttpNext

(* How a response moves. *)
Moves(r, x) ==
    /\ r \in Requests /\ r <= serve'.req /\ resp[r] # "queued"
    /\ x \in {"buffered", "streaming", "chunks", "dropped", "sent", "failed"}
    /\ resp' = [resp EXCEPT ![r] = x] /\ registered' = registered
Enlists(r) == r \in Requests /\ r = serve'.req /\ resp[r] = "none" /\ EnqueueHttpRequest(r)
Clears == registered' = [present |-> FALSE, pending |-> <<>>] /\ resp' = Dropped

(* A request that anything was done about is not after the one served.     *)
LEMMA Reached ==
    ASSUME NetTypes, Future, NEW r \in Requests,
           readers[r].on \/ held[r] # "none" \/ resp[r] # "none" \/ body[r].use # "idle" \/ body[r].finished
    PROVE  r <= serve.req
<1>1. ~Fresh(r)
  BY NewBodyType DEF Fresh, NewBody
<1>2. serve.req \in Nat /\ r \in Nat
  BY Positive DEF NetTypes
<1> QED BY <1>1, <1>2 DEF Future

(* Every step changes the responses and the queue in one of four ways, or  *)
(* not at all.                                                             *)
LEMMA RespSteps ==
    ASSUME NetTypes, DartTypes, UplinkSound, HalfSound, Future, Awaited, RespSound, [HttpNext]_httpVars
    PROVE  \/ UNCHANGED <<resp, registered>>
           \/ \E r, x : Moves(r, x)
           \/ \E r : Enlists(r)
           \/ PollRequest \/ Clears
<1>0. serve \in [at : Phases, req : 0..MaxRequests, keep : BOOLEAN]
  BY DEF NetTypes
<1>1. CASE PeerOpens \/ PeerSendsByte \/ PeerLeaves \/ FillBuf \/ ReadHead \/ ReadInline \/ StartBody
           \/ ReadEnds \/ Reclaim \/ UNCHANGED httpVars
  BY <1>1 DEF PeerOpens, PeerSendsByte, PeerLeaves, FillBuf, ReadHead, ReadInline, StartBody,
     ReadEnds, Reclaim, httpVars, dart
<1>2. CASE RouteResolved
  <2>1. ~Mux /\ serve.at = "route"
    BY <1>2 DEF RouteResolved, At
  <2>2. serve.req \in Requests /\ resp[serve.req] = "none"
    BY <2>1, Serving DEF RespSound
  <2>3. CASE UNCHANGED <<registered, resp>>
    BY <2>3
  <2>4. CASE EnqueueHttpRequest(serve.req) /\ serve' = [serve EXCEPT !.at = "await"]
    <3>1. serve'.req = serve.req
      BY <1>0, <2>4
    <3>2. Enlists(serve.req)
      BY <2>2, <2>4, <3>1 DEF Enlists
    <3> QED BY <3>2
  <2> QED BY <1>2, <2>3, <2>4 DEF RouteResolved
<1>3. CASE RouteRejected \/ RejectionFails \/ ResponseCancelled
  <2>1. ~Mux /\ serve.at \in {"route", "await"} /\ (serve.at = "await" => resp[serve.req] = "dropped")
    BY <1>3 DEF RouteRejected, RejectionFails, ResponseCancelled, At
  <2>2. serve.req \in Requests /\ resp[serve.req] # "queued"
    BY <2>1, Serving DEF RespSound
  <2>3. /\ UNCHANGED registered
        /\ \E x \in {"sent", "failed"} : resp' = [resp EXCEPT ![serve.req] = x]
    BY <1>3 DEF RouteRejected, RejectionFails, ResponseCancelled
  <2>4. serve'.req = serve.req /\ serve.req <= serve.req
    BY <1>0, <1>3, AnsweringLeaves, LeavesFacts DEF Answering
  <2> QED BY <2>2, <2>3, <2>4 DEF Moves
<1>4. CASE AcceptRequest
  <2> DEFINE r == serve.req + 1
  <2>1. r \in Requests /\ serve'.req = r /\ r > serve.req /\ r <= serve'.req
    BY <1>0, <1>4, Accepts
  <2>2. resp[r] = "none"
    BY <2>1 DEF Future, Fresh
  <2>3. CASE EnqueueHttpRequest(r)
    BY <2>1, <2>2, <2>3 DEF Enlists
  <2>4. CASE ~EnqueueHttpRequest(r)
    <3>1. UNCHANGED registered /\ \E x \in {"sent", "failed"} : resp' = [resp EXCEPT ![r] = x]
      BY <1>4, <2>4, Accepts
    <3> HIDE DEF r
    <3> QED BY <2>1, <2>2, <3>1 DEF Moves
  <2> QED BY <2>3, <2>4
<1>5. CASE AcceptEnds
  BY <1>5, EndsAccepting DEF Finishes, Clears
<1>6. CASE \E r \in Requests : Http1BodyStep(r) \/ BodyStep(r)
  BY <1>6 DEF Http1BodyStep, BodyStep, Http1BodyRead, Http1BodyDone, Http1BodyFails, BodyAbandoned,
     BodyData, BodyEnd, BodyBroken, BodyTimesOut, dart
<1>7. CASE \E r \in Requests : SendStep(r)
  <2>1. PICK r \in Requests : SendStep(r)
    BY <1>7
  <2>2. UNCHANGED registered
    BY <2>1, SendTypes
  <2>3. \/ UNCHANGED resp
        \/ /\ resp[r] \in {"buffered", "dropped", "streaming", "chunks"}
           /\ \E x \in {"sent", "failed", "chunks"} : resp' = [resp EXCEPT ![r] = x]
    BY <2>1 DEF SendStep, SendBuffered, SendCancelled, SendStreamHead, SendFrame, SendFails
  <2>4. serve'.req = serve.req
    BY <2>1, SendLeaves, LeavesFacts
  <2>5. CASE UNCHANGED resp
    BY <2>2, <2>5
  <2>6. CASE ~UNCHANGED resp
    <3>1. r <= serve.req
      BY <2>3, <2>6, Reached
    <3> QED BY <2>2, <2>3, <2>4, <2>6, <3>1 DEF Moves
  <2> QED BY <2>5, <2>6
<1>8. CASE \E r \in Requests : DartStep(r)
  <2>1. PICK r \in Requests : DartStep(r)
    BY <1>8
  <2>2. CASE DartReads(r)
    BY <2>2, DartTouches
  <2>3. CASE RetainBody(r) \/ WriteChunk(r) \/ FinishResponseStream(r)
    BY <2>3 DEF RetainBody, WriteChunk, FinishResponseStream
  <2>4. CASE Respond(r) \/ ReleaseRequest(r) \/ OpenResponseStream(r)
    <3>1. /\ UNCHANGED <<registered, serve>> /\ resp[r] = "polled"
          /\ \E x \in {"buffered", "dropped", "streaming"} : resp' = [resp EXCEPT ![r] = x]
      BY <2>4 DEF Respond, ReleaseRequest, OpenResponseStream
    <3>2. r <= serve.req
      BY <3>1, Reached
    <3> QED BY <3>1, <3>2 DEF Moves
  <2> QED BY <2>1, <2>2, <2>3, <2>4 DEF DartStep, DartReads
<1>9. CASE CloseConnection
  BY <1>9 DEF CloseConnection, Clears, Dropped
<1> QED BY <1>1, <1>2, <1>3, <1>4, <1>5, <1>6, <1>7, <1>8, <1>9 DEF HttpNext, Http1Step

(* The requests that wait for Dart. *)
LEMMA QueuedHolds ==
    ASSUME NetTypes, DartTypes, UplinkSound, HalfSound, Future, Awaited, RespSound, Queued,
           [HttpNext]_httpVars
    PROVE  Queued'
<1> DEFINE p == registered.pending
<1>0. /\ p \in Seq(Requests) /\ Len(p) \in Nat /\ DOMAIN p = 1..Len(p) /\ \A i \in 1..Len(p) : p[i] \in Requests
      /\ \A i \in 1..Len(p) : resp[p[i]] = "queued"
      /\ \A i, j \in 1..Len(p) : p[i] = p[j] => i = j
  <2>1. p \in Seq(Requests)
    BY DEF DartTypes
  <2> QED BY <2>1 DEF Queued
<1>1. CASE UNCHANGED <<resp, registered>>
  BY <1>1 DEF Queued
<1>2. CASE \E r, x : Moves(r, x)
  <2>1. PICK r, x : Moves(r, x)
    BY <1>2
  <2>2. \A i \in 1..Len(p) : p[i] # r /\ resp'[p[i]] = resp[p[i]]
    BY <1>0, <2>1 DEF Moves, DartTypes
  <2> QED BY <1>0, <2>1, <2>2 DEF Queued, Moves
<1>3. CASE \E r : Enlists(r)
  <2>1. PICK r \in Requests : resp[r] = "none" /\ EnqueueHttpRequest(r)
    BY <1>3 DEF Enlists
  <2> DEFINE pp == registered'.pending
  <2>2. pp = Append(p, r) /\ resp'[r] = "queued" /\ \A q \in Requests : q # r => resp'[q] = resp[q]
    BY <2>1, Enqueues
  <2>3. /\ Len(pp) = Len(p) + 1 /\ pp[Len(p) + 1] = r /\ \A i \in 1..Len(p) : pp[i] = p[i]
        /\ DOMAIN pp = 1..(Len(p) + 1)
    BY <1>0, <2>1, <2>2
  <2>4. \A i \in 1..Len(p) : p[i] # r /\ resp'[p[i]] = "queued"
    BY <1>0, <2>1, <2>2
  <2> HIDE DEF p, pp
  <2>5. \A i \in 1..(Len(p) + 1) : i \in 1..Len(p) \/ i = Len(p) + 1
    BY <1>0
  <2>6. \A i \in DOMAIN pp : resp'[pp[i]] = "queued"
    BY <2>2, <2>3, <2>4, <2>5
  <2>7. \A i, j \in DOMAIN pp : pp[i] = pp[j] => i = j
    BY <1>0, <2>3, <2>4, <2>5
  <2> QED BY <2>6, <2>7 DEF Queued, pp
<1>4. CASE PollRequest
  <2> DEFINE pp == registered'.pending
  <2>1. /\ Len(p) \in Nat \ {0} /\ Len(pp) = Len(p) - 1 /\ pp \in Seq(Requests)
        /\ \A i \in 1..(Len(p) - 1) : pp[i] = p[i + 1]
        /\ p[1] \in Requests /\ resp' = [resp EXCEPT ![p[1]] = "polled"]
    BY <1>4, Polls
  <2>2. DOMAIN pp = 1..(Len(p) - 1)
    BY <2>1
  <2>3. \A q \in Requests : q # p[1] => resp'[q] = resp[q]
    BY <2>1 DEF DartTypes
  <2> HIDE DEF p, pp
  <2>4. \A i \in 1..(Len(p) - 1) : i + 1 \in 1..Len(p) /\ i + 1 # 1 /\ 1 \in 1..Len(p)
    BY <2>1
  <2>5. \A i \in 1..(Len(p) - 1) : pp[i] \in Requests /\ pp[i] # p[1]
    BY <1>0, <2>1, <2>4
  <2>6. \A i \in DOMAIN pp : resp'[pp[i]] = "queued"
    BY <1>0, <2>1, <2>2, <2>3, <2>4, <2>5
  <2>7. \A i, j \in DOMAIN pp : pp[i] = pp[j] => i = j
    <3> SUFFICES ASSUME NEW i \in 1..(Len(p) - 1), NEW j \in 1..(Len(p) - 1), pp[i] = pp[j] PROVE i = j
      BY <2>2
    <3>1. i + 1 = j + 1
      BY <1>0, <2>1, <2>4
    <3> QED BY <2>1, <3>1
  <2> QED BY <2>6, <2>7 DEF Queued, pp
<1>5. CASE Clears
  <2>1. registered'.pending = <<>>
    BY <1>5 DEF Clears
  <2>2. DOMAIN <<>> = {}
    OBVIOUS
  <2> QED BY <2>1, <2>2 DEF Queued
<1> QED BY <1>1, <1>2, <1>3, <1>4, <1>5, RespSteps

(* A step that only moves a response under way keeps RespSound.            *)
LEMMA RespKept ==
    ASSUME NetTypes, HalfSound, RespSound, UNCHANGED <<proto, serve>>,
           \A r \in Requests : /\ resp'[r] = resp[r] \/ resp[r] \in Underway
                               /\ resp[r] \notin Underway => resp'[r] \notin Underway
    PROVE  RespSound'
<1> SUFFICES ASSUME ~Mux PROVE RespSound'
  BY DEF RespSound, Mux
<1>1. /\ serve.at \in {"inline", "handle", "route"} => resp[serve.req] = "none"
      /\ \A r \in Requests : resp[r] \in Underway => serve.at = "await" /\ serve.req = r
      /\ serve.at \in {"read", "reclaim"} /\ serve.req > 0 => resp[serve.req] = "sent"
  BY DEF RespSound
<1>2. serve.req # 0 => serve.req \in Requests
  BY HttpConstants DEF NetTypes, Requests
<1>3. serve.at \in {"inline", "handle", "route"} => serve.req \in Requests
  BY Serving
<1>4. serve.at # "await" => \A r \in Requests : resp'[r] = resp[r]
  BY <1>1
<1>5. serve.at # "await" /\ serve.req \in Requests => resp'[serve.req] = resp[serve.req]
  BY <1>4
<1>6. \A r \in Requests : resp'[r] \in Underway => serve.at = "await" /\ serve.req = r
  BY <1>1
<1> QED BY <1>1, <1>2, <1>3, <1>5, <1>6 DEF RespSound, Mux

(* So does the one that answers the request served.                        *)
LEMMA RespLeaves ==
    ASSUME NetTypes, DartTypes, RespSound, UNCHANGED proto, ~Mux, Leaves, NEW x \in {"sent", "failed"},
           serve.at \in {"route", "await"}, serve.req \in Requests, resp' = [resp EXCEPT ![serve.req] = x],
           x = "failed" => serve'.at = "ended"
    PROVE  RespSound'
<1>1. serve'.req = serve.req /\ serve'.at \in {"read", "reclaim", "ended"}
  BY LeavesFacts
<1>2. resp'[serve.req] = x /\ \A q \in Requests : q # serve.req => resp'[q] = resp[q]
  BY RespChanges
<1>3. \A q \in Requests : q # serve.req => resp[q] \notin Underway
  BY DEF RespSound
<1>4. {"sent", "failed"} \cap Underway = {}
  BY DEF Underway
<1>5. \A q \in Requests : resp'[q] \notin Underway
  BY <1>2, <1>3, <1>4
<1> QED BY <1>1, <1>2, <1>5 DEF RespSound, Mux

(* So does every step of the HTTP/1 loop.                                  *)
LEMMA RespHttp1 ==
    ASSUME NetTypes, DartTypes, UplinkSound, HalfSound, Future, Position, RespSound, Http1Step
    PROVE  RespSound'
<1>0. /\ serve \in [at : Phases, req : 0..MaxRequests, keep : BOOLEAN]
      /\ ~Mux => len[serve.req] \in Nat \/ serve.req = 0
      /\ UNCHANGED proto
  BY ProtoKept DEF NetTypes, UplinkSound, Future, HttpNext
<1>1. CASE FillBuf
  BY <1>1, RespKept DEF FillBuf, dart
<1>2. CASE ReadHead
  <2>1. serve.at = "read" /\ ~Mux /\ UNCHANGED resp /\ serve'.at \in {"inline", "handle"}
    BY <1>2, ReadsHead DEF dart
  <2>2. serve'.req = serve.req + 1 /\ serve'.req \in Requests
    BY <1>2, NextRequest, ReadsHead
  <2>3. serve'.req > serve.req
    BY <1>0, <2>2
  <2>4. resp[serve'.req] = "none"
    BY <2>2, <2>3 DEF Future, Fresh
  <2>5. \A r \in Requests : resp[r] \notin Underway
    BY <2>1 DEF RespSound
  <2> QED BY <1>0, <2>1, <2>4, <2>5 DEF RespSound
<1>3. CASE ReadInline
  <2>1. serve.at = "inline" /\ ~Mux
    BY <1>3 DEF ReadInline, At
  <2>2. serve.req \in Requests /\ len[serve.req] \in Nat
    BY <1>0, <2>1, Serving, HttpConstants
  <2>3. /\ UNCHANGED resp
        /\ serve' = serve \/ serve' = [serve EXCEPT !.at = "route"]
    BY <1>3, <2>2, ReadsInline DEF dart
  <2>4. serve'.req = serve.req /\ serve'.at \in {"inline", "route"}
    BY <1>0, <2>1, <2>2, <2>3
  <2> QED BY <1>0, <2>1, <2>3, <2>4 DEF RespSound
<1>4. CASE StartBody
  <2>1. serve.at = "handle" /\ ~Mux /\ UNCHANGED resp /\ serve' = [serve EXCEPT !.at = "route"]
    BY <1>4 DEF StartBody, At, dart
  <2>2. serve'.req = serve.req /\ serve'.at = "route"
    BY <1>0, <2>1
  <2> QED BY <1>0, <2>1, <2>2 DEF RespSound
<1>5. CASE RouteResolved
  <2>1. ~Mux /\ serve.at = "route"
    BY <1>5 DEF RouteResolved, At
  <2>2. serve.req \in Requests /\ \A r \in Requests : resp[r] \notin Underway
    BY <2>1, Serving DEF RespSound
  <2>3. CASE ServeEnds /\ UNCHANGED resp
    <3>1. serve'.at = "ended"
      BY <1>0, <2>3 DEF ServeEnds
    <3> QED BY <1>0, <2>2, <2>3, <3>1 DEF RespSound
  <2>4. CASE EnqueueHttpRequest(serve.req) /\ serve' = [serve EXCEPT !.at = "await"]
    <3>1. serve'.req = serve.req /\ serve'.at = "await"
      BY <1>0, <2>4
    <3>2. \A q \in Requests : q # serve.req => resp'[q] = resp[q]
      BY <2>2, <2>4, Enqueues
    <3> QED BY <1>0, <2>2, <3>1, <3>2 DEF RespSound
  <2> QED BY <1>5, <2>3, <2>4 DEF RouteResolved
<1>6. CASE RouteRejected \/ RejectionFails \/ ResponseCancelled
  <2>1. Leaves /\ ~Mux /\ serve.at \in {"route", "await"}
    BY <1>6, AnsweringLeaves DEF Answering, RouteRejected, RejectionFails, ResponseCancelled, At
  <2>2. serve.req \in Requests
    BY <2>1, Serving
  <2>3. \/ resp' = [resp EXCEPT ![serve.req] = "sent"]
        \/ resp' = [resp EXCEPT ![serve.req] = "failed"] /\ ServeEnds
    BY <1>6 DEF RouteRejected, RejectionFails, ResponseCancelled
  <2>4. ServeEnds => serve'.at = "ended"
    BY <1>0 DEF ServeEnds
  <2> QED BY <1>0, <2>1, <2>2, <2>3, <2>4, RespLeaves
<1>7. CASE ReadEnds
  <2>1. serve'.at = "ended" /\ UNCHANGED resp /\ ~Mux /\ serve.at \in {"read", "inline"}
    BY <1>0, <1>7 DEF ReadEnds, ServeEnds, At, dart
  <2> QED BY <1>0, <2>1 DEF RespSound
<1>8. CASE Reclaim
  <2>1. /\ serve.at = "reclaim" /\ ~Mux /\ UNCHANGED resp
        /\ serve' = [serve EXCEPT !.at = "read"] \/ serve' = [serve EXCEPT !.at = "ended"]
    BY <1>8 DEF Reclaim, At, dart
  <2>2. serve'.req = serve.req /\ serve'.at \in {"read", "ended"}
    BY <1>0, <2>1
  <2> QED BY <1>0, <2>1, <2>2 DEF RespSound
<1> QED BY <1>1, <1>2, <1>3, <1>4, <1>5, <1>6, <1>7, <1>8 DEF Http1Step

(* Every step keeps RespSound.                                             *)
LEMMA RespHolds ==
    ASSUME NetTypes, DartTypes, UplinkSound, HalfSound, Future, Awaited, Position, RespSound, Queued,
           [HttpNext]_httpVars
    PROVE  RespSound'
<1>0. UNCHANGED proto /\ Mux' = Mux /\ serve \in [at : Phases, req : 0..MaxRequests, keep : BOOLEAN]
  BY ProtoKept DEF NetTypes
<1>1. CASE Mux
  BY <1>0, <1>1 DEF RespSound
<1>2. CASE UNCHANGED <<serve, resp>>
  BY <1>0, <1>2, RespKept
<1>3. CASE Http1Step
  BY <1>3, RespHttp1
<1>4. CASE PeerOpens \/ PeerSendsByte \/ PeerLeaves \/ UNCHANGED httpVars
  BY <1>2, <1>4 DEF PeerOpens, PeerSendsByte, PeerLeaves, httpVars, dart
<1>5. CASE AcceptRequest \/ AcceptEnds
  BY <1>1, <1>5 DEF AcceptRequest, AcceptEnds, Accepting
<1>6. CASE \E r \in Requests : Http1BodyStep(r) \/ BodyStep(r)
  BY <1>2, <1>6 DEF Http1BodyStep, BodyStep, Http1BodyRead, Http1BodyDone, Http1BodyFails, BodyAbandoned,
     BodyData, BodyEnd, BodyBroken, BodyTimesOut, dart
<1>7. CASE ~Mux /\ \E r \in Requests : SendStep(r)
  <2>1. PICK r \in Requests : SendStep(r)
    BY <1>7
  <2>2. serve.at = "await" /\ serve.req = r /\ resp[r] \in Underway
    BY <1>7, <2>1 DEF SendStep, SendBuffered, SendCancelled, SendStreamHead, SendFrame, SendFails, Sender,
       Underway
  <2>3. CASE UNCHANGED serve /\ \E x \in Underway : resp' = [resp EXCEPT ![r] = x]
    <3>1. \A q \in Requests : q # r => resp'[q] = resp[q]
      BY <2>3 DEF DartTypes
    <3> QED BY <1>0, <2>2, <2>3, <3>1, RespKept
  <2>4. CASE Leaves /\ resp' = [resp EXCEPT ![r] = "sent"]
    BY <1>0, <1>7, <2>2, <2>4, RespLeaves
  <2>5. CASE ServeEnds /\ resp' = [resp EXCEPT ![r] = "failed"]
    <3>1. serve'.at = "ended"
      BY <1>0, <2>5 DEF ServeEnds
    <3> QED BY <1>0, <1>7, <2>2, <2>5, <3>1, RespLeaves DEF Leaves
  <2>6. CASE UNCHANGED <<serve, resp>>
    BY <1>2, <2>6
  <2>7. AfterSend(TRUE) => Leaves
    BY <1>0, <1>7 DEF AfterSend, Leaves
  <2>8. AfterSend(FALSE) => ServeEnds
    BY <1>7 DEF AfterSend
  <2>9. CASE SendBuffered(r)
    BY <2>4, <2>7, <2>9 DEF SendBuffered
  <2>10. CASE SendStreamHead(r)
    BY <2>3, <2>10 DEF SendStreamHead, Underway
  <2>11. CASE SendFrame(r)
    BY <2>4, <2>6, <2>7, <2>11 DEF SendFrame
  <2>12. CASE SendFails(r)
    BY <2>5, <2>8, <2>12 DEF SendFails
  <2>13. ~SendCancelled(r)
    BY <1>7 DEF SendCancelled
  <2> QED BY <2>1, <2>9, <2>10, <2>11, <2>12, <2>13 DEF SendStep
<1>8. CASE \E r \in Requests : DartStep(r)
  <2>1. PICK r \in Requests : DartStep(r)
    BY <1>8
  <2>2. CASE DartReads(r)
    BY <1>2, <2>2, DartTouches
  <2>3. CASE RetainBody(r) \/ WriteChunk(r) \/ FinishResponseStream(r)
    BY <1>2, <2>3 DEF RetainBody, WriteChunk, FinishResponseStream
  <2>4. CASE Respond(r) \/ ReleaseRequest(r) \/ OpenResponseStream(r)
    <3>1. /\ UNCHANGED serve /\ resp[r] \in Underway
          /\ \E x : resp' = [resp EXCEPT ![r] = x]
      BY <2>4 DEF Respond, ReleaseRequest, OpenResponseStream, Underway
    <3>2. \A q \in Requests : q # r => resp'[q] = resp[q]
      BY <3>1 DEF DartTypes
    <3> QED BY <1>0, <3>1, <3>2, RespKept
  <2> QED BY <2>1, <2>2, <2>3, <2>4 DEF DartStep, DartReads
<1>9. CASE PollRequest
  <2> DEFINE r == registered.pending[1]
  <2>1. /\ UNCHANGED serve /\ r \in Requests /\ resp' = [resp EXCEPT ![r] = "polled"]
        /\ Len(registered.pending) \in Nat \ {0}
    BY <1>9, Polls
  <2>2. 1 \in DOMAIN registered.pending
    <3>1. registered.pending \in Seq(Requests)
      BY DEF DartTypes
    <3> QED BY <2>1, <3>1
  <2>3. resp[r] \in Underway
    BY <2>2 DEF Queued, Underway
  <2> HIDE DEF r
  <2>4. \A q \in Requests : q # r => resp'[q] = resp[q]
    BY <2>1 DEF DartTypes
  <2> QED BY <1>0, <2>1, <2>3, <2>4, RespKept
<1>10. CASE CloseConnection
  <2>1. /\ UNCHANGED serve
        /\ \A r \in Requests : resp'[r] = IF resp[r] = "queued" THEN "dropped" ELSE resp[r]
    BY <1>10, Drops DEF CloseConnection, Dropped
  <2>2. \A r \in Requests : /\ resp'[r] = resp[r] \/ resp[r] \in Underway
                            /\ resp[r] \notin Underway => resp'[r] \notin Underway
    BY <2>1 DEF Underway
  <2> QED BY <1>0, <2>1, <2>2, RespKept
<1> QED BY <1>1, <1>3, <1>4, <1>5, <1>6, <1>7, <1>8, <1>9, <1>10 DEF HttpNext

(* The requests not reached yet stay as they are. *)
LEMMA FutureFollows ==
    ASSUME NetTypes, Future, UNCHANGED proto, serve'.req \in Nat, serve.req <= serve'.req,
           serve'.req <= client'.opened,
           \A q \in Requests : q > serve'.req =>
             /\ body'[q] = body[q] /\ readers'[q] = readers[q] /\ held'[q] = held[q] /\ resp'[q] = resp[q]
             /\ Mux => incoming'[q] = incoming[q] \/ incoming'[q].data = Prefix(q, incoming'[q].sent)
    PROVE  Future'
<1>1. serve.req \in Nat /\ \A q \in Requests : q \in Nat
  BY Positive DEF NetTypes
<1>2. \A q \in Requests : q > serve'.req => q > serve.req
  BY <1>1
<1>3. ASSUME NEW q \in Requests, q > serve'.req PROVE Fresh(q)'
  BY <1>2, <1>3 DEF Future, Fresh, Prefix, Mux, NewBody
<1> QED BY <1>3 DEF Future

(* A step about a request already reached keeps Future.                    *)
LEMMA FutureOf ==
    ASSUME NetTypes, Future, UNCHANGED <<proto, client, incoming>>, serve'.req = serve.req,
           NEW r \in Requests, r <= serve.req,
           \A q \in Requests : q # r =>
             body'[q] = body[q] /\ readers'[q] = readers[q] /\ held'[q] = held[q] /\ resp'[q] = resp[q]
    PROVE  Future'
<1>1. serve.req \in Nat /\ serve.req <= client.opened /\ \A q \in Requests : q \in Nat
  BY Positive DEF NetTypes, Future
<1>2. \A q \in Requests : q > serve.req => q # r
  BY <1>1
<1> QED BY <1>1, <1>2, FutureFollows

(* The resp part, of every step. *)
LEMMA FutureResp ==
    ASSUME NetTypes, NetTypes', DartTypes, UplinkSound, HalfSound, Future, Awaited, RespSound, Queued,
           [HttpNext]_httpVars, serve.req <= serve'.req
    PROVE  \A q \in Requests : q > serve'.req => resp'[q] = resp[q]
<1> SUFFICES ASSUME NEW q \in Requests, q > serve'.req PROVE resp'[q] = resp[q]
  OBVIOUS
<1>0. q \in Nat /\ serve.req \in Nat /\ serve'.req \in Nat /\ q > serve.req /\ resp \in [Requests -> Underway \cup {"none", "sent", "failed"}]
  BY Positive DEF NetTypes, DartTypes
<1>00. resp[q] = "none"
  BY <1>0 DEF Future, Fresh
<1>1. CASE \E r, x : Moves(r, x)
  <2>1. PICK r, x : Moves(r, x)
    BY <1>1
  <2>2. r \in Requests /\ r # q
    BY <1>0, <2>1, Positive DEF Moves
  <2> QED BY <1>0, <2>1, <2>2 DEF Moves
<1>2. CASE \E r : Enlists(r)
  <2>1. PICK r : Enlists(r)
    BY <1>2
  <2>2. r # q /\ r \in Requests
    BY <1>0, <2>1 DEF Enlists
  <2> QED BY <2>1, <2>2, Enqueues DEF Enlists
<1>3. CASE PollRequest
  <2> DEFINE r == registered.pending[1]
  <2>1. r \in Requests /\ resp' = [resp EXCEPT ![r] = "polled"] /\ Len(registered.pending) \in Nat \ {0}
    BY <1>3, Polls
  <2>2. 1 \in DOMAIN registered.pending
    <3>1. registered.pending \in Seq(Requests)
      BY DEF DartTypes
    <3> QED BY <2>1, <3>1
  <2>3. resp[r] = "queued"
    BY <2>2 DEF Queued
  <2> HIDE DEF r
  <2> QED BY <1>0, <1>00, <2>1, <2>3
<1>4. CASE Clears
  BY <1>00, <1>4, Drops DEF Clears
<1> QED BY <1>1, <1>2, <1>3, <1>4, RespSteps

(* Every step keeps Future.                                                *)
LEMMA FutureHolds ==
    ASSUME NetTypes, NetTypes', DartTypes, UplinkSound, HalfSound, Future, Awaited, Position, RespSound,
           Queued, [HttpNext]_httpVars
    PROVE  Future'
<1>0. /\ UNCHANGED proto /\ serve \in [at : Phases, req : 0..MaxRequests, keep : BOOLEAN]
      /\ serve.req \in Nat /\ serve.req <= client.opened /\ client.opened \in Nat
      /\ serve.req <= serve.req /\ ~Mux => len[serve.req] \in Nat \/ serve.req = 0
      /\ readers \in [Requests -> [on : BOOLEAN, count : Nat]]
  BY ProtoKept DEF NetTypes, Future, UplinkSound
<1>1. ASSUME UNCHANGED <<body, readers, held, incoming>>, serve'.req = serve.req,
             client'.opened = client.opened
      PROVE  Future'
  BY <1>0, <1>1, FutureResp, FutureFollows
<1>2. CASE PeerOpens
  <2>1. UNCHANGED <<body, readers, held, resp, serve>>
    BY <1>2 DEF PeerOpens, dart
  <2>2. client'.opened = client.opened + 1 /\ serve.req <= client'.opened
    BY <1>0, <1>2, OpensOne
  <2>3. \A q \in Requests : Mux => incoming'[q] = incoming[q] \/ incoming'[q].data = Prefix(q, incoming'[q].sent)
    BY <1>2, OpensOne
  <2> QED BY <1>0, <2>1, <2>2, <2>3, FutureFollows
<1>3. CASE PeerSendsByte \/ PeerLeaves
  BY <1>0, <1>1, <1>3 DEF PeerSendsByte, PeerLeaves, dart, NetTypes
<1>4. CASE FillBuf
  BY <1>1, <1>4 DEF FillBuf, net, dart
<1>5. CASE ReadHead
  <2>1. /\ serve'.req = serve.req + 1 /\ UNCHANGED <<body, readers, held, resp, incoming, client>>
        /\ serve'.req <= client.opened
    BY <1>5, NextRequest, ReadsHead DEF net, dart
  <2>2. serve'.req \in Nat /\ serve.req <= serve'.req
    BY <1>0, <2>1
  <2> QED BY <1>0, <2>1, <2>2, FutureFollows
<1>6. CASE ReadInline \/ StartBody
  <2>1. serve.at \in {"inline", "handle"} /\ ~Mux
    BY <1>6 DEF ReadInline, StartBody, At
  <2>2. serve.req \in Requests /\ len[serve.req] \in Nat
    BY <1>0, <2>1, Serving, HttpConstants
  <2>3. /\ UNCHANGED <<client, incoming, held, resp>>
        /\ serve' = serve \/ serve' = [serve EXCEPT !.at = "route"]
    BY <1>6, <2>2, ReadsInline, StartsBody DEF net, dart
  <2>4. \A q \in Requests : q # serve.req => body'[q] = body[q] /\ readers'[q] = readers[q]
    <3>1. UNCHANGED body \/ \E c : body' = [body EXCEPT ![serve.req] = c]
      BY <1>6, <2>2, ReadsInline, StartsBody
    <3>2. UNCHANGED readers \/ \E c : readers' = [readers EXCEPT ![serve.req] = c]
      BY <1>6, <2>2, ReadsInline, StartsBody
    <3> QED BY <2>2, <3>1, <3>2 DEF NetTypes
  <2>5. serve'.req = serve.req
    BY <1>0, <2>3
  <2> QED BY <1>0, <2>2, <2>3, <2>4, <2>5, FutureOf
<1>7. CASE RouteResolved
  <2>1. UNCHANGED <<body, readers, held, incoming, client>>
    BY <1>7 DEF RouteResolved, net
  <2>2. serve'.req = serve.req
    BY <1>0, <1>7 DEF RouteResolved, ServeEnds
  <2> QED BY <1>1, <2>1, <2>2
<1>8. CASE Answering
  BY <1>1, <1>8, AnsweringLeaves, LeavesFacts DEF net
<1>9. CASE Reclaim
  <2>1. UNCHANGED <<body, readers, held, incoming, client>>
    BY <1>9 DEF Reclaim, net, dart
  <2>2. serve'.req = serve.req
    BY <1>0, <1>9 DEF Reclaim
  <2> QED BY <1>1, <2>1, <2>2
<1>10. CASE AcceptRequest
  <2> DEFINE r == serve.req + 1
  <2>1. /\ r \in Requests /\ serve'.req = r /\ UNCHANGED <<body, held, incoming, client>>
        /\ r <= client.opened /\ serve.req <= r /\ r \in Nat
    BY <1>0, <1>10, Accepts DEF net
  <2>2. UNCHANGED readers \/ readers' = [readers EXCEPT ![r].on = TRUE]
    BY <1>10, Accepts
  <2> HIDE DEF r
  <2>3. \A q \in Requests : q > r => readers'[q] = readers[q]
    BY <1>0, <2>1, <2>2, Positive
  <2>4. \A q \in Requests : q > serve'.req => resp'[q] = resp[q]
    BY <2>1, FutureResp
  <2> QED BY <1>0, <2>1, <2>3, <2>4, FutureFollows
<1>11. CASE AcceptEnds
  <2>1. UNCHANGED <<body, readers, held, incoming, client>> /\ serve' = [serve EXCEPT !.at = "ended"]
    BY <1>11, EndsAccepting DEF net
  <2>2. serve'.req = serve.req
    BY <1>0, <2>1
  <2> QED BY <1>1, <2>1, <2>2
<1>12. CASE \E r \in Requests : Http1BodyStep(r) \/ BodyStep(r)
  <2>1. PICK r \in Requests : Http1BodyStep(r) \/ BodyStep(r)
    BY <1>12
  <2>2. /\ UNCHANGED <<serve, dart>> /\ readers[r].on
        /\ body' = body \/ \E c : body' = [body EXCEPT ![r] = c]
        /\ \E c : readers' = [readers EXCEPT ![r] = c]
        /\ incoming' = incoming \/ \E c : incoming' = [incoming EXCEPT ![r] = c]
        /\ client'.opened = client.opened
    <3>1. CASE Http1BodyRead(r)
      BY <2>1, <3>1 DEF Http1BodyRead, Lent, net
    <3>2. CASE Http1BodyDone(r) \/ Http1BodyFails(r)
      BY <2>1, <3>2 DEF Http1BodyDone, Http1BodyFails, Lent, net
    <3>3. CASE BodyData(r)
      BY <2>1, <3>3 DEF BodyData, Reading, StopReader
    <3>4. CASE BodyAbandoned(r) \/ BodyEnd(r) \/ BodyBroken(r)
      BY <2>1, <3>4 DEF BodyAbandoned, BodyEnd, BodyBroken, Reading, StopReader, net
    <3>5. CASE \E why \in {"idle", "total"} : BodyTimesOut(r, why)
      BY <2>1, <3>5 DEF BodyTimesOut, Reading, StopReader, NetTypes
    <3> QED BY <2>1, <3>1, <3>2, <3>3, <3>4, <3>5 DEF Http1BodyStep, BodyStep
  <2>3. r <= serve.req
    BY <2>2, Reached
  <2>4. \A q \in Requests : q > serve.req => q # r
    BY <1>0, <2>3, Positive
  <2>5. \A q \in Requests : q # r => body'[q] = body[q] /\ readers'[q] = readers[q] /\ incoming'[q] = incoming[q]
    BY <2>2 DEF NetTypes
  <2>6. UNCHANGED <<held, resp>>
    BY <2>2 DEF dart
  <2> QED BY <1>0, <2>2, <2>4, <2>5, <2>6, FutureFollows
<1>13. CASE \E r \in Requests : SendStep(r)
  <2>1. UNCHANGED <<body, readers, held, incoming, client>>
    BY <1>13, SendTypes DEF net
  <2>2. serve'.req = serve.req
    BY <1>13, SendLeaves, LeavesFacts
  <2> QED BY <1>1, <2>1, <2>2
<1>14. CASE \E r \in Requests : DartStep(r)
  <2>1. PICK r \in Requests : DartStep(r)
    BY <1>14
  <2>2. CASE DartReads(r)
    <3>1. PICK c : Touches(r, c)
      BY <2>2, DartTouches
    <3>2. UNCHANGED <<client, incoming, serve, readers, resp>>
      BY <2>2, DartTouches DEF net
    <3>3. r <= serve.req
      <4>1. held[r] # "none" \/ body[r].use # "idle"
        BY <2>2 DEF DartReads, StreamRead, StreamReadStep, StreamReadWaits, FinishBody, ReleaseBody
      <4> QED BY <4>1, Reached
    <3>4. \A q \in Requests : q # r => body'[q] = body[q] /\ held'[q] = held[q]
      BY <3>1, TouchFacts DEF Touches, DartTypes
    <3> QED BY <1>0, <3>2, <3>3, <3>4, FutureOf
  <2>3. CASE RetainBody(r)
    <3>1. /\ UNCHANGED <<client, incoming, serve, readers, resp, body>> /\ resp[r] = "polled"
          /\ held' = [held EXCEPT ![r] = "held"]
      BY <2>3 DEF RetainBody, net
    <3>2. r <= serve.req /\ \A q \in Requests : q # r => held'[q] = held[q]
      BY <3>1, Reached DEF DartTypes
    <3> QED BY <1>0, <3>1, <3>2, FutureOf
  <2>4. CASE DartAnswers(r)
    <3>1. UNCHANGED <<client, incoming, serve, readers, body, held>>
      BY <2>4 DEF DartAnswers, Respond, ReleaseRequest, OpenResponseStream, WriteChunk,
         FinishResponseStream, net
    <3> QED BY <1>1, <3>1
  <2> QED BY <2>1, <2>2, <2>3, <2>4 DEF DartStep, DartReads, DartAnswers
<1>15. CASE PollRequest \/ CloseConnection \/ UNCHANGED httpVars
  BY <1>1, <1>15 DEF PollRequest, CloseConnection, httpVars, net
<1> QED BY <1>2, <1>3, <1>4, <1>5, <1>6, <1>7, <1>8, <1>9, <1>10, <1>11, <1>12, <1>13, <1>14, <1>15
     DEF HttpNext, Http1Step, Answering

(* A thread that waits for a body has something to wait for. *)
LEMMA QueuedByEnlisting ==
    ASSUME NetTypes, DartTypes, UplinkSound, HalfSound, Future, Awaited, RespSound, Queued,
           [HttpNext]_httpVars
    PROVE  \A q \in Requests : resp'[q] \in {"queued", "polled"} =>
             resp[q] \in {"queued", "polled"} \/ Enlists(q)
<1> SUFFICES ASSUME NEW q \in Requests, resp'[q] \in {"queued", "polled"}, ~Enlists(q)
             PROVE  resp[q] \in {"queued", "polled"}
  OBVIOUS
<1>1. CASE \E r, x : Moves(r, x)
  <2>1. PICK r, x : Moves(r, x)
    BY <1>1
  <2> QED BY <2>1 DEF Moves, DartTypes
<1>2. CASE \E r : Enlists(r)
  <2>1. PICK r : Enlists(r)
    BY <1>2
  <2>2. q # r
    BY <2>1
  <2> QED BY <2>1, <2>2, Enqueues DEF Enlists
<1>3. CASE PollRequest
  <2> DEFINE r == registered.pending[1]
  <2>1. r \in Requests /\ resp' = [resp EXCEPT ![r] = "polled"] /\ Len(registered.pending) \in Nat \ {0}
    BY <1>3, Polls
  <2>2. 1 \in DOMAIN registered.pending
    <3>1. registered.pending \in Seq(Requests)
      BY DEF DartTypes
    <3> QED BY <2>1, <3>1
  <2>3. resp[r] = "queued"
    BY <2>2 DEF Queued
  <2> HIDE DEF r
  <2> QED BY <2>1, <2>3 DEF DartTypes
<1>4. CASE Clears
  BY <1>4, Drops DEF Clears
<1> QED BY <1>1, <1>2, <1>3, <1>4, RespSteps

(* A step that leaves a body and its reader alone keeps its sleepers       *)
(* awaited.                                                                *)
LEMMA AwaitedSame ==
    ASSUME NEW q \in Requests, AwaitedAt(q), body'[q] = body[q], readers'[q] = readers[q],
           held'[q] = held[q], resp'[q] \in {"queued", "polled"} => resp[q] \in {"queued", "polled"}
    PROVE  AwaitedAt(q)' /\ (EndsOf(q) => EndsOf(q)')
BY DEF AwaitedAt, EndsOf

(* A reader that ends its body wakes whoever sleeps on it.                 *)
LEMMA AwaitedStops ==
    ASSUME NetTypes, NEW r \in Requests, AwaitedAt(r), NEW c, Stops(r, c)
    PROVE  AwaitedAt(r)' /\ EndsOf(r)'
<1>1. readers[r].on /\ body[r].use # "locked" /\ c \in {MarkFinished(body[r]), MarkError(body[r])}
      /\ UNCHANGED dart
  BY DEF Stops
<1>2. body'[r] = c /\ ~readers'[r].on /\ body[r] \in Body
  BY StopsFacts
<1>3. /\ c.asked = body[r].asked /\ c.finished /\ c.told = body[r].told
      /\ (body[r].use = "idle" <=> c.use = "idle")
      /\ c.use # "locked" /\ c.use # "asleep"
  BY <1>1, <1>2, Marked
<1>4. held' = held
  BY <1>1 DEF dart
<1> HIDE DEF Stops
<1>5. body[r].told # "end"
  BY <1>1 DEF AwaitedAt
<1> QED BY <1>2, <1>3, <1>4, <1>5 DEF AwaitedAt, EndsOf

(* Every step of the HTTP/1 loop keeps Awaited.                            *)
LEMMA AwaitedHttp1 ==
    ASSUME NetTypes, DartTypes, UplinkSound, HalfSound, Future, Awaited, RespSound, Queued, Position, Http1Step
    PROVE  Awaited'
<1>0. /\ serve \in [at : Phases, req : 0..MaxRequests, keep : BOOLEAN]
      /\ ~Mux => len[serve.req] \in Nat \/ serve.req = 0
      /\ UNCHANGED proto /\ Mux' = Mux /\ HttpNext
  BY ProtoKept DEF NetTypes, UplinkSound, Future, HttpNext
<1>1. \A q \in Requests : AwaitedAt(q)
  BY DEF Awaited
<1>2. ASSUME UNCHANGED <<body, readers, held>>, serve'.at = "route" => UNCHANGED serve,
             \A q \in Requests : Enlists(q) => EndsOf(q)
      PROVE  Awaited'
  <2>1. \A q \in Requests : AwaitedAt(q)'
    <3> SUFFICES ASSUME NEW q \in Requests PROVE AwaitedAt(q)'
      OBVIOUS
    <3>1. CASE resp'[q] \in {"queued", "polled"} => resp[q] \in {"queued", "polled"}
      BY <1>1, <1>2, <3>1, AwaitedSame
    <3>2. CASE Enlists(q)
      BY <1>1, <1>2, <3>2 DEF AwaitedAt, EndsOf
    <3> QED BY <1>0, <3>1, <3>2, QueuedByEnlisting
  <2>2. ~Mux' /\ serve'.at = "route" => EndsOf(serve.req)' /\ serve' = serve
    BY <1>0, <1>2 DEF Awaited, EndsOf
  <2> QED BY <2>1, <2>2 DEF Awaited
<1>3. CASE FillBuf \/ ReadHead \/ Answering \/ Reclaim
  <2>1. UNCHANGED <<body, readers, held, resp, registered>> \/ Answering
    BY <1>3 DEF FillBuf, ReadHead, Reclaim, dart
  <2>2. UNCHANGED <<body, readers, held>>
    BY <1>3, AnsweringLeaves DEF FillBuf, ReadHead, Reclaim, dart
  <2>3. serve'.at = "route" => UNCHANGED serve
    BY <1>0, <1>3, AnsweringLeaves, LeavesFacts, ReadsHead DEF FillBuf, Reclaim
  <2>4. \A q \in Requests : ~Enlists(q)
    <3> SUFFICES ASSUME NEW q \in Requests, Enlists(q) PROVE FALSE
      OBVIOUS
    <3>1. resp'[q] = "queued" /\ resp[q] = "none" /\ \A x \in Requests : x # q => resp'[x] = resp[x]
      BY Enqueues DEF Enlists
    <3>2. CASE Answering
      <4>1. resp' = resp \/ \E x \in {"sent", "failed"} : resp' = [resp EXCEPT ![serve.req] = x]
        BY <3>2 DEF Answering, RouteRejected, RejectionFails, ReadEnds, ResponseCancelled, dart
      <4> QED BY <3>1, <4>1 DEF DartTypes
    <3>3. CASE ~Answering
      BY <2>1, <3>1, <3>3
    <3> QED BY <3>2, <3>3
  <2> QED BY <1>2, <2>2, <2>3, <2>4
<1>4. CASE RouteResolved
  <2>1. UNCHANGED <<body, readers, held>> /\ ~Mux /\ serve.at = "route"
    BY <1>4 DEF RouteResolved, At
  <2>2. serve'.req = serve.req /\ serve'.at # "route"
    BY <1>0, <1>4 DEF RouteResolved, ServeEnds
  <2>3. \A q \in Requests : Enlists(q) => EndsOf(q)
    BY <2>1, <2>2 DEF Enlists, Awaited
  <2> QED BY <1>2, <2>1, <2>2, <2>3
<1>5. CASE ReadInline \/ StartBody
  <2> DEFINE r == serve.req
  <2>1. serve.at \in {"inline", "handle"} /\ ~Mux
    BY <1>5 DEF ReadInline, StartBody, At
  <2>2. r \in Requests /\ len[r] \in Nat /\ body[r] \in Body
    BY <1>0, <2>1, Serving, HttpConstants
  <2>3. /\ UNCHANGED <<held, resp, registered>>
        /\ serve' = serve \/ serve' = [serve EXCEPT !.at = "route"]
    BY <1>5, <2>2, ReadsInline, StartsBody DEF dart
  <2>4. serve'.req = r
    BY <1>0, <2>3
  <2>5. \A q \in Requests : ~readers[q].on
    BY <2>1 DEF HalfSound
  <2>6. \A q \in Requests : q # r => body'[q] = body[q] /\ readers'[q] = readers[q]
    <3>1. UNCHANGED body \/ \E c : body' = [body EXCEPT ![r] = c]
      BY <1>5, <2>2, ReadsInline, StartsBody
    <3>2. UNCHANGED readers \/ \E c : readers' = [readers EXCEPT ![r] = c]
      BY <1>5, <2>2, ReadsInline, StartsBody
    <3> QED BY <2>2, <3>1, <3>2 DEF NetTypes
  <2>7. \A q \in Requests : q # r => AwaitedAt(q)'
    BY <1>1, <2>3, <2>6, AwaitedSame
  <2>8. AwaitedAt(r)' /\ (serve'.at = "route" => EndsOf(r)')
    <3>1. CASE \E x \in ByteStrings : body'[r] = InlineBody(x) /\ readers' = readers
      <4>1. body'[r].use = "idle" /\ body'[r].finished /\ ~body'[r].error /\ body'[r].told = "end"
        BY <3>1, Inlined
      <4>2. ~readers'[r].on
        BY <2>2, <2>5, <3>1
      <4> QED BY <2>4, <4>1, <4>2 DEF AwaitedAt, EndsOf
    <3>2. CASE \E x \in ByteStrings : body'[r] = EnqueueBytes(NewBody, x) /\ readers'[r].on
      <4>1. PICK x \in ByteStrings : body'[r] = EnqueueBytes(NewBody, x)
        BY <3>2
      <4>2. NewBody \in Body /\ NewBody.use = "idle" /\ ~NewBody.finished /\ ~NewBody.error /\ NewBody.told = "nothing"
        BY NewBodyType DEF NewBody
      <4>3. body'[r].use = "idle" /\ ~body'[r].finished /\ ~body'[r].error /\ body'[r].told = "nothing"
        BY <4>1, <4>2, Enqueued
      <4> QED BY <2>4, <3>2, <4>3 DEF AwaitedAt, EndsOf
    <3>3. CASE /\ serve' = serve /\ serve.at = "inline" /\ readers' = readers
               /\ \E x \in ByteStrings : body'[r] = [body[r] EXCEPT !.got = x]
      <4>1. /\ body'[r].use = body[r].use /\ body'[r].queue = body[r].queue /\ body'[r].finished = body[r].finished
            /\ body'[r].error = body[r].error /\ body'[r].told = body[r].told
        BY <2>2, <3>3 DEF Body
      <4> QED BY <1>1, <2>2, <2>3, <3>3, <4>1 DEF AwaitedAt, EndsOf
    <3>4. CASE ReadInline
      <4>0. body[r].got \in ByteStrings /\ body \in [Requests -> Body] /\ readers' = readers
        BY <2>2, <3>4, ReadsInline DEF Body, NetTypes
      <4>1. CASE body' = [body EXCEPT ![r] = InlineBody(body[r].got)]
        BY <2>2, <3>1, <4>0, <4>1
      <4>2. CASE body' # [body EXCEPT ![r] = InlineBody(body[r].got)]
        <5>1. PICK n \in 1..(fetched - taken) :
                 /\ serve' = serve
                 /\ body' = [body EXCEPT ![r] = [body[r] EXCEPT !.got = body[r].got \o SubSeq(Buffered, 1, n)]]
          BY <2>2, <3>4, <4>2, ReadsInline
        <5>2. n \in 0..Len(Buffered)
          BY <5>1, UplinkTypes DEF NetTypes
        <5>3. body[r].got \o SubSeq(Buffered, 1, n) \in ByteStrings
          BY <4>0, <5>2, BufferFront, Concats
        <5>4. body'[r] = [body[r] EXCEPT !.got = body[r].got \o SubSeq(Buffered, 1, n)]
          BY <2>2, <4>0, <5>1
        <5>5. serve.at = "inline"
          BY <3>4 DEF ReadInline, At
        <5> QED BY <3>3, <4>0, <5>1, <5>3, <5>4, <5>5
      <4> QED BY <4>1, <4>2
    <3>5. CASE StartBody
      <4>1. PICK n \in 0..Len(Buffered) :
                 \/ /\ n = len[r] /\ body' = [body EXCEPT ![r] = InlineBody(SubSeq(Buffered, 1, n))]
                    /\ UNCHANGED <<half, readers>>
                 \/ /\ n # len[r]
                    /\ body' = [body EXCEPT ![r] = EnqueueBytes(NewBody, SubSeq(Buffered, 1, n))]
                    /\ readers' = [readers EXCEPT ![r] = [on |-> TRUE, count |-> len[r] - n]]
        BY <2>2, <3>5, StartsBody
      <4>2. SubSeq(Buffered, 1, n) \in ByteStrings /\ body \in [Requests -> Body]
        BY <4>1, BufferFront DEF NetTypes
      <4>3. CASE UNCHANGED readers /\ body' = [body EXCEPT ![r] = InlineBody(SubSeq(Buffered, 1, n))]
        BY <2>2, <3>1, <4>2, <4>3
      <4>4. CASE /\ body' = [body EXCEPT ![r] = EnqueueBytes(NewBody, SubSeq(Buffered, 1, n))]
                 /\ readers' = [readers EXCEPT ![r] = [on |-> TRUE, count |-> len[r] - n]]
        <5>1. readers'[r].on /\ body'[r] = EnqueueBytes(NewBody, SubSeq(Buffered, 1, n))
          BY <2>2, <4>2, <4>4 DEF NetTypes
        <5> QED BY <3>2, <4>2, <5>1
      <4> QED BY <4>1, <4>3, <4>4
    <3> QED BY <1>5, <3>4, <3>5
  <2> QED BY <2>4, <2>7, <2>8 DEF Awaited
<1> QED BY <1>3, <1>4, <1>5 DEF Http1Step, Answering

(* A step about one request keeps Awaited when it keeps it for that        *)
(* request.                                                                *)
LEMMA AwaitedFollows ==
    ASSUME NetTypes, DartTypes, UplinkSound, HalfSound, Future, Awaited, RespSound, Queued,
           [HttpNext]_httpVars, UNCHANGED <<serve, registered>> \/ Mux \/ serve'.at # "route",
           NEW r \in Requests,
           \A q \in Requests : ~Enlists(q), AwaitedAt(r)', EndsOf(r) => EndsOf(r)',
           \A q \in Requests : q # r => body'[q] = body[q] /\ readers'[q] = readers[q] /\ held'[q] = held[q]
    PROVE  Awaited'
<1>1. \A q \in Requests : AwaitedAt(q)
  BY DEF Awaited
<1>2. \A q \in Requests : resp'[q] \in {"queued", "polled"} => resp[q] \in {"queued", "polled"}
  BY QueuedByEnlisting
<1>3. \A q \in Requests : q # r => AwaitedAt(q)' /\ (EndsOf(q) => EndsOf(q)')
  BY <1>1, <1>2, AwaitedSame
<1>4. Mux' = Mux
  BY ProtoKept
<1>5. ~Mux /\ serve.at = "route" => serve.req \in Requests
  BY Serving
<1> QED BY <1>3, <1>4, <1>5 DEF Awaited

(* A request is queued only by a change of both the queue and its          *)
(* response.                                                               *)
LEMMA NoneEnlisted ==
    ASSUME DartTypes, NEW q \in Requests, UNCHANGED registered \/ UNCHANGED resp
    PROVE  ~Enlists(q)
<1> SUFFICES ASSUME Enlists(q) PROVE FALSE
  OBVIOUS
<1>1. /\ resp'[q] = "queued" /\ resp[q] = "none" /\ registered.pending \in Seq(Requests)
      /\ registered'.pending = Append(registered.pending, q)
  BY Enqueues DEF Enlists
<1>2. Len(registered'.pending) = Len(registered.pending) + 1 /\ Len(registered.pending) \in Nat
  BY <1>1
<1>3. registered' # registered
  BY <1>2
<1> QED BY <1>1, <1>3

(* A body reader's step keeps Awaited.                                     *)
LEMMA AwaitedReaders ==
    ASSUME NetTypes, DartTypes, UplinkSound, HalfSound, Future, Awaited, RespSound, Queued,
           HttpNext, NEW r \in Requests, Http1BodyStep(r) \/ BodyStep(r)
    PROVE  Awaited'
<1>0. AwaitedAt(r) /\ body[r] \in Body
  BY DEF Awaited, NetTypes
<1>1. UNCHANGED <<serve, registered, dart>> /\ \A q \in Requests : ~Enlists(q)
  <2>1. UNCHANGED <<serve, registered, dart>>
    BY DEF Http1BodyStep, BodyStep, Http1BodyRead, Http1BodyDone, Http1BodyFails, BodyAbandoned,
       BodyData, BodyEnd, BodyBroken, BodyTimesOut
  <2> QED BY <2>1, NoneEnlisted
<1>2. held' = held
  BY <1>1 DEF dart
<1>3. ASSUME NEW x \in ByteStrings, body'[r] = EnqueueBytes(body[r], x) \/ body'[r] = body[r],
             body[r].use # "locked", readers[r].on, readers'[r].on
      PROVE  AwaitedAt(r)' /\ EndsOf(r)'
  <2>1. CASE body'[r] = body[r]
    BY <1>0, <1>2, <1>3, <2>1 DEF AwaitedAt, EndsOf
  <2>2. CASE body'[r] = EnqueueBytes(body[r], x)
    <3> DEFINE c == body'[r]
    <3>1. /\ c.finished = body[r].finished /\ c.error = body[r].error
          /\ c.told = body[r].told /\ (body[r].use = "idle" <=> c.use = "idle")
          /\ c.use # "locked" /\ (c.use = "asleep" => c = body[r])
      BY <1>0, <1>3, <2>2, Enqueued
    <3> HIDE DEF c
    <3> QED BY <1>0, <1>2, <1>3, <3>1 DEF AwaitedAt, EndsOf, c
  <2> QED BY <1>3, <2>1, <2>2
<1>4. CASE Http1BodyRead(r)
  <2>1. PICK n \in 1..(Len(uplink) - fetched) :
                /\ n <= readers[r].count
                /\ readers' = [readers EXCEPT ![r].count = readers[r].count - n]
                /\ \/ body[r].asked /\ body' = body
                   \/ /\ ~body[r].asked
                      /\ body' = [body EXCEPT ![r] =
                                    EnqueueBytes(body[r], SubSeq(uplink, fetched + 1, fetched + n))]
    BY <1>4, BodyReads
  <2> DEFINE x == SubSeq(uplink, fetched + 1, fetched + n)
  <2>2. x \in ByteStrings
    BY <2>1, UplinkPart
  <2> HIDE DEF x
  <2>3. EnqueueBytes(body[r], x) \in Body
    BY <1>0, <2>2, Enqueued
  <2>4. /\ body'[r] = EnqueueBytes(body[r], x) \/ body'[r] = body[r]
        /\ \A q \in Requests : q # r => body'[q] = body[q]
    BY <2>1, <2>3, BodyChanges DEF x
  <2>5. readers[r].count - n \in Nat
    BY <2>1, UplinkTypes DEF NetTypes
  <2>6. readers'[r].on = readers[r].on /\ \A q \in Requests : q # r => readers'[q] = readers[q]
    BY <2>1, <2>5, ReaderCounts
  <2>7. readers[r].on /\ body[r].use # "locked"
    BY <1>4, BodyReads
  <2>8. AwaitedAt(r)' /\ EndsOf(r)'
    BY <1>3, <2>2, <2>4, <2>6, <2>7
  <2> QED BY <1>1, <1>2, <2>4, <2>6, <2>8, AwaitedFollows
<1>5. CASE BodyData(r)
  <2>0. Mux /\ readers[r].on /\ body[r].use # "locked"
    BY <1>5, ReadsData
  <2>1. CASE body' = [body EXCEPT ![r] = MarkError(body[r])] /\ readers' = [readers EXCEPT ![r].on = FALSE]
    <3> DEFINE c == MarkError(body[r])
    <3>1. Stops(r, c)
      BY <1>5, <2>1, ReadsData DEF Stops, input, record
    <3>2. /\ AwaitedAt(r)' /\ EndsOf(r)'
          /\ \A q \in Requests : q # r => body'[q] = body[q] /\ readers'[q] = readers[q]
      <4> HIDE DEF c
      <4> QED BY <1>0, <3>1, AwaitedStops, StopsFacts
    <3> QED BY <1>1, <1>2, <3>2, AwaitedFollows
  <2>2. CASE /\ body' = [body EXCEPT ![r] = EnqueueBytes(body[r], <<Head(incoming[r].data)>>)]
             /\ readers' = [readers EXCEPT ![r].count = readers[r].count + 1]
    <3> DEFINE x == <<Head(incoming[r].data)>>
    <3>1. x \in ByteStrings /\ readers[r].count + 1 \in Nat
      <4>1. Head(incoming[r].data) \in Nat \X Nat
        BY <1>5, ReadsData
      <4> QED BY <4>1 DEF ByteStrings, NetTypes
    <3> HIDE DEF x
    <3>2. EnqueueBytes(body[r], x) \in Body
      BY <1>0, <3>1, Enqueued
    <3>3. body'[r] = EnqueueBytes(body[r], x) /\ \A q \in Requests : q # r => body'[q] = body[q]
      BY <2>2, <3>2, BodyChanges DEF x
    <3>4. readers'[r].on = readers[r].on /\ \A q \in Requests : q # r => readers'[q] = readers[q]
      BY <2>2, <3>1, ReaderCounts
    <3>5. AwaitedAt(r)' /\ EndsOf(r)'
      BY <1>3, <2>0, <3>1, <3>3, <3>4
    <3> QED BY <1>1, <1>2, <3>3, <3>4, <3>5, AwaitedFollows
  <2> QED BY <1>5, <2>1, <2>2, ReadsData
<1>6. CASE ~Http1BodyRead(r) /\ ~BodyData(r)
  <2>1. \/ Http1BodyDone(r) \/ Http1BodyFails(r) \/ BodyAbandoned(r) \/ BodyEnd(r) \/ BodyBroken(r)
        \/ \E why \in {"idle", "total"} : BodyTimesOut(r, why)
    BY <1>6 DEF Http1BodyStep, BodyStep
  <2>2. PICK c : Stops(r, c)
    BY <2>1, BodyStops
  <2>3. /\ AwaitedAt(r)' /\ EndsOf(r)'
        /\ \A q \in Requests : q # r => body'[q] = body[q] /\ readers'[q] = readers[q]
    BY <1>0, <2>2, AwaitedStops, StopsFacts
  <2> QED BY <1>1, <1>2, <2>3, AwaitedFollows
<1> QED BY <1>4, <1>5, <1>6

(* Every step keeps Awaited.                                               *)
LEMMA AwaitedHolds ==
    ASSUME NetTypes, DartTypes, UplinkSound, HalfSound, Future, Awaited, Position, RespSound,
           Queued, [HttpNext]_httpVars
    PROVE  Awaited'
<1>0. serve \in [at : Phases, req : 0..MaxRequests, keep : BOOLEAN] /\ 1 \in Requests
  BY HttpConstants DEF NetTypes
<1>1. ASSUME UNCHANGED <<body, readers, held>>,
             UNCHANGED <<serve, registered>> \/ Mux \/ serve'.at # "route",
             \A q \in Requests : ~Enlists(q)
      PROVE  Awaited'
  <2>1. \A q \in Requests : resp'[q] \in {"queued", "polled"} => resp[q] \in {"queued", "polled"}
    BY <1>1, QueuedByEnlisting
  <2>2. AwaitedAt(1)' /\ (EndsOf(1) => EndsOf(1)')
    BY <1>0, <1>1, <2>1, AwaitedSame DEF Awaited
  <2> QED BY <1>0, <1>1, <2>2, AwaitedFollows
<1>2. CASE Http1Step
  BY <1>2, AwaitedHttp1
<1>3. CASE PeerOpens \/ PeerSendsByte \/ PeerLeaves \/ UNCHANGED httpVars
  <2>1. UNCHANGED <<body, readers, held, serve, registered>>
    BY <1>3 DEF PeerOpens, PeerSendsByte, PeerLeaves, httpVars, dart
  <2> QED BY <1>1, <2>1, NoneEnlisted
<1>4. CASE AcceptRequest
  <2> DEFINE r == serve.req + 1
  <2>1. r \in Requests /\ serve'.req = r /\ r > serve.req /\ UNCHANGED <<body, held>> /\ Mux
    BY <1>0, <1>4, Accepts
  <2>2. Fresh(r)
    BY <2>1 DEF Future
  <2>3. PICK x \in Requests : x = r
    BY <2>1
  <2> HIDE DEF r
  <2>4. body'[x] = NewBody /\ held'[x] = "none" /\ resp[x] = "none"
    BY <2>1, <2>2, <2>3 DEF Fresh
  <2>5. NewBody.use = "idle" /\ ~NewBody.finished /\ ~NewBody.error /\ NewBody.told = "nothing"
    BY DEF NewBody
  <2>6. \A q \in Requests : Enlists(q) => q = x
    BY <2>1, <2>3 DEF Enlists
  <2>7. readers' = [readers EXCEPT ![x].on = TRUE] \/ (UNCHANGED <<readers, registered>>)
    BY <1>4, <2>3, Accepts DEF r
  <2>8. /\ \A q \in Requests : q # x => readers'[q] = readers[q]
        /\ Enlists(x) => readers'[x].on
    <3>1. CASE readers' = [readers EXCEPT ![x].on = TRUE]
      BY <3>1, ReaderTurns
    <3>2. CASE UNCHANGED <<readers, registered>>
      BY <3>2, NoneEnlisted
    <3> QED BY <2>7, <3>1, <3>2
  <2>9. resp'[x] \in {"queued", "polled"} => readers'[x].on
    BY <2>4, <2>8, QueuedByEnlisting
  <2>10. AwaitedAt(x)'
    BY <2>4, <2>5, <2>9 DEF AwaitedAt, EndsOf
  <2>11. \A q \in Requests : q # x => AwaitedAt(q)'
    <3> SUFFICES ASSUME NEW q \in Requests, q # x PROVE AwaitedAt(q)'
      OBVIOUS
    <3>1. resp'[q] \in {"queued", "polled"} => resp[q] \in {"queued", "polled"}
      BY <2>6, QueuedByEnlisting
    <3> QED BY <2>1, <2>8, <3>1, AwaitedSame DEF Awaited
  <2> QED BY <2>1, <2>10, <2>11, ProtoKept DEF Awaited
<1>5. CASE AcceptEnds
  <2>1. UNCHANGED <<body, readers, held>> /\ Mux
    BY <1>5, EndsAccepting
  <2>2. \A q \in Requests : ~Enlists(q)
    <3> SUFFICES ASSUME NEW q \in Requests, Enlists(q) PROVE FALSE
      OBVIOUS
    <3>1. registered'.pending = Append(registered.pending, q) /\ registered.pending \in Seq(Requests)
      BY Enqueues DEF Enlists
    <3>2. registered'.pending # <<>>
      BY <3>1
    <3>3. registered'.pending = <<>>
      BY <1>5, EndsAccepting DEF Finishes
    <3> QED BY <3>2, <3>3
  <2> QED BY <1>1, <2>1, <2>2
<1>6. CASE \E r \in Requests : Http1BodyStep(r) \/ BodyStep(r)
  BY <1>6, AwaitedReaders DEF HttpNext
<1>7. CASE \E r \in Requests : SendStep(r)
  <2>1. UNCHANGED <<body, readers, held, registered>>
    BY <1>7, SendTypes
  <2>2. UNCHANGED serve \/ serve'.at # "route"
    BY <1>7, SendLeaves, LeavesFacts
  <2> QED BY <1>1, <2>1, <2>2, NoneEnlisted
<1>8. CASE \E r \in Requests : DartStep(r)
  <2>1. PICK r \in Requests : DartStep(r)
    BY <1>8
  <2>0. AwaitedAt(r) /\ body[r] \in Body
    BY DEF Awaited, NetTypes
  <2>2. CASE DartReads(r)
    <3>1. PICK c : Touches(r, c)
      BY <2>2, DartTouches
    <3>2. UNCHANGED <<serve, registered, readers, resp>>
      BY <2>2, DartTouches
    <3>3. body'[r] = c /\ \A q \in Requests : q # r => body'[q] = body[q] /\ held'[q] = held[q]
      BY <3>1, TouchFacts DEF Touches, DartTypes
    <3>4. held'[r] = held[r] \/ (held'[r] = "released" /\ held[r] = "held" /\ c.use = "idle")
      BY <3>1 DEF Touches, DartTypes
    <3>5. /\ c.finished = body[r].finished /\ c.error = body[r].error
          /\ c.told = "end" => body[r].told = "end" \/ (body[r].finished /\ ~body[r].error)
          /\ c.use \in {"locked", "asleep"} => c.queue = <<>> /\ ~c.finished
          /\ c.use # "idle" => held[r] = "held"
      BY <3>1 DEF Touches
    <3>6. AwaitedAt(r)' /\ (EndsOf(r) => EndsOf(r)')
      BY <2>0, <3>2, <3>3, <3>4, <3>5 DEF AwaitedAt, EndsOf
    <3> QED BY <3>2, <3>3, <3>6, AwaitedFollows, NoneEnlisted
  <2>3. CASE RetainBody(r)
    <3>1. /\ UNCHANGED <<serve, registered, readers, resp, body>> /\ resp[r] = "polled"
          /\ held' = [held EXCEPT ![r] = "held"]
      BY <2>3 DEF RetainBody
    <3>2. held'[r] = "held" /\ \A q \in Requests : q # r => held'[q] = held[q]
      BY <3>1 DEF DartTypes
    <3>3. AwaitedAt(r)' /\ (EndsOf(r) => EndsOf(r)')
      BY <2>0, <3>1, <3>2 DEF AwaitedAt, EndsOf
    <3> QED BY <3>1, <3>2, <3>3, AwaitedFollows, NoneEnlisted
  <2>4. CASE DartAnswers(r)
    <3>1. UNCHANGED <<serve, registered, readers, body, held>>
      BY <2>4 DEF DartAnswers, Respond, ReleaseRequest, OpenResponseStream, WriteChunk,
         FinishResponseStream
    <3> QED BY <1>1, <3>1, NoneEnlisted
  <2> QED BY <2>1, <2>2, <2>3, <2>4 DEF DartStep, DartReads, DartAnswers
<1>9. CASE PollRequest \/ CloseConnection
  <2>1. UNCHANGED <<serve, readers, body, held>>
    BY <1>9 DEF PollRequest, CloseConnection
  <2>2. \A q \in Requests : ~Enlists(q)
    <3> SUFFICES ASSUME NEW q \in Requests, Enlists(q) PROVE FALSE
      OBVIOUS
    <3>1. registered'.pending = Append(registered.pending, q) /\ registered.pending \in Seq(Requests)
      BY Enqueues DEF Enlists
    <3>2. Len(registered'.pending) = Len(registered.pending) + 1 /\ Len(registered.pending) \in Nat
      BY <3>1
    <3>3. CASE PollRequest
      <4>1. Len(registered'.pending) = Len(registered.pending) - 1
        BY <3>3, Polls
      <4> QED BY <3>2, <4>1
    <3>4. CASE CloseConnection
      <4>1. registered'.pending = <<>> /\ Len(<<>>) = 0
        BY <3>4 DEF CloseConnection
      <4> QED BY <3>2, <4>1
    <3> QED BY <1>9, <3>3, <3>4
  <2>3. Mux \/ serve'.at # "route" \/ (~Mux /\ serve.at = "route")
    BY <2>1
  <2>4. \A q \in Requests : resp'[q] \in {"queued", "polled"} => resp[q] \in {"queued", "polled"}
    BY <2>2, QueuedByEnlisting
  <2>5. \A q \in Requests : AwaitedAt(q)' /\ (EndsOf(q) => EndsOf(q)')
    BY <2>1, <2>4, AwaitedSame DEF Awaited
  <2>6. ~Mux /\ serve.at = "route" => serve.req \in Requests
    BY Serving
  <2> QED BY <2>1, <2>5, <2>6, ProtoKept DEF Awaited
<1> QED BY <1>2, <1>3, <1>4, <1>5, <1>6, <1>7, <1>8, <1>9 DEF HttpNext

(* Where the HTTP/1 task and the reader of a body are in the byte stream. *)
LEMMA PositionKept ==
    ASSUME Position, UNCHANGED <<proto, uplink, len, fetched, taken, readers>>, serve'.req = serve.req,
           half' \in {"serve", "returned"} /\ serve'.at \notin {"inline", "handle"} =>
             half \in {"serve", "returned"} /\ serve.at \notin {"inline", "handle"},
           serve'.at \in {"inline", "handle"} => serve'.at = serve.at /\ UNCHANGED <<body, held>>
    PROVE  Position'
BY DEF Position, AtEnd, AtByte, Mux, Prefix, Byte

(* What the peer sends moves no reader.                                    *)
LEMMA PositionPeer ==
    ASSUME NetTypes, UplinkSound, HalfSound, Future, Position, PeerOpens \/ PeerSendsByte
    PROVE  Position'
<1>0. /\ Len(uplink) \in Nat /\ taken \in Nat /\ taken <= Len(uplink) /\ serve.req \in Nat
      /\ client.opened \in Nat /\ serve.req <= client.opened
  BY UplinkTypes DEF NetTypes, Future
<1>1. UNCHANGED <<proto, fetched, taken, half, serve, readers, body, held>>
  BY DEF PeerOpens, PeerSendsByte, input, dart
<1> SUFFICES ASSUME ~Mux PROVE Position'
  BY <1>1 DEF Position, Mux
<1>2. \A i \in 1..Len(uplink) : uplink'[i] = uplink[i]
  <2>1. CASE PeerOpens
    <3>1. uplink' = Append(uplink, <<client.opened + 1, 0>>) /\ <<client.opened + 1, 0>> \in Nat \X Nat
      BY <1>0, <2>1, OpensOne
    <3> QED BY <3>1, Sends
  <2>2. CASE PeerSendsByte
    <3>1. client.opened > 0 /\ uplink' = Append(uplink, <<client.opened, SentOfLast + 1>>)
      BY <2>2 DEF PeerSendsByte, Byte
    <3>2. SentOfLast \in Nat
      BY <3>1, LastByte
    <3>3. <<client.opened, SentOfLast + 1>> \in Nat \X Nat
      BY <1>0, <3>2
    <3> QED BY <3>1, <3>3, Sends
  <2> QED BY <2>1, <2>2
<1>3. taken > 0 => uplink'[taken] = uplink[taken]
  BY <1>0, <1>2
<1>4. \A r \in Requests : r <= serve.req => len'[r] = len[r]
  <2>1. CASE PeerOpens
    <3>1. \A r \in Requests : r <= serve.req => r # client.opened + 1
      BY <1>0, Positive
    <3> QED BY <2>1, <3>1, OpensOne
  <2>2. CASE PeerSendsByte
    BY <2>2 DEF PeerSendsByte
  <2> QED BY <2>1, <2>2
<1>5. serve.req > 0 => serve.req \in Requests /\ len'[serve.req] = len[serve.req]
  <2>1. serve.req > 0 => serve.req \in Requests /\ serve.req <= serve.req
    BY <1>0 DEF NetTypes, Requests
  <2> QED BY <1>4, <2>1
<1>6. \A r \in Requests : readers[r].on => len'[r] = len[r]
  BY <1>4, Reached
<1>7. AtEnd(serve.req) => AtEnd(serve.req)'
  BY <1>1, <1>3, <1>5 DEF AtEnd, AtByte
<1>8. half \in {"serve", "returned"} /\ serve.at \notin {"inline", "handle"} => AtEnd(serve.req)'
  BY <1>7 DEF Position
<1>9. ASSUME serve.at = "inline"
      PROVE  LET b == body[serve.req] IN
           /\ AtByte(serve.req, Len(b.got))'
           /\ b.got = Prefix(serve.req, Len(b.got)) /\ b.queue = <<>> /\ b.use = "idle"
           /\ ~b.finished /\ ~b.error /\ ~b.asked /\ b.told = "nothing" /\ held[serve.req] = "none"
  BY <1>1, <1>3, <1>9 DEF Position, AtByte
<1>10. serve.at = "handle" => AtByte(serve.req, 0)'
  BY <1>1, <1>3 DEF Position, AtByte
<1>11. ASSUME NEW r \in Requests, readers[r].on
       PROVE  /\ taken = fetched /\ readers[r].count <= len'[r]
              /\ AtByte(r, len[r] - readers[r].count)'
  BY <1>1, <1>3, <1>6, <1>11 DEF Position, AtByte
<1> QED BY <1>1, <1>8, <1>9, <1>10, <1>11 DEF Position, Prefix, Byte

(* The bytes of a request that come next. *)
LEMMA NextBytes ==
    ASSUME NetTypes, UplinkSound, Future, ~Mux, NEW r \in Requests, r <= serve.req,
           NEW j \in Nat, AtByte(r, j), NEW n \in Nat, taken + n <= Len(uplink), j + n <= len[r]
    PROVE  \A i \in 0..n : uplink[taken + i] = <<r, j + i>>
<1>1. taken \in 1..Len(uplink) /\ uplink[taken] = <<r, j>>
  BY UplinkTypes DEF NetTypes, AtByte
<1>2. r \in 1..client.opened
  BY Positive DEF Future, NetTypes
<1>3. len[r] \in Nat
  BY <1>2 DEF UplinkSound
<1> QED BY <1>1, <1>3, Run

(* A byte that is there is within the request's length. *)
LEMMA Within ==
    ASSUME NetTypes, UplinkSound, NEW r, NEW j, AtByte(r, j)
    PROVE  j <= len[r]
<1>1. taken \in DOMAIN uplink /\ uplink[taken] = <<r, j>>
  BY UplinkTypes DEF NetTypes, AtByte
<1> QED BY <1>1 DEF UplinkSound

(* A prefix of a body and the bytes that follow it are a longer prefix.    *)
LEMMA Extends ==
    ASSUME NEW r \in Requests, NEW m \in Nat, NEW n \in Nat, NEW x \in ByteStrings, Len(x) = n,
           \A i \in 1..n : x[i] = <<r, m + i>>
    PROVE  Prefix(r, m) \o x = Prefix(r, m + n)
<1>1. /\ Prefix(r, m) \in Seq(Nat \X Nat) /\ Len(Prefix(r, m)) = m
      /\ \A i \in 1..m : Prefix(r, m)[i] = <<r, i>>
  BY Prefixed DEF ByteStrings
<1>2. m + n \in Nat
  OBVIOUS
<1>3. /\ Prefix(r, m + n) \in Seq(Nat \X Nat) /\ Len(Prefix(r, m + n)) = m + n
      /\ \A i \in 1..(m + n) : Prefix(r, m + n)[i] = <<r, i>>
  BY <1>2, Prefixed DEF ByteStrings
<1> DEFINE p == Prefix(r, m)
           w == Prefix(r, m + n)
<1> HIDE DEF p, w
<1>4. x \in Seq(Nat \X Nat)
  BY DEF ByteStrings
<1>5. /\ p \o x \in Seq(Nat \X Nat) /\ Len(p \o x) = m + n
      /\ \A i \in 1..(m + n) : (p \o x)[i] = IF i <= m THEN p[i] ELSE x[i - m]
  <2>1. p \in Seq(Nat \X Nat) /\ Len(p) = m
    BY <1>1 DEF p
  <2>2. /\ p \o x \in Seq(Nat \X Nat) /\ Len(p \o x) = Len(p) + Len(x)
        /\ \A i \in 1..(Len(p) + Len(x)) : (p \o x)[i] = IF i <= Len(p) THEN p[i] ELSE x[i - Len(p)]
    BY <1>4, <2>1, ConcatProperties
  <2> QED BY <2>1, <2>2
<1>6. ASSUME NEW i \in 1..(m + n) PROVE (p \o x)[i] = w[i]
  <2>1. CASE i <= m
    <3>1. i \in 1..m
      BY <2>1
    <3> QED BY <1>1, <1>3, <1>5, <2>1, <3>1 DEF p, w
  <2>2. CASE ~(i <= m)
    <3>1. i - m \in 1..n /\ m + (i - m) = i
      BY <2>2
    <3>2. x[i - m] = <<r, i>>
      BY <3>1
    <3> QED BY <1>3, <1>5, <2>2, <3>2 DEF w
  <2> QED BY <2>1, <2>2
<1>7. p \o x = w
  <2>1. w \in Seq(Nat \X Nat) /\ Len(w) = m + n
    BY <1>3 DEF w
  <2> QED BY <1>5, <1>6, <2>1, SeqEqual
<1> QED BY <1>7 DEF p, w

(* Every step of the HTTP/1 loop keeps Position.                           *)
LEMMA PositionHttp1 ==
    ASSUME NetTypes, DartTypes, UplinkSound, HalfSound, Future, Position, Http1Step
    PROVE  Position'
<1>0. /\ serve \in [at : Phases, req : 0..MaxRequests, keep : BOOLEAN]
      /\ ~Mux => len[serve.req] \in Nat \/ serve.req = 0
      /\ UNCHANGED proto /\ Mux' = Mux
      /\ taken \in Nat /\ fetched \in Nat /\ fetched <= Len(uplink) /\ Len(uplink) \in Nat
      /\ serve.req \in Nat
  BY ProtoKept, UplinkTypes DEF NetTypes, UplinkSound, Future, HttpNext
<1>1. CASE FillBuf
  <2>1. ~Mux /\ serve.at \in {"read", "inline"} /\ UNCHANGED <<net, taken, half, serve, readers, body, held>>
    BY <1>1 DEF FillBuf, At, dart
  <2>2. \A r \in Requests : ~readers[r].on
    BY <2>1 DEF HalfSound
  <2> QED BY <1>0, <2>1, <2>2 DEF Position, AtEnd, AtByte, net, Prefix, Byte
<1>2. CASE ReadHead
  <2>1. /\ ~Mux /\ serve.at = "read" /\ taken' = taken + 1 /\ serve'.req \in Requests
        /\ UNCHANGED <<net, half, readers, body, held>> /\ serve'.at \in {"inline", "handle"}
    BY <1>2, ReadsHead DEF dart
  <2>2. uplink[taken + 1] = <<serve'.req, 0>> /\ serve'.req = serve.req + 1
    BY <1>2, NextRequest
  <2>3. \A r \in Requests : ~readers[r].on
    BY <2>1 DEF HalfSound
  <2>4. body[serve'.req] = NewBody /\ held'[serve'.req] = "none"
    <3>1. serve'.req > serve.req
      BY <1>0, <2>2
    <3> QED BY <2>1, <3>1 DEF Future, Fresh
  <2>5. /\ NewBody.got = <<>> /\ NewBody.queue = <<>> /\ NewBody.use = "idle"
        /\ ~NewBody.finished /\ ~NewBody.error /\ ~NewBody.asked /\ NewBody.told = "nothing"
    BY DEF NewBody
  <2>6. Prefix(serve'.req, 0) = <<>> /\ Len(<<>>) = 0
    BY DEF Prefix
  <2>7. taken' > 0 /\ uplink' = uplink
    BY <1>0, <2>1 DEF net
  <2>8. AtByte(serve.req, 0)'
    BY <2>1, <2>2, <2>7 DEF AtByte
  <2> DEFINE b == body'[serve'.req]
  <2>9. /\ b.got = <<>> /\ b.queue = <<>> /\ b.use = "idle"
        /\ ~b.finished /\ ~b.error /\ ~b.asked /\ b.told = "nothing"
    BY <2>1, <2>4, <2>5
  <2>10. AtByte(serve.req, Len(body[serve.req].got))' /\ b.got = Prefix(serve'.req, Len(b.got))
    BY <2>6, <2>8, <2>9 DEF AtByte
  <2>11. \A r \in Requests : ~readers'[r].on
    BY <2>1, <2>3
  <2> QED BY <2>1, <2>4, <2>8, <2>9, <2>10, <2>11 DEF Position, Prefix, Byte
<1>3. CASE ReadInline
  <2> DEFINE r == serve.req
             g == body[r].got
  <2>1. serve.at = "inline" /\ ~Mux
    BY <1>3 DEF ReadInline, At
  <2>2. r \in Requests /\ len[r] \in Nat /\ body[r] \in Body /\ g \in ByteStrings
    BY <1>0, <2>1, Serving, HttpConstants DEF Body
  <2>3. /\ AtByte(r, Len(g)) /\ g = Prefix(r, Len(g)) /\ body[r].queue = <<>> /\ body[r].use = "idle"
        /\ ~body[r].finished /\ ~body[r].error /\ ~body[r].asked /\ body[r].told = "nothing"
        /\ held[r] = "none"
    BY <2>1 DEF Position
  <2>4. UNCHANGED <<proto, uplink, len, fetched, half, readers, held>>
    BY <1>3, <2>2, ReadsInline DEF net, dart
  <2>5. half = "serve" /\ \A q \in Requests : ~readers[q].on
    BY <2>1 DEF HalfSound
  <2>6. CASE /\ Len(g) = len[r] /\ serve' = [serve EXCEPT !.at = "route"] /\ taken' = taken
    <3>1. serve'.req = serve.req /\ serve'.at = "route"
      BY <1>0, <2>6
    <3>2. AtEnd(serve.req)'
      <4>1. r > 0 /\ uplink[taken] = <<r, len[r]>> /\ taken > 0
        BY <2>2, <2>3, <2>6, Positive DEF AtByte
      <4> QED BY <2>4, <2>6, <3>1, <4>1 DEF AtEnd, AtByte
    <3> QED BY <2>4, <2>5, <3>1, <3>2 DEF Position
  <2>7. CASE ~(Len(g) = len[r] /\ serve' = [serve EXCEPT !.at = "route"] /\ taken' = taken)
    <3>1. PICK n \in 1..(fetched - taken) :
                 /\ serve' = serve /\ taken' = taken + n
                 /\ Len(g) < len[r] => n <= len[r] - Len(g)
                 /\ Len(g) # len[r]
                 /\ body' = [body EXCEPT ![r] = [body[r] EXCEPT !.got = g \o SubSeq(Buffered, 1, n)]]
      BY <1>3, <2>2, <2>7, ReadsInline
    <3> DEFINE m == Len(g)
               x == SubSeq(Buffered, 1, n)
    <3>2. m \in Nat
      BY <2>2 DEF ByteStrings
    <3>3. m <= len[r]
      BY <2>3, Within
    <3> HIDE DEF m
    <3>4. m + n <= len[r] /\ n \in Nat /\ taken + n <= Len(uplink) /\ n <= fetched - taken
      BY <1>0, <2>2, <3>1, <3>2, <3>3 DEF m
    <3>5. \A i \in 0..n : uplink[taken + i] = <<r, m + i>>
      <4>1. r <= serve.req
        BY <1>0
      <4>2. AtByte(r, m)
        BY <2>3 DEF m
      <4> HIDE DEF r
      <4> QED BY <2>1, <2>2, <3>2, <3>4, <4>1, <4>2, NextBytes
    <3>6. n \in 0..Len(Buffered)
      BY <1>0, <3>4, UplinkTypes
    <3>7. x \in ByteStrings /\ Len(x) = n /\ \A i \in 1..n : x[i] = uplink[taken + i]
      BY <3>6, BufferFront
    <3>8. \A i \in 1..n : x[i] = <<r, m + i>>
      BY <3>4, <3>5, <3>7
    <3> HIDE DEF x
    <3>9. g \o x = Prefix(r, m + n)
      <4>1. g = Prefix(r, m)
        BY <2>3 DEF m
      <4> HIDE DEF r, g
      <4> QED BY <2>2, <3>2, <3>4, <3>7, <3>8, <4>1, Extends
    <3>10. Len(Prefix(r, m + n)) = m + n /\ Prefix(r, m + n) \in ByteStrings /\ m + n \in Nat
      <4>1. m + n \in Nat
        BY <3>2, <3>4
      <4> QED BY <2>2, <4>1, Prefixed
    <3> DEFINE b == body'[r]
    <3>11. b = [body[r] EXCEPT !.got = Prefix(r, m + n)]
      <4>1. body' = [body EXCEPT ![r] = [body[r] EXCEPT !.got = Prefix(r, m + n)]]
        BY <3>1, <3>9 DEF x
      <4> QED BY <2>2, <4>1 DEF NetTypes
    <3>12. /\ b.got = Prefix(r, m + n) /\ b.queue = <<>> /\ b.use = "idle"
           /\ ~b.finished /\ ~b.error /\ ~b.asked /\ b.told = "nothing"
      <4> HIDE DEF b
      <4> QED BY <2>2, <2>3, <3>11 DEF Body
    <3> HIDE DEF b
    <3>13. taken' > 0 /\ uplink[taken'] = <<r, m + n>>
      <4>1. n \in 0..n
        BY <3>4
      <4> QED BY <1>0, <3>1, <3>5, <4>1
    <3>14. serve'.req = r /\ serve'.at = "inline"
      BY <2>1, <3>1
    <3>15. AtByte(serve.req, Len(body[serve.req].got))'
      BY <2>4, <3>10, <3>12, <3>13, <3>14 DEF AtByte, b
    <3>16. b.got = Prefix(r, Len(b.got))
      BY <3>10, <3>12
    <3>17. \A q \in Requests : ~readers'[q].on
      BY <2>4, <2>5
    <3> QED BY <2>3, <2>4, <3>12, <3>14, <3>15, <3>16, <3>17 DEF Position, b, Prefix, Byte
  <2> QED BY <2>6, <2>7
<1>4. CASE StartBody
  <2> DEFINE r == serve.req
  <2>1. serve.at = "handle" /\ ~Mux
    BY <1>4 DEF StartBody, At
  <2>2. r \in Requests /\ len[r] \in Nat /\ r > 0 /\ AtByte(r, 0)
    BY <1>0, <2>1, Serving, Positive DEF Position
  <2>3. UNCHANGED <<proto, uplink, len, fetched>> /\ serve' = [serve EXCEPT !.at = "route"]
    BY <1>4, <2>2, StartsBody DEF net
  <2>4. serve'.req = serve.req /\ serve'.at = "route"
    BY <1>0, <2>3
  <2>5. half = "serve" /\ \A q \in Requests : ~readers[q].on
    BY <2>1 DEF HalfSound
  <2>6. PICK n \in 0..Len(Buffered) :
                /\ n <= len[r] /\ taken' = taken + n
                /\ \/ n = len[r] /\ UNCHANGED <<half, readers>>
                   \/ /\ n # len[r] /\ n = Len(Buffered) /\ half' = "body"
                      /\ readers' = [readers EXCEPT ![r] = [on |-> TRUE, count |-> len[r] - n]]
    BY <1>4, <2>2, StartsBody
  <2>7. n \in Nat /\ taken + n <= fetched /\ taken + n <= Len(uplink) /\ 0 + n <= len[r] /\ n \in 0..n
        /\ (n = Len(Buffered) => taken + n = fetched)
    BY <1>0, <2>6, UplinkTypes
  <2>8. uplink[taken + n] = <<r, n>> /\ taken + n > 0
    <3>1. r <= serve.req
      BY <1>0
    <3>2. taken > 0
      BY <2>2 DEF AtByte
    <3> HIDE DEF r
    <3>3. \A i \in 0..n : uplink[taken + i] = <<r, 0 + i>>
      BY <2>1, <2>2, <2>7, <3>1, NextBytes
    <3> QED BY <1>0, <2>7, <3>2, <3>3
  <2>9. CASE n = len[r] /\ UNCHANGED <<half, readers>>
    <3>1. AtEnd(serve.req)'
      BY <2>2, <2>3, <2>4, <2>6, <2>8, <2>9 DEF AtEnd, AtByte
    <3> QED BY <2>4, <2>5, <2>9, <3>1 DEF Position
  <2>10. CASE /\ n # len[r] /\ n = Len(Buffered) /\ half' = "body"
              /\ readers' = [readers EXCEPT ![r] = [on |-> TRUE, count |-> len[r] - n]]
    <3>1. len[r] - n \in Nat /\ len[r] - n <= len[r] /\ len[r] - (len[r] - n) = n
      <4> DEFINE k == len[r]
      <4>1. k \in Nat /\ n \in Nat /\ n <= k
        BY <2>2, <2>6, <2>7
      <4> HIDE DEF k
      <4>2. k - n \in Nat /\ k - n <= k /\ k - (k - n) = n
        BY <4>1
      <4> QED BY <4>2 DEF k
    <3>2. readers'[r].count = len[r] - n /\ \A q \in Requests : readers'[q].on => q = r
      BY <2>2, <2>5, <2>10, <3>1, ReaderChanges
    <3>3. taken' = fetched' /\ AtByte(r, n)'
      BY <2>3, <2>4, <2>6, <2>7, <2>8, <2>10 DEF AtByte
    <3>4. ASSUME NEW q \in Requests, readers'[q].on
          PROVE  /\ taken' = fetched' /\ readers'[q].count <= len'[q]
                 /\ AtByte(q, len[q] - readers[q].count)'
      <4>1. q = r /\ len'[q] - readers'[q].count = n /\ readers'[q].count <= len'[q]
        BY <2>3, <3>1, <3>2, <3>4
      <4> QED BY <2>4, <3>3, <4>1 DEF AtByte
    <3> QED BY <2>4, <2>10, <3>4 DEF Position
  <2> QED BY <2>6, <2>9, <2>10
<1>5. CASE RouteResolved
  <2>1. /\ serve.at = "route" /\ serve'.req = serve.req /\ serve'.at \in {"await", "ended"}
        /\ half' = half \/ half' = "gone"
    BY <1>0, <1>5 DEF RouteResolved, ServeEnds, At
  <2>2. UNCHANGED <<proto, uplink, len, fetched, taken, readers>>
    BY <1>5 DEF RouteResolved, net
  <2> QED BY <2>1, <2>2, PositionKept
<1>6. CASE Answering
  <2>1. /\ Leaves /\ serve.at \in {"read", "inline", "route", "await"} /\ ~Mux
        /\ UNCHANGED <<proto, uplink, len, fetched, taken, readers>>
    BY <1>6, AnsweringLeaves DEF net
  <2>2. /\ serve'.req = serve.req /\ serve'.at \in {"read", "reclaim", "ended"}
        /\ serve'.at = "read" => half = "serve" /\ half' = "serve"
        /\ half' \in {half, "gone"} /\ (half' = "serve" => half = "serve" /\ serve'.at = "read")
    BY <2>1, LeavesFacts
  <2>3. serve.at = "inline" => half = "serve" /\ serve'.at = "ended"
    BY <1>0, <1>6, <2>1 DEF HalfSound, Answering, RouteRejected, RejectionFails, ReadEnds, ResponseCancelled,
       At, ServeEnds
  <2> QED BY <2>1, <2>2, <2>3, PositionKept
<1>7. CASE Reclaim
  <2>1. /\ serve.at = "reclaim" /\ serve'.req = serve.req /\ serve'.at \in {"read", "ended"}
        /\ (half = "returned" /\ half' = "serve") \/ half' = "gone"
        /\ UNCHANGED <<proto, uplink, len, fetched, taken, readers>>
    BY <1>0, <1>7 DEF Reclaim, At, net
  <2> QED BY <2>1, PositionKept
<1> QED BY <1>1, <1>2, <1>3, <1>4, <1>5, <1>6, <1>7 DEF Http1Step, Answering

(* Every step keeps Position.                                              *)
LEMMA PositionHolds ==
    ASSUME NetTypes, DartTypes, UplinkSound, HalfSound, Future, Awaited, RespSound, Position,
           [HttpNext]_httpVars
    PROVE  Position'
<1>0. UNCHANGED proto /\ Mux' = Mux
  BY ProtoKept
<1>1. CASE Mux
  BY <1>0, <1>1 DEF Position
<1>2. CASE Http1Step
  BY <1>2, PositionHttp1
<1>3. CASE PeerOpens \/ PeerSendsByte
  BY <1>3, PositionPeer
<1>4. CASE PeerLeaves \/ PollRequest \/ CloseConnection \/ UNCHANGED httpVars
  <2>1. UNCHANGED <<uplink, len, fetched, taken, readers, serve, half, body, held>>
    BY <1>4 DEF PeerLeaves, PollRequest, CloseConnection, httpVars, input, net, dart
  <2> QED BY <1>0, <2>1, PositionKept
<1>5. CASE AcceptRequest \/ AcceptEnds
  BY <1>1, <1>5 DEF AcceptRequest, AcceptEnds, Accepting
<1>6. CASE ~Mux /\ \E r \in Requests : Http1BodyStep(r) \/ BodyStep(r)
  <2>1. PICK r \in Requests : Http1BodyStep(r) \/ BodyStep(r)
    BY <1>6
  <2>2. Http1BodyStep(r)
    BY <1>6, <2>1 DEF BodyStep, BodyAbandoned, BodyData, BodyEnd, BodyBroken, BodyTimesOut, Reading
  <2>3. readers[r].on /\ UNCHANGED <<uplink, len, serve>>
    BY <2>2 DEF Http1BodyStep, Http1BodyRead, Http1BodyDone, Http1BodyFails, Lent, net
  <2>4. /\ half = "body" /\ r = serve.req /\ serve.at \notin {"read", "inline", "handle"}
        /\ \A q \in Requests : readers[q].on => q = r
    BY <1>6, <2>3 DEF HalfSound
  <2>5. taken = fetched /\ readers[r].count <= len[r] /\ AtByte(r, len[r] - readers[r].count)
    BY <1>6, <2>3 DEF Position
  <2>6. len[r] \in Nat /\ readers[r].count \in Nat /\ r > 0 /\ r <= serve.req
    BY <1>6, <2>4, Positive DEF NetTypes, UplinkSound, Future
  <2>7. CASE Http1BodyRead(r)
    <3>1. PICK n \in 1..(Len(uplink) - fetched) :
                /\ n <= readers[r].count /\ fetched' = fetched + n /\ taken' = taken + n
                /\ readers' = [readers EXCEPT ![r].count = readers[r].count - n]
      BY <2>7, BodyReads
    <3>2. /\ n \in Nat /\ readers[r].count - n \in Nat /\ taken + n <= Len(uplink) /\ taken \in Nat
          /\ n > 0 /\ Len(uplink) \in Nat
      BY <2>5, <2>6, <3>1, UplinkTypes DEF NetTypes
    <3>3. readers'[r].count = readers[r].count - n /\ \A q \in Requests : readers'[q].on => q = r
      <4>1. readers'[r].count = readers[r].count - n /\ \A q \in Requests : q # r => readers'[q] = readers[q]
        BY <3>1, <3>2, ReaderCounts
      <4> QED BY <2>4, <4>1
    <3> DEFINE j == len[r] - readers[r].count
    <3>4. j \in Nat /\ j + n <= len[r] /\ n \in 0..n /\ len[r] - (readers[r].count - n) = j + n
          /\ readers[r].count - n <= len[r]
      <4> DEFINE k == len[r]
                 c == readers[r].count
      <4>1. k \in Nat /\ c \in Nat /\ n \in Nat /\ c <= k /\ n <= c
        BY <2>5, <2>6, <3>1, <3>2
      <4> HIDE DEF k, c
      <4>2. /\ k - c \in Nat /\ (k - c) + n <= k /\ n \in 0..n /\ k - (c - n) = (k - c) + n
            /\ c - n <= k
        BY <4>1
      <4> QED BY <4>2 DEF k, c
    <3>5. AtByte(r, j)
      BY <2>5
    <3> HIDE DEF j
    <3>6. \A i \in 0..n : uplink[taken + i] = <<r, j + i>>
      BY <1>6, <2>6, <3>2, <3>4, <3>5, NextBytes
    <3>7. uplink'[taken'] = <<r, j + n>> /\ taken' > 0 /\ taken' = fetched'
      BY <2>3, <2>5, <3>1, <3>2, <3>4, <3>6
    <3>8. half' = half
      BY <2>7, BodyReads
    <3>9. ASSUME NEW q \in Requests, readers'[q].on
          PROVE  /\ taken' = fetched' /\ readers'[q].count <= len'[q]
                 /\ AtByte(q, len[q] - readers[q].count)'
      <4>1. q = r /\ len'[q] - readers'[q].count = j + n /\ readers'[q].count <= len'[q]
        BY <2>3, <3>3, <3>4, <3>9
      <4> QED BY <3>7, <4>1 DEF AtByte
    <3> QED BY <1>0, <2>3, <2>4, <3>8, <3>9 DEF Position
  <2>8. CASE Http1BodyDone(r) \/ Http1BodyFails(r)
    <3>1. PICK c : Stops(r, c)
      BY <2>8, BodyStops
    <3>2. UNCHANGED <<taken, fetched>> /\ \A q \in Requests : ~readers'[q].on
      BY <2>4, <3>1, StopsFacts DEF Stops
    <3>3. half' \in {"serve", "returned"} => readers[r].count = 0
      BY <2>8 DEF Http1BodyDone, Http1BodyFails
    <3>4. readers[r].count = 0 => AtByte(r, len[r])
      BY <2>5, <2>6
    <3>5. half' \in {"serve", "returned"} => AtEnd(serve.req)'
      BY <2>3, <2>4, <2>6, <3>2, <3>3, <3>4 DEF AtEnd, AtByte
    <3> QED BY <1>0, <2>3, <2>4, <3>2, <3>5 DEF Position
  <2> QED BY <2>2, <2>7, <2>8 DEF Http1BodyStep
<1>7. CASE \E r \in Requests : SendStep(r)
  <2>1. UNCHANGED <<uplink, len, fetched, taken, readers, body, held>>
    BY <1>7, SendTypes DEF net
  <2>2. UNCHANGED <<serve, half>> \/ (serve.at = "await" /\ Leaves)
    BY <1>7, SendLeaves
  <2> QED BY <1>0, <2>1, <2>2, LeavesFacts, PositionKept
<1>8. CASE \E r \in Requests : DartStep(r)
  <2>1. PICK r \in Requests : DartStep(r)
    BY <1>8
  <2>2. CASE DartReads(r)
    <3>1. UNCHANGED <<uplink, len, fetched, taken, readers, serve, half>>
      BY <2>2, DartTouches DEF net, input
    <3>2. PICK c : Touches(r, c)
      BY <2>2, DartTouches
    <3>3. \A q \in Requests : q # r => body'[q] = body[q] /\ held'[q] = held[q]
      BY <3>2, TouchFacts DEF Touches, DartTypes
    <3>4. CASE ~Mux /\ serve.at = "inline"
      <4>1. body[serve.req].use = "idle" /\ held[serve.req] = "none" /\ serve.req \in Requests
        BY <3>4, Serving DEF Position
      <4>2. held[r] # "none" \/ body[r].use # "idle"
        BY <2>2 DEF DartReads, StreamRead, StreamReadStep, StreamReadWaits, FinishBody, ReleaseBody
      <4>3. body'[serve.req] = body[serve.req] /\ held'[serve.req] = held[serve.req]
        BY <3>3, <4>1, <4>2
      <4> QED BY <1>0, <3>1, <3>4, <4>3 DEF Position, AtEnd, AtByte, Prefix, Byte
    <3>5. CASE Mux \/ serve.at # "inline"
      BY <1>0, <3>1, <3>5 DEF Position, AtEnd, AtByte, Prefix, Byte
    <3> QED BY <3>4, <3>5
  <2>3. CASE RetainBody(r) \/ DartAnswers(r)
    <3>1. UNCHANGED <<uplink, len, fetched, taken, readers, serve, half, body>>
      BY <2>3 DEF RetainBody, DartAnswers, Respond, ReleaseRequest, OpenResponseStream, WriteChunk,
         FinishResponseStream, net, input
    <3>2. held' = held \/ resp[r] = "polled"
      BY <2>3 DEF RetainBody, DartAnswers, Respond, ReleaseRequest, OpenResponseStream, WriteChunk,
         FinishResponseStream
    <3>3. resp[r] = "polled" => Mux \/ serve.at = "await"
      BY DEF RespSound, Underway
    <3>4. CASE held' = held
      BY <1>0, <3>1, <3>4, PositionKept
    <3>5. CASE Mux \/ serve.at = "await"
      BY <1>0, <3>1, <3>5 DEF Position, AtEnd, AtByte, Prefix, Byte
    <3> QED BY <3>2, <3>3, <3>4, <3>5
  <2> QED BY <2>1, <2>2, <2>3 DEF DartStep, DartReads, DartAnswers
<1> QED BY <1>1, <1>2, <1>3, <1>4, <1>5, <1>6, <1>7, <1>8 DEF HttpNext

(* Every step keeps UplinkSound.                                           *)
LEMMA UplinkHolds ==
    ASSUME NetTypes, Awaited, UplinkSound, [HttpNext]_httpVars
    PROVE  UplinkSound'
<1>0. client \in [opened : 0..MaxRequests, gone : BOOLEAN] /\ UNCHANGED proto
  BY ProtoKept DEF NetTypes
<1>1. CASE PeerOpens \/ PeerSendsByte
  BY <1>1, UplinkGrows
<1>2. ASSUME UNCHANGED <<uplink, len>>, client'.opened = client.opened
      PROVE  UplinkSound'
  BY <1>0, <1>2, UplinkKept
<1>3. CASE PeerLeaves
  BY <1>0, <1>2, <1>3 DEF PeerLeaves
<1>4. CASE Http1Step \/ AcceptRequest \/ AcceptEnds \/ PollRequest \/ CloseConnection
           \/ UNCHANGED httpVars
  <2>1. UNCHANGED <<uplink, len, client>>
    BY <1>4 DEF Http1Step, FillBuf, ReadHead, ReadInline, StartBody, RouteResolved, RouteRejected,
       RejectionFails, ReadEnds, ResponseCancelled, Reclaim, AcceptRequest, AcceptEnds, PollRequest,
       CloseConnection, httpVars, net
  <2> QED BY <1>2, <2>1
<1>5. CASE \E r \in Requests : Http1BodyStep(r) \/ BodyStep(r)
  <2>1. PICK r \in Requests : Http1BodyStep(r) \/ BodyStep(r)
    BY <1>5
  <2>2. CASE Http1BodyRead(r)
    BY <1>2, <2>2, BodyReads DEF net
  <2>3. CASE BodyData(r)
    BY <1>2, <2>3, ReadsData
  <2>4. CASE \/ Http1BodyDone(r) \/ Http1BodyFails(r) \/ BodyAbandoned(r) \/ BodyEnd(r) \/ BodyBroken(r)
             \/ \E why \in {"idle", "total"} : BodyTimesOut(r, why)
    <3>1. client'.opened = client.opened /\ \E c : Stops(r, c)
      BY <2>4, BodyStops
    <3> QED BY <1>2, <3>1 DEF Stops
  <2> QED BY <2>1, <2>2, <2>3, <2>4 DEF Http1BodyStep, BodyStep
<1>6. CASE \E r \in Requests : SendStep(r)
  BY <1>2, <1>6, SendTypes DEF net
<1>7. CASE \E r \in Requests : DartStep(r)
  <2>1. PICK r \in Requests : DartStep(r)
    BY <1>7
  <2>2. CASE DartReads(r)
    BY <1>2, <2>2, DartTouches DEF net
  <2>3. CASE RetainBody(r) \/ DartAnswers(r)
    BY <1>2, <2>3 DEF RetainBody, DartAnswers, Respond, ReleaseRequest, OpenResponseStream, WriteChunk,
       FinishResponseStream, net
  <2> QED BY <2>1, <2>2, <2>3 DEF DartStep, DartReads, DartAnswers
<1> QED BY <1>1, <1>3, <1>4, <1>5, <1>6, <1>7 DEF HttpNext

(* The inductive invariant of the threads that wait. *)
HttpInv ==
    /\ NetTypes /\ DartTypes /\ EventsSound /\ UplinkSound /\ Future /\ HalfSound
    /\ Awaited /\ Queued /\ RespSound /\ Position

(* The invariant holds initially.                                          *)
LEMMA HttpInvInit == HttpInit => HttpInv
<1> SUFFICES ASSUME HttpInit PROVE HttpInv
  OBVIOUS
<1>1. NetTypes /\ DartTypes
  BY HttpTypesInit
<1>2. EventsSound /\ Queued
  BY DEF HttpInit, EventsSound, Queued
<1>3. UplinkSound
  BY DEF HttpInit, UplinkSound
<1>4. \A r \in Requests : /\ body[r] = NewBody /\ readers[r] = [on |-> FALSE, count |-> 0]
                          /\ ~readers[r].on /\ held[r] = "none" /\ resp[r] = "none"
                          /\ incoming[r].data = <<>> /\ incoming[r].sent = 0
  BY DEF HttpInit
<1>5. serve.req = 0 /\ serve.at = "read" /\ half = "serve" /\ client.opened = 0 /\ taken = 0
  BY DEF HttpInit
<1>6. Future
  <2>1. \A r \in Requests : Prefix(r, 0) = <<>>
    BY DEF Prefix
  <2>2. \A r \in Requests : Fresh(r)
    BY <1>4, <2>1 DEF Fresh
  <2> QED BY <1>5, <2>2 DEF Future
<1>7. HalfSound
  BY <1>4, <1>5 DEF HalfSound
<1>8. Awaited
  <2>1. /\ NewBody.use = "idle" /\ ~NewBody.error /\ NewBody.told = "nothing"
    BY DEF NewBody
  <2>2. \A r \in Requests : AwaitedAt(r)
    BY <1>4, <2>1 DEF AwaitedAt
  <2> QED BY <1>5, <2>2 DEF Awaited
<1>9. RespSound
  BY <1>4, <1>5 DEF RespSound, Underway
<1>10. Position
  BY <1>4, <1>5 DEF Position, AtEnd
<1> QED BY <1>1, <1>2, <1>3, <1>6, <1>7, <1>8, <1>9, <1>10 DEF HttpInv

(* Every step keeps the invariant, and pushes events as OneEvent says.     *)
LEMMA HttpInvNext == HttpInv /\ [HttpNext]_httpVars => HttpInv' /\ OneEventStep
<1> SUFFICES ASSUME HttpInv, [HttpNext]_httpVars PROVE HttpInv' /\ OneEventStep
  OBVIOUS
<1>0. /\ NetTypes /\ DartTypes /\ EventsSound /\ UplinkSound /\ Future /\ HalfSound
      /\ Awaited /\ Queued /\ RespSound /\ Position
  BY DEF HttpInv
<1>1. NetTypes'
  BY <1>0, NetTypesHold
<1>2. DartTypes'
  BY <1>0, DartTypesStay
<1>3. EventsSound' /\ OneEventStep
  BY <1>0, Records
<1>4. UplinkSound'
  BY <1>0, UplinkHolds
<1>5. Future'
  BY <1>0, <1>1, FutureHolds
<1>6. HalfSound'
  BY <1>0, HalfHolds
<1>7. Awaited'
  BY <1>0, AwaitedHolds
<1>8. Queued'
  BY <1>0, QueuedHolds
<1>9. RespSound'
  BY <1>0, RespHolds
<1>10. Position'
  BY <1>0, PositionHolds
<1> QED BY <1>1, <1>2, <1>3, <1>4, <1>5, <1>6, <1>7, <1>8, <1>9, <1>10 DEF HttpInv

(* The invariant contains what SleepersAwaited and the type invariant say. *)
LEMMA HttpInvSleepers == HttpInv => SleepersAwaited
<1> SUFFICES ASSUME HttpInv PROVE SleepersAwaited
  OBVIOUS
<1>0. NetTypes /\ DartTypes /\ HalfSound /\ Awaited
  BY DEF HttpInv
<1>1. ASSUME NEW r \in Requests
      PROVE  /\ BodyOK(body[r])
             /\ body[r].use = "asleep" => body[r].queue = <<>> /\ ~body[r].finished /\ readers[r].on
  <2>1. AwaitedAt(r) /\ body[r] \in Body
    BY <1>0 DEF Awaited, NetTypes
  <2>2. \A i \in DOMAIN body[r].queue : body[r].queue[i] # <<>>
    <3> DEFINE q == body[r].queue
    <3>1. q \in Seq(Chunks)
      BY <2>1 DEF Body
    <3> HIDE DEF q
    <3>2. \A i \in DOMAIN q : q[i] \in Chunks
      BY <3>1
    <3> QED BY <3>2 DEF q, Chunks
  <2>3. body[r].use \in Uses /\ body[r].told \in {"nothing", "end", "error"}
    BY <2>1 DEF Body
  <2> QED BY <2>1, <2>2, <2>3 DEF AwaitedAt, BodyOK, EndsOf
<1>2. /\ proto \in {"http1", "http2", "http3"} /\ serve.at \in Phases
      /\ half \in {"serve", "body", "returned", "gone"}
  BY <1>0 DEF NetTypes
<1>3. \A r \in Requests : resp[r] \in Underway \cup {"none", "sent", "failed"}
                          /\ Len(stream[r].queue) <= StreamBuffer
  BY <1>0 DEF DartTypes
<1>4. /\ \A r \in Requests : ~Mux /\ readers[r].on => half = "body"
      /\ At("read") \/ At("inline") => half = "serve"
  BY <1>0 DEF HalfSound, At
<1> QED BY <1>1, <1>2, <1>3, <1>4 DEF SleepersAwaited, HttpTypeOK, Phases, Underway

(* The inductive invariant of the HTTP server holds throughout: who has    *)
(* the read half, where it stands in the peer's bytes, and who will end    *)
(* each body.                                                              *)
THEOREM HttpInvariant == HttpSpec => []HttpInv
<1>1. HttpInv /\ [HttpNext]_httpVars => HttpInv'
  BY HttpInvNext
<1> QED BY <1>1, HttpInvInit, PTL DEF HttpSpec

(* A Dart thread asleep in the body's condition variable (stream_read)     *)
(* always has a body reader that will wake it, whoever gave up before, and *)
(* every type is kept: SleepersAwaited for every number of requests,       *)
(* length and chunk.                                                       *)
THEOREM ThreadsAwaited == HttpSpec => []SleepersAwaited
BY HttpInvariant, HttpInvSleepers, PTL

(* The end of an HTTP/2 or HTTP/3 connection pushes one lifecycle event as *)
(* its entry leaves the registry, none when Dart closed it first, never    *)
(* two, and it carries the first reason recorded: OneEvent for every value *)
(* of the constants.                                                       *)
THEOREM OneEventHolds == HttpSpec => OneEvent
<1>1. HttpInv /\ [HttpNext]_httpVars => [OneEventStep]_httpVars
  BY HttpInvNext
<1>2. HttpSpec => [][OneEventStep]_httpVars
  BY <1>1, HttpInvariant, PTL DEF HttpSpec
<1> QED BY <1>2 DEF OneEvent, OneEventStep

(* The bytes of a body that were read are the first of the request's own. *)
LEMMA SeenSame ==
    ASSUME NEW q \in Requests, SeenAt(q), UNCHANGED proto, readers'[q] = readers[q], len'[q] = len[q],
           incoming'[q] = incoming[q], Seen(body'[q]) = Seen(body[q]),
           body'[q].finished = body[q].finished, body'[q].error = body[q].error,
           body[q].asked => body'[q].asked
    PROVE  SeenAt(q)'
<1>1. Got(q)' = Got(q) /\ Declared(q)' = Declared(q) /\ Mux' = Mux
  BY DEF Got, Declared, Mux
<1>2. Prefix(q, Got(q))' = Prefix(q, Got(q))
  BY <1>1 DEF Prefix, Byte
<1> QED BY <1>1, <1>2 DEF SeenAt

(* Of a body not begun a prefix was seen.                                  *)
LEMMA SeenNone ==
    ASSUME NEW q \in Requests, body'[q] = NewBody, ~readers'[q].on
    PROVE  SeenAt(q)'
<1>1. ~NewBody.finished /\ Seen(NewBody) = <<>> /\ Len(<<>>) = 0
  BY NewBodyType DEF NewBody
<1>2. Got(q)' = 0
  BY <1>1 DEF Got
<1>3. Prefix(q, 0) = <<>>
  BY DEF Prefix
<1>4. Prefix(q, Got(q))' = Prefix(q, 0)
  BY <1>2 DEF Prefix, Byte
<1>5. Seen(body'[q]) = <<>> /\ ~body'[q].finished
  BY <1>1
<1> QED BY <1>3, <1>4, <1>5 DEF SeenAt

(* A reader that finishes a body without an error has read all of it.      *)
LEMMA SeenStops ==
    ASSUME NetTypes, NEW r \in Requests, SeenAt(r), NEW c, Stops(r, c), UNCHANGED incoming,
           c = MarkFinished(body[r]) /\ ~body[r].asked => Got(r) = Declared(r)
    PROVE  SeenAt(r)'
<1>1. body[r] \in Body /\ body'[r] = c /\ ~readers'[r].on /\ c \in {MarkFinished(body[r]), MarkError(body[r])}
      /\ UNCHANGED len
  BY StopsFacts DEF Stops
<1>2. Seen(c) = Seen(body[r]) /\ c.asked = body[r].asked /\ (c = MarkError(body[r]) => c.error)
  BY <1>1, Marked
<1>3. Got(r)' = Got(r) /\ Declared(r)' = Declared(r)
  BY <1>1, <1>2 DEF Got, Declared
<1>4. Prefix(r, Got(r))' = Prefix(r, Got(r))
  BY <1>3 DEF Prefix, Byte
<1>5. body'[r].finished /\ ~body'[r].error /\ ~body'[r].asked => Got(r) = Declared(r)
  BY <1>1, <1>2
<1> QED BY <1>1, <1>2, <1>3, <1>4, <1>5 DEF SeenAt

(* More bytes join a body. *)
LEMMA SeenGrows ==
    ASSUME NEW r \in Requests, NEW m \in Nat, NEW n \in Nat, NEW x \in ByteStrings, Len(x) = n,
           \A i \in 1..n : x[i] = <<r, m + i>>
    PROVE  Prefix(r, m) \o x = Prefix(r, m + n) /\ Len(Prefix(r, m + n)) = m + n
<1>1. m + n \in Nat
  OBVIOUS
<1>2. Prefix(r, m) \o x = Prefix(r, m + n)
  BY Extends
<1> QED BY <1>1, <1>2, Prefixed

(* read_inline_body keeps SeenSound.                                       *)
LEMMA SeenInline ==
    ASSUME NetTypes, NetTypes', DartTypes, UplinkSound, HalfSound, Future, Position, Position',
           SeenSound, ReadInline
    PROVE  SeenSound'
<1>1. serve.at = "inline" /\ ~Mux /\ serve \in [at : Phases, req : 0..MaxRequests, keep : BOOLEAN]
  BY DEF ReadInline, At, NetTypes
<1>2. PICK r \in Requests : r = serve.req
  BY <1>1, Serving
<1> DEFINE g == body[r].got
<1>3. len[serve.req] \in Nat /\ len[r] \in Nat /\ body[r] \in Body /\ g \in ByteStrings
  <2>1. len[serve.req] \in Nat
    <3>1. serve.req \in Nat /\ serve.req > 0 /\ serve.req <= client.opened
      BY <1>1, <1>2, Positive DEF Future
    <3>2. client.opened \in Nat
      BY DEF NetTypes
    <3>3. serve.req \in 1..client.opened
      BY <3>1, <3>2
    <3> QED BY <1>1, <3>3 DEF UplinkSound
  <2>2. body[r] \in Body
    BY DEF NetTypes
  <2> QED BY <1>2, <2>1, <2>2 DEF Body
<1>4. UNCHANGED <<proto, len, incoming, readers>> /\ Mux' = Mux
  BY <1>3, ReadsInline DEF net, Mux
<1>5. g = Prefix(r, Len(g)) /\ body[r].queue = <<>>
  BY <1>1, <1>2 DEF Position
<1>6. ~readers'[r].on
  BY <1>1, <1>2, <1>4 DEF HalfSound
<1>7. \/ Len(g) = len[r] /\ body' = [body EXCEPT ![r] = InlineBody(g)]
      \/ /\ serve' = serve
         /\ \E x : body' = [body EXCEPT ![r] = x]
  BY <1>2, <1>3, ReadsInline
<1>8. \A q \in Requests : q # r => SeenAt(q)'
  <2>1. \A q \in Requests : q # r => body'[q] = body[q]
    BY <1>3, <1>7 DEF NetTypes
  <2> QED BY <1>4, <2>1, SeenSame DEF SeenSound
<1>9. SeenAt(r)'
  <2>1. CASE Len(g) = len[r] /\ body' = [body EXCEPT ![r] = InlineBody(g)]
    <3>1. body'[r] = InlineBody(g) /\ Seen(InlineBody(g)) = g
      BY <1>3, <2>1, Inlined, BodyChanges
    <3>2. Seen(body'[r]) = g /\ len'[r] = Len(g) /\ len'[r] # Unknown
      BY <1>3, <1>4, <2>1, <3>1 DEF Unknown
    <3>3. Got(r)' = Len(g) /\ Declared(r)' = Len(g)
      BY <3>2 DEF Got, Declared
    <3>4. Prefix(r, Got(r))' = Prefix(r, Len(g))
      BY <3>3 DEF Prefix, Byte
    <3> QED BY <1>5, <1>6, <3>2, <3>3, <3>4 DEF SeenAt
  <2>2. CASE serve' = serve
    <3> DEFINE b == body'[r]
    <3>1. b \in Body
      BY DEF NetTypes
    <3>2. b.queue = <<>> /\ ~b.finished /\ b.got = Prefix(r, Len(b.got))
      BY <1>1, <1>2, <1>4, <2>2 DEF Position, Prefix, Byte
    <3> HIDE DEF b
    <3>3. Seen(b) = b.got
      <4>1. b.got \in ByteStrings
        BY <3>1 DEF Body
      <4>2. Seen(b) = b.got \o <<>>
        BY <3>2, FlatEmpty DEF Seen
      <4> QED BY <4>1, <4>2, Concats
    <3>4. Got(r)' = Len(b.got)
      BY <3>3 DEF Got, b
    <3>5. Prefix(r, Got(r))' = Prefix(r, Len(b.got))
      BY <3>4 DEF Prefix, Byte
    <3> QED BY <1>6, <3>2, <3>3, <3>5 DEF SeenAt, b
  <2> QED BY <1>7, <2>1, <2>2
<1> QED BY <1>8, <1>9 DEF SeenSound

(* Starting a body keeps SeenSound, whether the buffer held all of it or a *)
(* part.                                                                   *)
LEMMA SeenStarts ==
    ASSUME NetTypes, DartTypes, UplinkSound, HalfSound, Future, Position, SeenSound, StartBody
    PROVE  SeenSound'
<1>1. serve.at = "handle" /\ ~Mux /\ serve \in [at : Phases, req : 0..MaxRequests, keep : BOOLEAN]
  BY DEF StartBody, At, NetTypes
<1>2. PICK r \in Requests : r = serve.req
  BY <1>1, Serving
<1>3. len[serve.req] \in Nat /\ len[r] \in Nat /\ r <= serve.req /\ AtByte(r, 0)
  BY <1>1, <1>2, HttpConstants DEF UplinkSound, Future, NetTypes, Position
<1>4. UNCHANGED <<proto, len, incoming>> /\ Mux' = Mux
  BY <1>3, StartsBody DEF net, Mux
<1>5. PICK n \in 0..Len(Buffered) :
        /\ n <= len[r] /\ taken' = taken + n
        /\ \/ /\ n = len[r] /\ body' = [body EXCEPT ![r] = InlineBody(SubSeq(Buffered, 1, n))]
              /\ UNCHANGED <<half, readers>>
           \/ /\ n # len[r] /\ n = Len(Buffered) /\ half' = "body"
              /\ body' = [body EXCEPT ![r] = EnqueueBytes(NewBody, SubSeq(Buffered, 1, n))]
              /\ readers' = [readers EXCEPT ![r] = [on |-> TRUE, count |-> len[r] - n]]
  BY <1>2, <1>3, StartsBody
<1>6. \A q \in Requests : q # r => SeenAt(q)'
  <2>1. \A q \in Requests : q # r => body'[q] = body[q] /\ readers'[q] = readers[q]
    BY <1>5 DEF NetTypes
  <2> QED BY <1>4, <2>1, SeenSame DEF SeenSound
<1> DEFINE x == SubSeq(Buffered, 1, n)
<1>7. n \in Nat /\ taken + n <= Len(uplink) /\ 0 + n <= len[r] /\ 0 \in Nat
  BY <1>3, <1>5, UplinkTypes DEF NetTypes
<1>8. x \in ByteStrings /\ Len(x) = n /\ \A i \in 1..n : x[i] = <<r, i>>
  <2>1. x \in ByteStrings /\ Len(x) = n /\ \A i \in 1..n : x[i] = uplink[taken + i]
    BY BufferFront
  <2>2. \A i \in 0..n : uplink[taken + i] = <<r, 0 + i>>
    BY <1>1, <1>3, <1>7, NextBytes
  <2>3. \A i \in 1..n : i \in 0..n /\ 0 + i = i
    BY <1>7
  <2> HIDE DEF x
  <2> QED BY <2>1, <2>2, <2>3
<1> HIDE DEF x
<1>9. x = Prefix(r, n)
  <2>1. Prefix(r, 0) = <<>> /\ <<>> \o x = x
    BY <1>8, Concats DEF Prefix
  <2>2. \A i \in 1..n : x[i] = <<r, 0 + i>>
    BY <1>7, <1>8
  <2>3. Prefix(r, 0) \o x = Prefix(r, 0 + n)
    BY <1>7, <1>8, <2>2, Extends
  <2>4. 0 + n = n
    BY <1>7
  <2> QED BY <2>1, <2>3, <2>4
<1>10. SeenAt(r)'
  <2>1. ASSUME Seen(body'[r]) = x PROVE Got(r)' = n /\ Prefix(r, Got(r))' = x
    <3>1. Got(r)' = n
      BY <1>8, <2>1 DEF Got
    <3> QED BY <1>9, <3>1 DEF Prefix, Byte
  <2>2. CASE n = len[r] /\ body' = [body EXCEPT ![r] = InlineBody(x)] /\ readers' = readers
    <3>1. body'[r] = InlineBody(x) /\ Seen(InlineBody(x)) = x
      BY <1>8, <2>2, Inlined, BodyChanges
    <3>2. ~readers'[r].on
      BY <1>1, <2>2 DEF HalfSound
    <3>3. Declared(r)' = n
      BY <1>3, <1>4, <2>2 DEF Declared, Unknown
    <3> QED BY <2>1, <3>1, <3>2, <3>3 DEF SeenAt
  <2>3. CASE /\ body' = [body EXCEPT ![r] = EnqueueBytes(NewBody, x)]
             /\ readers' = [readers EXCEPT ![r] = [on |-> TRUE, count |-> len[r] - n]]
    <3> DEFINE c == EnqueueBytes(NewBody, x)
    <3>1. c \in Body /\ Seen(c) = x /\ c.finished = NewBody.finished
      <4>1. <<>> \o x = x
        BY <1>8, Concats
      <4> QED BY <1>8, <4>1, NewBodyType, Enqueued
    <3>2. ~NewBody.finished
      BY DEF NewBody
    <3>3. body'[r] = c
      BY <2>3, <3>1, BodyChanges
    <3> HIDE DEF c
    <3>4. len[r] - n \in Nat /\ len[r] - (len[r] - n) = n
      <4> DEFINE k == len[r]
      <4>1. k \in Nat /\ n \in Nat /\ n <= k
        BY <1>3, <1>5, <1>7
      <4> HIDE DEF k
      <4>2. k - n \in Nat /\ k - (k - n) = n
        BY <4>1
      <4> QED BY <4>2 DEF k
    <3>5. readers'[r].count = len[r] - n
      BY <2>3, <3>4, ReaderChanges
    <3>6. len'[r] - readers'[r].count = n
      BY <1>4, <3>4, <3>5
    <3> QED BY <1>1, <1>4, <2>1, <3>1, <3>2, <3>3, <3>6 DEF SeenAt
  <2> QED BY <1>5, <2>2, <2>3 DEF x
<1> QED BY <1>6, <1>10 DEF SeenSound

(* What a reader of HTTP/1 reads continues what was seen of the body.      *)
LEMMA SeenReads ==
    ASSUME NetTypes, UplinkSound, HalfSound, Future, Awaited, Position, SeenSound, NEW r \in Requests,
           Http1BodyRead(r)
    PROVE  SeenAt(r)'
<1>1. /\ ~Mux /\ readers[r].on /\ UNCHANGED <<proto, len, incoming>> /\ Mux' = Mux
  BY BodyReads DEF net, Mux
<1>2. taken = fetched /\ readers[r].count <= len[r] /\ AtByte(r, len[r] - readers[r].count)
  BY <1>1 DEF Position
<1>3. r = serve.req /\ readers[r].count \in Nat /\ len[r] \in Nat /\ r <= serve.req /\ body[r] \in Body
  <2>1. r = serve.req /\ serve.req \in Nat /\ r > 0
    BY <1>1, Positive DEF HalfSound
  <2> QED BY <1>1, <2>1 DEF Future, UplinkSound, NetTypes
<1>4. PICK n \in 1..(Len(uplink) - fetched) :
        /\ n <= readers[r].count /\ taken' = taken + n
        /\ readers' = [readers EXCEPT ![r].count = readers[r].count - n]
        /\ \/ body[r].asked /\ body' = body
           \/ /\ ~body[r].asked
              /\ body' = [body EXCEPT ![r] =
                            EnqueueBytes(body[r], SubSeq(uplink, fetched + 1, fetched + n))]
  BY BodyReads
<1>5. n \in Nat /\ taken + n <= Len(uplink) /\ taken \in Nat
  BY <1>2, <1>4, UplinkTypes DEF NetTypes
<1> DEFINE j == len[r] - readers[r].count
<1>6. /\ j \in Nat /\ j + n <= len[r] /\ len[r] - (readers[r].count - n) = j + n
      /\ readers[r].count - n \in Nat
  <2> DEFINE k == len[r]
             c == readers[r].count
  <2>1. k \in Nat /\ c \in Nat /\ n \in Nat /\ c <= k /\ n <= c
    BY <1>2, <1>3, <1>4, <1>5
  <2> HIDE DEF k, c
  <2>2. k - c \in Nat /\ (k - c) + n <= k /\ k - (c - n) = (k - c) + n /\ c - n \in Nat
    BY <2>1
  <2> QED BY <2>2 DEF k, c
<1>7. readers'[r].count = readers[r].count - n
  BY <1>4, <1>6, ReaderCounts
<1>8. AtByte(r, j)
  BY <1>2
<1>9. len'[r] - readers'[r].count = j + n
  BY <1>1, <1>6, <1>7
<1>10. SeenAt(r) /\ (~body[r].asked => Got(r) = j)
  BY <1>1 DEF SeenSound, SeenAt
<1> HIDE DEF j
<1>11. CASE body[r].asked /\ body' = body
  <2>1. Got(r)' = Got(r)
    BY <1>11 DEF Got
  <2>2. Prefix(r, Got(r))' = Prefix(r, Got(r))
    BY <2>1 DEF Prefix, Byte
  <2> QED BY <1>1, <1>10, <1>11, <2>1, <2>2 DEF SeenAt
<1>12. CASE /\ ~body[r].asked
            /\ body' = [body EXCEPT ![r] = EnqueueBytes(body[r], SubSeq(uplink, fetched + 1, fetched + n))]
  <2> DEFINE x == SubSeq(uplink, fetched + 1, fetched + n)
             c == EnqueueBytes(body[r], x)
  <2>1. x \in ByteStrings /\ Len(x) = n /\ \A i \in 1..n : x[i] = uplink[taken + i]
    BY <1>2, UplinkPart
  <2>2. \A i \in 0..n : uplink[taken + i] = <<r, j + i>>
    BY <1>1, <1>3, <1>5, <1>6, <1>8, NextBytes
  <2>3. \A i \in 1..n : i \in 0..n
    BY <1>5
  <2> HIDE DEF x
  <2>4. \A i \in 1..n : x[i] = <<r, j + i>>
    BY <2>1, <2>2, <2>3
  <2>5. c \in Body /\ Seen(c) = Seen(body[r]) \o x /\ c.finished = body[r].finished
        /\ c.error = body[r].error
    BY <1>3, <2>1, Enqueued
  <2>6. body'[r] = c
    BY <1>12, <2>5, BodyChanges DEF x
  <2> HIDE DEF c
  <2>7. Seen(body[r]) = Prefix(r, j)
    BY <1>10, <1>12 DEF SeenAt
  <2>8. Seen(c) = Prefix(r, j + n) /\ Len(Seen(c)) = j + n
    <3>1. Prefix(r, j) \o x = Prefix(r, j + n) /\ Len(Prefix(r, j + n)) = j + n
      BY <1>5, <1>6, <2>1, <2>4, SeenGrows
    <3> QED BY <2>5, <2>7, <3>1
  <2>9. Got(r)' = j + n
    BY <2>6, <2>8 DEF Got
  <2>10. Prefix(r, Got(r))' = Prefix(r, j + n)
    BY <2>9 DEF Prefix, Byte
  <2>11. ~body[r].finished
    BY <1>1 DEF Awaited, AwaitedAt
  <2> QED BY <1>1, <1>9, <2>5, <2>6, <2>8, <2>9, <2>10, <2>11 DEF SeenAt
<1> QED BY <1>4, <1>11, <1>12

(* A DATA frame continues what was seen of the body.                       *)
LEMMA SeenData ==
    ASSUME NetTypes, Awaited, SeenSound, NEW r \in Requests, BodyData(r)
    PROVE  SeenAt(r)'
<1>1. /\ Mux /\ readers[r].on /\ ~body[r].asked /\ ~body[r].finished /\ body[r] \in Body
      /\ incoming[r] \in [data : ByteStrings, sent : Nat, end : {"open", "fin", "reset"}]
      /\ UNCHANGED <<proto, len>> /\ Mux' = Mux /\ incoming[r].data # <<>> /\ readers[r].count \in Nat
  BY ReadsData DEF Awaited, AwaitedAt, NetTypes, Mux
<1> DEFINE d == incoming[r].data
           k == readers[r].count
<1>2. incoming' = [incoming EXCEPT ![r].data = Tail(d)]
  BY ReadsData
<1>3. incoming'[r].data = Tail(d) /\ incoming'[r].sent = incoming[r].sent
  BY <1>1, <1>2 DEF NetTypes
<1>4. /\ Seen(body[r]) = Prefix(r, k) /\ Got(r) = k
      /\ Len(d) + k = incoming[r].sent /\ \A i \in DOMAIN d : d[i] = <<r, k + i>>
  BY <1>1 DEF SeenSound, SeenAt
<1>5. CASE /\ body' = [body EXCEPT ![r] = MarkError(body[r])]
           /\ readers' = [readers EXCEPT ![r].on = FALSE]
  <2> DEFINE c == MarkError(body[r])
  <2>1. c \in Body /\ Seen(c) = Seen(body[r]) /\ c.error
    BY <1>1, Marked
  <2>2. body'[r] = c /\ ~readers'[r].on
    BY <1>5, <2>1, BodyChanges, ReaderTurns
  <2> HIDE DEF c
  <2>3. Got(r)' = k
    BY <1>4, <2>1, <2>2 DEF Got
  <2>4. Prefix(r, Got(r))' = Prefix(r, k)
    BY <2>3 DEF Prefix, Byte
  <2> QED BY <1>4, <2>1, <2>2, <2>4 DEF SeenAt
<1>6. CASE /\ body' = [body EXCEPT ![r] = EnqueueBytes(body[r], <<Head(d)>>)]
           /\ readers' = [readers EXCEPT ![r].count = k + 1]
  <2>1. d \in Seq(Nat \X Nat) /\ d # <<>> /\ k \in Nat
    BY <1>1 DEF ByteStrings
  <2>2. /\ Len(d) \in Nat \ {0} /\ 1 \in DOMAIN d /\ Head(d) = d[1] /\ Head(d) \in Nat \X Nat
        /\ Tail(d) \in Seq(Nat \X Nat) /\ Len(Tail(d)) = Len(d) - 1 /\ DOMAIN Tail(d) = 1..(Len(d) - 1)
        /\ \A i \in 1..(Len(d) - 1) : Tail(d)[i] = d[i + 1] /\ i + 1 \in DOMAIN d
    <3> HIDE DEF d
    <3> QED BY <2>1
  <2> DEFINE x == <<Head(d)>>
             c == EnqueueBytes(body[r], x)
  <2>3. x \in ByteStrings /\ Len(x) = 1 /\ \A i \in 1..1 : x[i] = <<r, k + i>>
    <3>1. x \in ByteStrings /\ Len(x) = 1 /\ x[1] = Head(d)
      BY <2>2 DEF ByteStrings
    <3>2. Head(d) = <<r, k + 1>>
      BY <1>4, <2>2
    <3>3. \A i \in 1..1 : i = 1
      OBVIOUS
    <3> QED BY <3>1, <3>2, <3>3
  <2> HIDE DEF x
  <2>4. c \in Body /\ Seen(c) = Seen(body[r]) \o x /\ c.finished = body[r].finished
    BY <1>1, <2>3, Enqueued
  <2>5. body'[r] = c /\ readers'[r].count = k + 1
    <3>1. k + 1 \in Nat
      BY <2>1
    <3> QED BY <1>6, <2>4, <3>1, BodyChanges, ReaderCounts DEF x
  <2> HIDE DEF c
  <2>6. Seen(c) = Prefix(r, k + 1) /\ Len(Seen(c)) = k + 1
    <3>1. Prefix(r, k) \o x = Prefix(r, k + 1) /\ Len(Prefix(r, k + 1)) = k + 1
      BY <2>1, <2>3, SeenGrows
    <3> QED BY <1>4, <2>4, <3>1
  <2>7. Got(r)' = k + 1
    BY <2>5, <2>6 DEF Got
  <2>8. Prefix(r, Got(r))' = Prefix(r, k + 1)
    BY <2>7 DEF Prefix, Byte
  <2> HIDE DEF k
  <2>9. Len(incoming'[r].data) + readers'[r].count = incoming'[r].sent
    <3>1. Len(Tail(d)) + (k + 1) = Len(d) + k
      <4> DEFINE m == Len(d)
                 t == Len(Tail(d))
      <4>1. m \in Nat /\ t = m - 1 /\ k \in Nat
        BY <2>1, <2>2 DEF k
      <4> HIDE DEF m, t
      <4>2. t + (k + 1) = m + k
        BY <4>1
      <4> QED BY <4>2 DEF m, t
    <3> QED BY <1>3, <1>4, <2>5, <3>1 DEF k
  <2>10. \A i \in DOMAIN incoming'[r].data : incoming'[r].data[i] = <<r, readers'[r].count + i>>
    <3>1. ASSUME NEW i \in 1..(Len(d) - 1) PROVE Tail(d)[i] = <<r, (k + 1) + i>>
      <4>1. k + (i + 1) = (k + 1) + i
        <5>1. k \in Nat /\ i \in Nat
          BY <2>1 DEF k
        <5> HIDE DEF d
        <5> QED BY <5>1
      <4>2. d[i + 1] = <<r, k + (i + 1)>>
        BY <1>4, <2>2 DEF k
      <4> QED BY <2>2, <4>1, <4>2
    <3> QED BY <1>3, <2>2, <2>5, <3>1 DEF k
  <2> QED BY <1>1, <2>4, <2>5, <2>6, <2>7, <2>8, <2>9, <2>10 DEF SeenAt
<1> QED BY ReadsData, <1>5, <1>6

(* A body that ends without an error is whole. *)
LEMMA SeenEnds ==
    ASSUME NetTypes, SeenSound, NEW r \in Requests,
           \/ Http1BodyDone(r) \/ Http1BodyFails(r) \/ BodyAbandoned(r) \/ BodyEnd(r) \/ BodyBroken(r)
           \/ \E why \in {"idle", "total"} : BodyTimesOut(r, why)
    PROVE  SeenAt(r)'
<1>1. SeenAt(r) /\ UNCHANGED incoming /\ body[r] \in Body /\ readers[r].count \in Nat
  BY BodyStops DEF SeenSound, NetTypes
<1>2. PICK c : Stops(r, c)
  BY BodyStops
<1>3. body'[r] = c /\ readers[r].on /\ UNCHANGED len
  BY <1>2, StopsFacts DEF Stops
<1>4. body'[r].error => body'[r].finished
  BY <1>1, <1>2, <1>3, Marked DEF Stops
<1>5. CASE body'[r].error \/ body[r].asked
  <2>1. Seen(c) = Seen(body[r]) /\ c.asked = body[r].asked /\ ~readers'[r].on
    <3>1. c \in {MarkFinished(body[r]), MarkError(body[r])} /\ ~readers'[r].on
      BY <1>2, StopsFacts DEF Stops
    <3> QED BY <1>1, <3>1, Marked
  <2>2. Got(r)' = Got(r)
    BY <1>3, <2>1 DEF Got
  <2>3. Prefix(r, Got(r))' = Prefix(r, Got(r))
    BY <2>2 DEF Prefix, Byte
  <2> QED BY <1>1, <1>3, <1>5, <2>1, <2>3 DEF SeenAt
<1>6. CASE ~body'[r].error /\ ~body[r].asked
  <2>1. MarkError(body[r]).error
    BY <1>1, Marked
  <2>2. ASSUME body' = [body EXCEPT ![r] = MarkError(body[r])] PROVE FALSE
    <3>1. body'[r] = MarkError(body[r])
      BY <2>2 DEF NetTypes
    <3> QED BY <1>6, <2>1, <3>1
  <2>3. Http1BodyDone(r) \/ (BodyEnd(r) /\ ~(len[r] # Unknown /\ readers[r].count # len[r]))
    BY <1>6, <2>2 DEF Http1BodyFails, BodyAbandoned, BodyEnd, BodyBroken, BodyTimesOut, StopReader
  <2>4. CASE Http1BodyDone(r)
    <3>1. ~Mux /\ readers[r].count = 0
      BY <2>4 DEF Http1BodyDone, Lent
    <3>2. Got(r) = len[r] - 0
      BY <1>1, <1>3, <1>6, <3>1 DEF SeenAt
    <3>3. Seen(body[r]) \in ByteStrings
      BY <1>1, SeenType
    <3>4. Got(r) \in Nat
      BY <3>3 DEF Got, ByteStrings
    <3>5. len[r] \in Nat \cup {Unknown}
      BY DEF NetTypes
    <3>6. Got(r) = len[r] /\ len[r] # Unknown
      BY <3>2, <3>4, <3>5 DEF Unknown
    <3> QED BY <1>1, <1>2, <3>6, SeenStops DEF Declared
  <2>5. CASE BodyEnd(r) /\ ~(len[r] # Unknown /\ readers[r].count # len[r])
    <3>1. Mux /\ incoming[r].data = <<>>
      BY <2>5 DEF BodyEnd, Reading
    <3>2. Got(r) = readers[r].count /\ Len(incoming[r].data) + readers[r].count = incoming[r].sent
      BY <1>1, <1>3, <1>6, <3>1 DEF SeenAt
    <3>3. readers[r].count = incoming[r].sent
      BY <1>1, <3>1, <3>2
    <3> QED BY <1>1, <1>2, <2>5, <3>2, <3>3, SeenStops DEF Declared
  <2> QED BY <2>3, <2>4, <2>5
<1> QED BY <1>5, <1>6

(* Accepting a request keeps SeenSound.                                    *)
LEMMA SeenAccepts ==
    ASSUME NetTypes, Future, SeenSound, AcceptRequest
    PROVE  SeenSound'
<1>1. PICK r \in Requests : r = serve.req + 1
  BY Accepts
<1>2. /\ Mux /\ UNCHANGED <<proto, len, incoming, body>> /\ Mux' = Mux
      /\ readers' = readers \/ readers' = [readers EXCEPT ![r].on = TRUE]
  BY <1>1, Accepts DEF net, Mux
<1>3. \A q \in Requests : q # r => readers'[q] = readers[q]
  BY <1>2 DEF NetTypes
<1>4. Fresh(r)
  <2>1. r > serve.req
    BY <1>1 DEF NetTypes
  <2> QED BY <2>1 DEF Future
<1>5. SeenAt(r)'
  <2>1. /\ body'[r] = NewBody /\ readers[r].count = 0 /\ ~readers[r].on
        /\ incoming[r].data = Prefix(r, incoming[r].sent) /\ incoming[r].sent \in Nat
    BY <1>2, <1>4 DEF Fresh, NetTypes
  <2>2. CASE readers' = readers
    BY <2>1, <2>2, SeenNone
  <2>3. CASE readers' = [readers EXCEPT ![r].on = TRUE]
    <3>1. readers'[r].count = 0
      BY <2>1, <2>3, ReaderTurns
    <3>2. Seen(body'[r]) = <<>> /\ ~body'[r].finished
      BY <2>1, NewBodyType DEF NewBody
    <3>3. Got(r)' = 0
      BY <3>2 DEF Got
    <3>4. Prefix(r, 0) = <<>> /\ Prefix(r, Got(r))' = Prefix(r, 0)
      BY <3>3 DEF Prefix, Byte
    <3> DEFINE n == incoming[r].sent
               d == incoming'[r].data
    <3>5. Len(d) = n /\ n \in Nat /\ DOMAIN d = 1..n /\ \A i \in 1..n : d[i] = <<r, i>>
      BY <1>2, <2>1, Prefixed DEF Prefix
    <3> HIDE DEF n, d
    <3>6. Len(d) + 0 = n /\ \A i \in DOMAIN d : d[i] = <<r, 0 + i>>
      BY <3>5
    <3> QED BY <1>2, <3>1, <3>2, <3>3, <3>4, <3>6 DEF SeenAt, n, d
  <2> QED BY <1>2, <2>2, <2>3
<1>6. \A q \in Requests : q # r => SeenAt(q)'
  BY <1>2, <1>3, SeenSame DEF SeenSound
<1> QED BY <1>5, <1>6 DEF SeenSound

(* Every step keeps SeenSound.                                             *)
LEMMA SeenHolds ==
    ASSUME NetTypes, NetTypes', DartTypes, UplinkSound, HalfSound, Future, Awaited, Position, Position',
           SeenSound, [HttpNext]_httpVars
    PROVE  SeenSound'
<1>0. UNCHANGED proto
  BY ProtoKept
<1>1. ASSUME UNCHANGED <<body, readers, len, incoming>> PROVE SeenSound'
  BY <1>0, <1>1, SeenSame DEF SeenSound
<1>2. CASE PeerOpens
  <2>1. PICK r \in Requests : r = client.opened + 1
    BY <1>2, OpensOne
  <2>2. UNCHANGED <<body, readers>> /\ \A q \in Requests : q # r => len'[q] = len[q] /\ incoming'[q] = incoming[q]
    BY <1>2, <2>1, OpensOne DEF PeerOpens
  <2>3. r > serve.req
    BY <2>1 DEF Future, NetTypes
  <2>4. body'[r] = NewBody /\ ~readers'[r].on
    BY <2>2, <2>3 DEF Future, Fresh
  <2>5. \A q \in Requests : q # r => SeenAt(q)'
    BY <1>0, <2>2, SeenSame DEF SeenSound
  <2> QED BY <2>4, <2>5, SeenNone DEF SeenSound
<1>3. CASE \/ PeerSendsByte \/ PeerLeaves \/ FillBuf \/ ReadHead \/ RouteResolved \/ Reclaim \/ AcceptEnds
           \/ PollRequest \/ CloseConnection \/ UNCHANGED httpVars
  BY <1>1, <1>3 DEF PeerSendsByte, PeerLeaves, FillBuf, ReadHead, RouteResolved, Reclaim, AcceptEnds,
     PollRequest, CloseConnection, httpVars, net
<1>4. CASE ReadInline
  BY <1>4, SeenInline
<1>5. CASE StartBody
  BY <1>5, SeenStarts
<1>6. CASE Answering
  BY <1>1, <1>6, AnsweringLeaves DEF net
<1>7. CASE AcceptRequest
  BY <1>7, SeenAccepts
<1>8. CASE \E r \in Requests : Http1BodyStep(r) \/ BodyStep(r)
  <2>1. PICK r \in Requests : Http1BodyStep(r) \/ BodyStep(r)
    BY <1>8
  <2>2. /\ UNCHANGED len /\ SeenAt(r)'
        /\ \A q \in Requests : q # r =>
             body'[q] = body[q] /\ readers'[q] = readers[q] /\ incoming'[q] = incoming[q]
    <3>1. CASE Http1BodyRead(r)
      <4>1. UNCHANGED <<len, incoming>> /\ SeenAt(r)'
        BY <3>1, BodyReads, SeenReads DEF net
      <4>2. /\ body' = body \/ \E c : body' = [body EXCEPT ![r] = c]
            /\ \E c : readers' = [readers EXCEPT ![r] = c]
        BY <3>1 DEF Http1BodyRead
      <4> QED BY <4>1, <4>2 DEF NetTypes
    <3>2. CASE BodyData(r)
      <4>1. UNCHANGED len /\ SeenAt(r)'
        BY <3>2, ReadsData, SeenData
      <4>2. /\ \E c : body' = [body EXCEPT ![r] = c]
            /\ \E c : readers' = [readers EXCEPT ![r] = c]
            /\ \E c : incoming' = [incoming EXCEPT ![r] = c]
        BY <3>2 DEF BodyData, StopReader
      <4> QED BY <4>1, <4>2 DEF NetTypes
    <3>3. CASE \/ Http1BodyDone(r) \/ Http1BodyFails(r) \/ BodyAbandoned(r) \/ BodyEnd(r) \/ BodyBroken(r)
               \/ \E why \in {"idle", "total"} : BodyTimesOut(r, why)
      <4>1. UNCHANGED incoming /\ SeenAt(r)' /\ \E c : Stops(r, c)
        BY <3>3, BodyStops, SeenEnds
      <4>2. UNCHANGED len
        BY <4>1 DEF Stops
      <4> QED BY <4>1, <4>2, StopsFacts
    <3> QED BY <2>1, <3>1, <3>2, <3>3 DEF Http1BodyStep, BodyStep
  <2>3. \A q \in Requests : q # r => SeenAt(q)'
    BY <1>0, <2>2, SeenSame DEF SeenSound
  <2> QED BY <2>2, <2>3 DEF SeenSound
<1>9. CASE \E r \in Requests : SendStep(r)
  BY <1>1, <1>9, SendTypes DEF net
<1>10. CASE \E r \in Requests : DartStep(r)
  <2>1. PICK r \in Requests : DartStep(r)
    BY <1>10
  <2>2. CASE DartReads(r)
    <3>1. PICK c : Touches(r, c)
      BY <2>2, DartTouches
    <3>2. UNCHANGED <<readers, len, incoming>>
      BY <2>2, DartTouches DEF net
    <3>3. body'[r] = c /\ \A q \in Requests : q # r => body'[q] = body[q]
      BY <3>1, TouchFacts
    <3>4. SeenAt(r)'
      BY <1>0, <3>1, <3>2, <3>3, SeenSame DEF SeenSound, Touches
    <3>5. \A q \in Requests : q # r => SeenAt(q)'
      BY <1>0, <3>2, <3>3, SeenSame DEF SeenSound
    <3> QED BY <3>4, <3>5 DEF SeenSound
  <2>3. CASE RetainBody(r) \/ DartAnswers(r)
    BY <1>1, <2>3 DEF RetainBody, DartAnswers, Respond, ReleaseRequest, OpenResponseStream, WriteChunk,
       FinishResponseStream, net
  <2> QED BY <2>1, <2>2, <2>3 DEF DartStep, DartReads, DartAnswers
<1> QED BY <1>2, <1>3, <1>4, <1>5, <1>6, <1>7, <1>8, <1>9, <1>10 DEF HttpNext, Http1Step, Answering

(* SeenSound holds initially.                                              *)
LEMMA SeenInit == HttpInit => SeenSound
<1> SUFFICES ASSUME HttpInit PROVE SeenSound
  OBVIOUS
<1>1. \A r \in Requests : body[r] = NewBody /\ ~readers[r].on
  BY DEF HttpInit
<1>2. ~NewBody.finished /\ Seen(NewBody) = <<>> /\ Len(<<>>) = 0
  BY NewBodyType DEF NewBody
<1>3. \A r \in Requests : Got(r) = 0 /\ Prefix(r, 0) = <<>>
  BY <1>1, <1>2 DEF Got, Prefix
<1> QED BY <1>1, <1>2, <1>3 DEF SeenSound, SeenAt

(* A body that Dart was told has ended was seen whole.                     *)
LEMMA SeenWhole == Awaited /\ SeenSound => BodiesWhole
<1> SUFFICES ASSUME Awaited, SeenSound, NEW r \in Requests
             PROVE  LET seen == Seen(body[r]) IN
                    /\ seen = Prefix(r, Len(seen))
                    /\ body[r].told = "end" /\ ~body[r].asked =>
                         Len(seen) = IF len[r] # Unknown THEN len[r] ELSE incoming[r].sent
  BY DEF BodiesWhole
<1>1. SeenAt(r) /\ (body[r].told = "end" => body[r].finished /\ ~body[r].error)
  BY DEF SeenSound, Awaited, AwaitedAt
<1> QED BY <1>1 DEF SeenAt, Got, Declared

(* Dart reads of a body only that request's bytes, in order, and is told   *)
(* that it ended normally, unless Dart asked for an early end, only after  *)
(* every one of them: BodiesWhole for every value of the constants, on     *)
(* HTTP/1 across inline bodies, buffered bytes and the read half's way to  *)
(* the body reader and back.                                               *)
THEOREM BodiesStayWhole == HttpSpec => []BodiesWhole
<1>1. HttpInit => HttpInv /\ SeenSound
  BY HttpInvInit, SeenInit
<1>2. (HttpInv /\ SeenSound) /\ [HttpNext]_httpVars => (HttpInv /\ SeenSound)'
  BY HttpInvNext, SeenHolds DEF HttpInv
<1>3. HttpInv /\ SeenSound => BodiesWhole
  BY SeenWhole DEF HttpInv
<1> QED BY <1>1, <1>2, <1>3, PTL DEF HttpSpec

(* A lane grows: what it holds of a request stays sound. *)
Lanes == Seq(Requests \X Int)

(* A lane with one more item.                                              *)
LEMMA Appended ==
    ASSUME NEW o \in Lanes, NEW x \in Requests \X Int
    PROVE  /\ Append(o, x) \in Lanes /\ Len(Append(o, x)) = Len(o) + 1 /\ Len(o) \in Nat
           /\ DOMAIN o = 1..Len(o) /\ DOMAIN Append(o, x) = 1..(Len(o) + 1)
           /\ Append(o, x)[Len(o) + 1] = x /\ \A i \in DOMAIN o : Append(o, x)[i] = o[i]
           /\ \A i \in DOMAIN Append(o, x) : i \in DOMAIN o \/ i = Len(o) + 1
           /\ \A i \in DOMAIN o : i \in DOMAIN Append(o, x) /\ i # Len(o) + 1
           /\ Len(o) + 1 \in DOMAIN Append(o, x)
BY DEF Lanes

(* The items of a response are told apart.                                 *)
LEMMA LaneItems ==
    ASSUME NEW r \in Requests
    PROVE  /\ Whole(r)[1] = r /\ Opening(r)[1] = r /\ (\A n \in Nat : <<r, n>>[1] = r)
           /\ Whole(r) # <<r, Finished>> /\ Opening(r) # <<r, Finished>> /\ Whole(r) # Opening(r)
           /\ \A n \in Nat : <<r, n>> # Opening(r) /\ ~BeginsAnswer(<<r, n>>)
           /\ \A n \in Nat : n # 0 => <<r, n>> # <<r, Finished>>
           /\ Finished = 0 /\ <<r, Finished>>[1] = r
BY DEF Whole, Opening, Finished, BeginsAnswer

(* What is written for another request changes nothing for r, unless r is  *)
(* being streamed.                                                         *)
LEMMA AnsweredOther ==
    ASSUME NEW o \in Lanes, NEW x \in Requests \X Int, NEW r \in Requests, x[1] # r, NEW at, at # "chunks",
           NEW p, NEW m \in Nat, NEW w, Answered(o, r, at, p, m, w)
    PROVE  Answered(Append(o, x), r, at, p, m, w)
<1> DEFINE a == Append(o, x)
           n == Len(o)
<1>1. /\ \A i \in DOMAIN o : a[i] = o[i] /\ i \in DOMAIN a
      /\ \A i \in DOMAIN a : i \in DOMAIN o \/ i = n + 1
      /\ a[n + 1] = x /\ Len(a) = n + 1 /\ n \in Nat /\ DOMAIN o = 1..n
  BY Appended
<1> HIDE DEF a, n
<1>2. \A i \in DOMAIN a : a[i][1] = r => i \in DOMAIN o /\ a[i] = o[i]
  BY <1>1
<1>3. \A i \in DOMAIN a : \A y : a[i] = <<r, y>> => i \in DOMAIN o /\ a[i] = o[i]
  BY <1>2
<1>4. at \in Before => \A i \in DOMAIN a : a[i][1] # r
  BY <1>2 DEF Answered
<1>5. ASSUME at = "sent", NEW i \in DOMAIN a, a[i] = Opening(r)
      PROVE  \E k \in DOMAIN a : i < k /\ a[k] = <<r, Finished>>
  <2>1. i \in DOMAIN o /\ o[i] = Opening(r)
    BY <1>3, <1>5 DEF Opening
  <2>2. PICK k \in DOMAIN o : i < k /\ o[k] = <<r, Finished>>
    BY <1>5, <2>1 DEF Answered
  <2> QED BY <1>1, <2>2
<1>6. \A i, j \in DOMAIN a : a[i][1] = r /\ a[j][1] = r /\ BeginsAnswer(a[i]) /\ BeginsAnswer(a[j]) => i = j
  BY <1>2 DEF Answered
<1>7. ASSUME NEW k \in DOMAIN a, a[k] = <<r, Finished>>
      PROVE  at = "sent" /\ ~w /\ Terminated(a, r, k, m)
  <2>1. k \in DOMAIN o /\ o[k] = <<r, Finished>>
    BY <1>3, <1>7
  <2>2. at = "sent" /\ ~w /\ Terminated(o, r, k, m)
    BY <2>1 DEF Answered
  <2> DEFINE f == k - m - 1
  <2>3. f > 0 /\ o[f] = Opening(r) /\ (\A i \in 1..m : o[f + i] = <<r, i>>)
        /\ \A i \in DOMAIN o : o[i][1] = r => i \in f..k
    BY <2>2 DEF Terminated
  <2>4. f \in DOMAIN o /\ \A i \in 1..m : f + i \in DOMAIN o
    BY <1>1, <2>1, <2>3
  <2> HIDE DEF f
  <2>5. a[f] = Opening(r) /\ (\A i \in 1..m : a[f + i] = <<r, i>>)
        /\ \A i \in DOMAIN a : a[i][1] = r => i \in f..k
    BY <1>1, <1>2, <2>3, <2>4
  <2> QED BY <2>2, <2>3, <2>5 DEF Terminated, f
<1> QED BY <1>4, <1>5, <1>6, <1>7 DEF Answered, a

(* A first item written: the whole response, or the head of a streamed     *)
(* one.                                                                    *)
LEMMA AnsweredWhole ==
    ASSUME NEW o \in Lanes, NEW r \in Requests, NEW at \in Before, NEW p, NEW m, NEW w, NEW p1, NEW m1, NEW w1,
           Answered(o, r, at, p, m, w)
    PROVE  /\ Answered(Append(o, Whole(r)), r, "sent", p1, m1, w1)
           /\ Answered(Append(o, Opening(r)), r, "chunks", 0, m1, w1)
<1> SUFFICES ASSUME NEW x \in {Whole(r), Opening(r)}, NEW q, x = Opening(r) => q = 0
             PROVE  Answered(Append(o, x), r, IF x = Whole(r) THEN "sent" ELSE "chunks", q, m1, w1)
  BY LaneItems
<1> DEFINE a == Append(o, x)
           n == Len(o)
<1>0. x \in Requests \X Int /\ x[1] = r /\ x # <<r, Finished>>
  BY Answers, LaneItems
<1>1. /\ \A i \in DOMAIN o : a[i] = o[i] /\ i \in DOMAIN a
      /\ \A i \in DOMAIN a : i \in DOMAIN o \/ i = n + 1
      /\ a[n + 1] = x /\ Len(a) = n + 1 /\ n \in Nat /\ DOMAIN o = 1..n
  BY <1>0, Appended
<1> HIDE DEF a, n
<1>2. \A i \in DOMAIN o : o[i][1] # r
  BY DEF Answered
<1>3. \A i \in DOMAIN a : a[i][1] = r => i = n + 1
  BY <1>1, <1>2
<1>4. \A i \in DOMAIN a : \A y : a[i] = <<r, y>> => i = n + 1
  BY <1>3
<1>5. \A k \in DOMAIN a : a[k] # <<r, Finished>>
  BY <1>0, <1>1, <1>4
<1>6. \A i, j \in DOMAIN a : a[i][1] = r /\ a[j][1] = r => i = j
  BY <1>3
<1>7. CASE x = Whole(r)
  <2>1. \A i \in DOMAIN a : a[i] # Opening(r)
    BY <1>1, <1>4, <1>7, LaneItems DEF Opening
  <2> QED BY <1>5, <1>6, <1>7, <2>1 DEF Answered, Before, Idle, a
<1>8. CASE x = Opening(r)
  <2>1. Block(a, r, 0)
    <3>1. Len(a) - 0 = n + 1 /\ n + 1 > 0 /\ 1..0 = {}
      BY <1>1
    <3> QED BY <1>1, <1>3, <1>8, <3>1 DEF Block
  <2>2. q = 0 /\ x # Whole(r)
    BY <1>8, LaneItems
  <2> QED BY <1>5, <1>6, <2>1, <2>2 DEF Answered, Before, Idle, a
<1> QED BY <1>7, <1>8

(* One more chunk written.                                                 *)
LEMMA AnsweredChunk ==
    ASSUME NEW o \in Lanes, NEW r \in Requests, NEW p \in Nat, NEW m, NEW w, NEW m1, NEW w1,
           Answered(o, r, "chunks", p, m, w)
    PROVE  Answered(Append(o, <<r, p + 1>>), r, "chunks", p + 1, m1, w1)
<1> DEFINE x == <<r, p + 1>>
           a == Append(o, x)
           n == Len(o)
<1>0. p + 1 \in Nat /\ p + 1 # 0
  OBVIOUS
<1>1. x \in Requests \X Int /\ x[1] = r /\ x # <<r, Finished>> /\ ~BeginsAnswer(x)
  BY <1>0, Answers, LaneItems
<1>2. /\ \A i \in DOMAIN o : a[i] = o[i] /\ i \in DOMAIN a
      /\ \A i \in DOMAIN a : i \in DOMAIN o \/ i = n + 1
      /\ a[n + 1] = x /\ Len(a) = n + 1 /\ n \in Nat /\ DOMAIN o = 1..n
  BY <1>1, Appended
<1> HIDE DEF a, n
<1>3. Block(o, r, p) /\ \A k \in DOMAIN o : o[k] # <<r, Finished>>
  BY DEF Answered
<1>4. \A k \in DOMAIN a : a[k] # <<r, Finished>>
  BY <1>1, <1>2, <1>3
<1>5. \A i \in DOMAIN a : BeginsAnswer(a[i]) => i \in DOMAIN o /\ a[i] = o[i]
  BY <1>1, <1>2
<1>6. \A i, j \in DOMAIN a : a[i][1] = r /\ a[j][1] = r /\ BeginsAnswer(a[i]) /\ BeginsAnswer(a[j]) => i = j
  BY <1>5 DEF Answered
<1>7. Block(a, r, p + 1)
  <2> DEFINE f == n - p
  <2>1. /\ f > 0 /\ o[f] = Opening(r) /\ (\A i \in 1..p : o[f + i] = <<r, i>>)
        /\ \A i \in DOMAIN o : o[i][1] = r => i >= f
    BY <1>3 DEF Block, n
  <2>2. Len(a) - (p + 1) = f /\ f \in Int /\ f \in DOMAIN o /\ f + (p + 1) = n + 1
        /\ n + 1 >= f /\ \A i \in 1..p : f + i \in DOMAIN o
    BY <1>2, <2>1
  <2> HIDE DEF f
  <2>3. \A i \in 1..(p + 1) : i \in 1..p \/ i = p + 1
    OBVIOUS
  <2>4. \A i \in 1..(p + 1) : a[f + i] = <<r, i>>
    BY <1>2, <2>1, <2>2, <2>3
  <2>5. \A i \in DOMAIN a : a[i][1] = r => i >= f
    BY <1>2, <2>1, <2>2
  <2>6. a[f] = Opening(r)
    BY <1>2, <2>1, <2>2
  <2> QED BY <2>1, <2>2, <2>4, <2>5, <2>6 DEF Block
<1> QED BY <1>4, <1>6, <1>7 DEF Answered, Before, Idle, a

(* The end written, after every chunk.                                     *)
LEMMA AnsweredEnd ==
    ASSUME NEW o \in Lanes, NEW r \in Requests, NEW m \in Nat, NEW w, ~w, NEW p1,
           Answered(o, r, "chunks", m, m, w)
    PROVE  Answered(Append(o, <<r, Finished>>), r, "sent", p1, m, w)
<1> DEFINE x == <<r, Finished>>
           a == Append(o, x)
           n == Len(o)
<1>1. x \in Requests \X Int /\ x[1] = r /\ ~BeginsAnswer(x) /\ x # Opening(r)
  BY Answers, LaneItems
<1>2. /\ \A i \in DOMAIN o : a[i] = o[i] /\ i \in DOMAIN a
      /\ \A i \in DOMAIN a : i \in DOMAIN o \/ i = n + 1
      /\ a[n + 1] = x /\ Len(a) = n + 1 /\ n \in Nat /\ DOMAIN o = 1..n /\ n + 1 \in DOMAIN a
  BY <1>1, Appended
<1> HIDE DEF a, n
<1>3. Block(o, r, m) /\ \A k \in DOMAIN o : o[k] # <<r, Finished>>
  BY DEF Answered
<1>4. \A k \in DOMAIN a : a[k] = <<r, Finished>> => k = n + 1
  BY <1>2, <1>3
<1>5. \A i \in DOMAIN a : BeginsAnswer(a[i]) => i \in DOMAIN o /\ a[i] = o[i]
  BY <1>1, <1>2
<1>6. \A i, j \in DOMAIN a : a[i][1] = r /\ a[j][1] = r /\ BeginsAnswer(a[i]) /\ BeginsAnswer(a[j]) => i = j
  BY <1>5 DEF Answered
<1>7. Terminated(a, r, n + 1, m)
  <2> DEFINE f == n - m
  <2>1. /\ f > 0 /\ o[f] = Opening(r) /\ (\A i \in 1..m : o[f + i] = <<r, i>>)
        /\ \A i \in DOMAIN o : o[i][1] = r => i >= f
    BY <1>3 DEF Block, n
  <2>2. (n + 1) - m - 1 = f /\ f \in Int /\ f \in DOMAIN o /\ n + 1 \in f..(n + 1)
        /\ (\A i \in DOMAIN o : i >= f => i \in f..(n + 1)) /\ \A i \in 1..m : f + i \in DOMAIN o
    BY <1>2, <2>1
  <2> HIDE DEF f
  <2>3. \A i \in DOMAIN a : a[i][1] = r => i \in f..(n + 1)
    BY <1>2, <2>1, <2>2
  <2>4. a[f] = Opening(r) /\ \A i \in 1..m : a[f + i] = <<r, i>>
    BY <1>2, <2>1, <2>2
  <2> QED BY <2>1, <2>2, <2>3, <2>4 DEF Terminated
<1>8. \A i \in DOMAIN a : a[i] = Opening(r) => i < n + 1 /\ a[n + 1] = <<r, Finished>>
  BY <1>1, <1>2
<1> QED BY <1>2, <1>4, <1>6, <1>7, <1>8 DEF Answered, Before, Idle, a

(* A response moves without a write. *)
LEMMA AnsweredMoves ==
    ASSUME NEW o, NEW r, NEW at, NEW p, NEW m, NEW w, NEW at1, NEW p1, NEW m1, NEW w1,
           Answered(o, r, at, p, m, w),
           \/ at1 = at
           \/ at \in Before /\ at1 \in Before \cup {"failed"}
           \/ at = "chunks" /\ at1 = "failed",
           at1 = "chunks" => p1 = p,
           at = "sent" /\ ~w => m1 = m /\ ~w1
    PROVE  Answered(o, r, at1, p1, m1, w1)
<1>1. CASE at1 = at
  BY <1>1 DEF Answered
<1>2. CASE at \in Before /\ at1 \in Before \cup {"failed"}
  BY <1>2 DEF Answered, Before, Idle
<1>3. CASE at = "chunks" /\ at1 = "failed"
  BY <1>3 DEF Answered, Before, Idle
<1> QED BY <1>1, <1>2, <1>3

(* A lane stays in order when the next item is of the last response in it, *)
(* or of a later one with the streamed ones before it ended.               *)
LEMMA LaneGrows ==
    ASSUME NEW o \in Lanes, NEW x \in Requests \X Int, InLane(o),
           \A i \in DOMAIN o : o[i][1] <= x[1],
           \A i \in DOMAIN o : o[i] = Opening(o[i][1]) /\ o[i][1] < x[1] =>
             \E k \in DOMAIN o : i < k /\ o[k] = <<o[i][1], Finished>>
    PROVE  InLane(Append(o, x))
<1> DEFINE a == Append(o, x)
           n == Len(o)
<1>1. /\ \A i \in DOMAIN o : a[i] = o[i] /\ i \in DOMAIN a
      /\ \A i \in DOMAIN a : i \in DOMAIN o \/ i = n + 1
      /\ a[n + 1] = x /\ Len(a) = n + 1 /\ n \in Nat /\ DOMAIN o = 1..n
  BY Appended
<1>2. \A i \in DOMAIN o : o[i][1] \in Nat
  <2>1. \A i \in DOMAIN o : o[i] \in Requests \X Int
    BY DEF Lanes
  <2> QED BY <2>1, HttpConstants
<1>3. x[1] \in Nat
  BY HttpConstants
<1> HIDE DEF a, n
<1> SUFFICES ASSUME NEW i \in DOMAIN a, NEW j \in DOMAIN a, i < j
             PROVE  /\ a[i][1] <= a[j][1]
                    /\ a[i] = Opening(a[i][1]) /\ a[j][1] > a[i][1] =>
                         \E k \in i..j : a[k] = <<a[i][1], Finished>>
  BY DEF InLane, a
<1>4. i \in DOMAIN o
  BY <1>1
<1>5. CASE j \in DOMAIN o
  <2>1. a[i] = o[i] /\ a[j] = o[j] /\ \A k \in i..j : k \in DOMAIN o
    BY <1>1, <1>4, <1>5
  <2>2. /\ o[i][1] <= o[j][1]
        /\ o[i] = Opening(o[i][1]) /\ o[j][1] > o[i][1] =>
             \E k \in i..j : o[k] = <<o[i][1], Finished>>
    BY <1>4, <1>5 DEF InLane
  <2>3. \A k \in i..j : a[k] = o[k]
    BY <1>1, <2>1
  <2> QED BY <2>1, <2>2, <2>3
<1>6. CASE j = n + 1
  <2>1. a[i] = o[i] /\ a[j] = x
    BY <1>1, <1>4, <1>6
  <2>2. ASSUME o[i] = Opening(o[i][1]), x[1] > o[i][1]
        PROVE  \E k \in i..j : a[k] = <<o[i][1], Finished>>
    <3>1. o[i][1] < x[1]
      BY <1>2, <1>3, <1>4, <2>2
    <3>2. PICK k \in DOMAIN o : i < k /\ o[k] = <<o[i][1], Finished>>
      BY <1>4, <2>2, <3>1
    <3>3. k \in i..j
      BY <1>1, <1>4, <1>6, <3>2
    <3> QED BY <1>1, <3>2, <3>3
  <2> QED BY <1>4, <2>1, <2>2
<1> QED BY <1>1, <1>5, <1>6

(* What a step does to the answers. *)
Quiet ==
    /\ UNCHANGED <<out, stream>>
    /\ \A q \in Requests : \/ resp'[q] = resp[q]
                           \/ resp[q] \in Idle /\ resp'[q] \in Idle \cup {"failed"}

(* A response in one piece goes out.                                       *)
Says(r) ==
    /\ out' = Written(r, Whole(r)) /\ UNCHANGED stream /\ resp' = [resp EXCEPT ![r] = "sent"]
    /\ resp[r] \in Idle /\ (~Mux => r = serve.req)

(* A step of a streamed response of r.                                     *)
Streams(r) ==
    \/ OpenResponseStream(r) \/ WriteChunk(r) \/ FinishResponseStream(r)
    \/ SendStreamHead(r) \/ SendFrame(r) \/ SendFails(r)

(* A response that moves on before its first item is written is quiet.     *)
LEMMA QuietMove ==
    ASSUME DartTypes, NEW r \in Requests, NEW x \in Idle \cup {"failed"}, resp[r] \in Idle,
           resp' = [resp EXCEPT ![r] = x], UNCHANGED <<out, stream>>
    PROVE  Quiet
BY DEF Quiet, DartTypes

(* So is the dropping of the queued requests.                              *)
LEMMA QuietDrops ==
    ASSUME DartTypes, resp' = Dropped, UNCHANGED <<out, stream>>
    PROVE  Quiet
<1>1. \A q \in Requests : resp'[q] = IF resp[q] = "queued" THEN "dropped" ELSE resp[q]
  BY DEF Dropped
<1> QED BY <1>1 DEF Quiet, Idle

(* Every step is quiet, writes a response in one piece, or is one of a     *)
(* streamed response.                                                      *)
LEMMA LaneSteps ==
    ASSUME NetTypes, DartTypes, UplinkSound, HalfSound, Future, Awaited, RespSound, Queued,
           [HttpNext]_httpVars
    PROVE  Quiet \/ \E r \in Requests : Says(r) \/ Streams(r)
<1>1. ASSUME UNCHANGED <<out, stream, resp>> PROVE Quiet
  BY <1>1 DEF Quiet
<1>2. CASE \/ PeerOpens \/ PeerSendsByte \/ PeerLeaves \/ FillBuf \/ ReadHead \/ ReadInline \/ StartBody
           \/ ReadEnds \/ Reclaim \/ UNCHANGED httpVars
  BY <1>1, <1>2 DEF PeerOpens, PeerSendsByte, PeerLeaves, FillBuf, ReadHead, ReadInline, StartBody,
     ReadEnds, Reclaim, httpVars, dart
<1>3. ASSUME At("route") PROVE ~Mux /\ serve.req \in Requests /\ resp[serve.req] = "none"
  BY <1>3, Serving DEF At, RespSound
<1>4. CASE RouteResolved
  <2>1. At("route") /\ UNCHANGED <<out, stream>>
        /\ (resp' = resp \/ resp' = [resp EXCEPT ![serve.req] = "queued"])
    BY <1>4 DEF RouteResolved, EnqueueHttpRequest
  <2> QED BY <1>1, <1>3, <2>1, QuietMove DEF Idle
<1>5. CASE RouteRejected
  <2>1. /\ At("route") /\ UNCHANGED stream /\ out' = Written(serve.req, Whole(serve.req))
        /\ resp' = [resp EXCEPT ![serve.req] = "sent"]
    BY <1>5 DEF RouteRejected
  <2> QED BY <1>3, <2>1 DEF Says, Idle
<1>6. CASE RejectionFails
  <2>1. At("route") /\ UNCHANGED <<out, stream>> /\ resp' = [resp EXCEPT ![serve.req] = "failed"]
    BY <1>6 DEF RejectionFails
  <2> QED BY <1>3, <2>1, QuietMove DEF Idle
<1>7. CASE ResponseCancelled
  <2>1. /\ ~Mux /\ serve.at = "await" /\ resp[serve.req] = "dropped"
        /\ UNCHANGED stream /\ out' = Written(serve.req, Whole(serve.req))
        /\ resp' = [resp EXCEPT ![serve.req] = "sent"]
    BY <1>7 DEF ResponseCancelled, At
  <2>2. serve.req \in Requests
    BY <2>1, Serving
  <2> QED BY <2>1, <2>2 DEF Says, Idle
<1>8. CASE AcceptRequest
  <2> DEFINE r == serve.req + 1
  <2>1. /\ r \in Requests /\ Mux /\ UNCHANGED stream
        /\ \/ resp' = [resp EXCEPT ![r] = "queued"] /\ UNCHANGED out
           \/ resp' = [resp EXCEPT ![r] = "sent"] /\ out' = Written(r, Whole(r))
           \/ resp' = [resp EXCEPT ![r] = "failed"] /\ UNCHANGED out
    BY <1>8, Accepts DEF EnqueueHttpRequest
  <2>2. resp[r] = "none"
    <3>1. r > serve.req
      BY DEF NetTypes
    <3> QED BY <2>1, <3>1 DEF Future, Fresh
  <2> HIDE DEF r
  <2>3. CASE resp' = [resp EXCEPT ![r] = "sent"] /\ out' = Written(r, Whole(r))
    BY <2>1, <2>2, <2>3 DEF Says, Idle
  <2>4. CASE resp' = [resp EXCEPT ![r] = "queued"] /\ UNCHANGED out
    BY <2>1, <2>2, <2>4, QuietMove DEF Idle
  <2>5. CASE resp' = [resp EXCEPT ![r] = "failed"] /\ UNCHANGED out
    BY <2>1, <2>2, <2>5, QuietMove DEF Idle
  <2> QED BY <2>1, <2>3, <2>4, <2>5
<1>9. CASE AcceptEnds
  <2>1. resp' = Dropped /\ UNCHANGED <<out, stream>>
    BY <1>9, EndsAccepting DEF Finishes
  <2> QED BY <2>1, QuietDrops
<1>10. CASE CloseConnection
  <2>1. resp' = Dropped /\ UNCHANGED <<out, stream>>
    BY <1>10 DEF CloseConnection, Dropped
  <2> QED BY <2>1, QuietDrops
<1>11. CASE PollRequest
  <2>1. /\ registered.pending[1] \in Requests /\ resp' = [resp EXCEPT ![registered.pending[1]] = "polled"]
        /\ UNCHANGED <<out, stream>> /\ Len(registered.pending) \in Nat \ {0}
    BY <1>11, Polls
  <2>2. 1 \in DOMAIN registered.pending
    BY <2>1 DEF DartTypes
  <2>3. resp[registered.pending[1]] = "queued"
    BY <2>2 DEF Queued
  <2> QED BY <2>1, <2>3, QuietMove DEF Idle
<1>12. CASE \E r \in Requests : Http1BodyStep(r) \/ BodyStep(r)
  <2>1. UNCHANGED <<out, stream, resp>>
    BY <1>12 DEF Http1BodyStep, Http1BodyRead, Http1BodyDone, Http1BodyFails, BodyStep, BodyAbandoned,
       BodyData, BodyEnd, BodyBroken, BodyTimesOut, dart
  <2> QED BY <1>1, <2>1
<1>13. CASE \E r \in Requests : SendStep(r)
  <2>1. PICK r \in Requests : SendStep(r)
    BY <1>13
  <2>2. CASE SendBuffered(r)
    BY <2>2 DEF SendBuffered, Sender, Says, Idle
  <2>3. CASE SendCancelled(r)
    <3>1. /\ Mux /\ resp[r] = "dropped" /\ UNCHANGED stream
          /\ \/ resp' = [resp EXCEPT ![r] = "failed"] /\ UNCHANGED out
             \/ resp' = [resp EXCEPT ![r] = "sent"] /\ out' = Written(r, Whole(r))
      BY <2>3 DEF SendCancelled
    <3>2. CASE resp' = [resp EXCEPT ![r] = "failed"] /\ UNCHANGED out
      BY <3>1, <3>2, QuietMove DEF Idle
    <3>3. CASE resp' = [resp EXCEPT ![r] = "sent"] /\ out' = Written(r, Whole(r))
      BY <3>1, <3>3 DEF Says, Idle
    <3> QED BY <3>1, <3>2, <3>3
  <2> QED BY <2>1, <2>2, <2>3 DEF SendStep, Streams
<1>14. CASE \E r \in Requests : DartStep(r)
  <2>1. PICK r \in Requests : DartStep(r)
    BY <1>14
  <2>2. CASE DartReads(r)
    BY <1>1, <2>2, DartTouches
  <2>3. CASE RetainBody(r)
    BY <1>1, <2>3 DEF RetainBody
  <2>4. CASE Respond(r) \/ ReleaseRequest(r)
    <3>1. /\ resp[r] = "polled" /\ UNCHANGED <<out, stream>>
          /\ resp' = [resp EXCEPT ![r] = "buffered"] \/ resp' = [resp EXCEPT ![r] = "dropped"]
      BY <2>4 DEF Respond, ReleaseRequest
    <3> QED BY <3>1, QuietMove DEF Idle
  <2> QED BY <2>1, <2>2, <2>3, <2>4 DEF DartStep, DartReads, Streams
<1> QED BY <1>2, <1>4, <1>5, <1>6, <1>7, <1>8, <1>9, <1>10, <1>11, <1>12, <1>13, <1>14
     DEF HttpNext, Http1Step

(* The loop never goes back, and an HTTP/1 loop goes on by one, from       *)
(* reading.                                                                *)
LEMMA ServeGrows ==
    ASSUME NetTypes, DartTypes, UplinkSound, HalfSound, Future, Position, [HttpNext]_httpVars
    PROVE  serve.req \in Nat /\ serve'.req \in Nat /\ serve.req <= serve'.req
           /\ (serve'.req # serve.req /\ ~Mux => serve.at = "read" /\ serve'.req = serve.req + 1)
<1>0. serve \in [at : Phases, req : 0..MaxRequests, keep : BOOLEAN] /\ serve.req \in Nat
      /\ serve.req <= serve.req
  BY DEF NetTypes
<1>1. ASSUME serve'.req = serve.req PROVE serve'.req \in Nat /\ serve.req <= serve'.req
  BY <1>0, <1>1
<1>2. CASE ReadHead
  BY <1>0, <1>2, NextRequest, ReadsHead
<1>3. CASE AcceptRequest
  BY <1>0, <1>3, Accepts
<1>4. CASE \/ PeerOpens \/ PeerSendsByte \/ PeerLeaves \/ FillBuf \/ UNCHANGED httpVars \/ PollRequest
           \/ CloseConnection
  BY <1>0, <1>1, <1>4 DEF PeerOpens, PeerSendsByte, PeerLeaves, FillBuf, PollRequest, CloseConnection, httpVars
<1>5. CASE ReadInline \/ StartBody \/ RouteResolved \/ Reclaim \/ AcceptEnds
  <2>1. serve' = serve \/ \E x : serve' = [serve EXCEPT !.at = x]
    BY <1>5 DEF ReadInline, StartBody, RouteResolved, Reclaim, AcceptEnds, ServeEnds
  <2>2. serve'.req = serve.req
    BY <1>0, <2>1
  <2> QED BY <1>0, <1>1, <2>2
<1>6. CASE Answering
  BY <1>0, <1>1, <1>6, AnsweringLeaves, LeavesFacts
<1>7. CASE \E r \in Requests : SendStep(r)
  BY <1>0, <1>1, <1>7, SendLeaves, LeavesFacts
<1>8. CASE \E r \in Requests : Http1BodyStep(r) \/ BodyStep(r)
  <2>1. UNCHANGED serve
    BY <1>8 DEF Http1BodyStep, Http1BodyRead, Http1BodyDone, Http1BodyFails, BodyStep, BodyAbandoned,
       BodyData, BodyEnd, BodyBroken, BodyTimesOut
  <2> QED BY <1>0, <1>1, <2>1
<1>9. CASE \E r \in Requests : DartStep(r)
  <2>1. UNCHANGED serve
    BY <1>9 DEF DartStep, RetainBody, StreamRead, FinishBody, ReleaseBody, Respond, ReleaseRequest,
       OpenResponseStream, WriteChunk, FinishResponseStream, StreamReadWaits, StreamReadStep
  <2> QED BY <1>0, <1>1, <2>1
<1> QED BY <1>0, <1>2, <1>3, <1>4, <1>5, <1>6, <1>7, <1>8, <1>9 DEF HttpNext, Http1Step, Answering

(* The queue of a response stream. *)
LEMMA StreamQueue ==
    ASSUME NEW q \in Seq(Nat), NEW w \in BOOLEAN, NEW m \in Nat, NEW p, StreamOK(q, w, m, p)
    PROVE  /\ w => StreamOK(Append(q, m + 1), TRUE, m + 1, p) /\ StreamOK(Append(q, Finished), FALSE, m, p)
           /\ q # <<>> /\ q[1] # Finished => q[1] = p + 1 /\ StreamOK(Tail(q), w, m, p + 1)
           /\ q # <<>> /\ q[1] = Finished => ~w /\ m = p
<1>1. /\ p \in Nat /\ p <= m /\ Len(q) \in Nat /\ m - p \in Nat
      /\ Len(q) = (m - p) + (IF w THEN 0 ELSE 1)
      /\ \A i \in 1..(m - p) : q[i] = p + i
      /\ ~w => q[(m - p) + 1] = Finished
  <2>1. p \in Nat /\ p <= m /\ Left(q, w, m) = p /\ (\A i \in 1..(m - p) : q[i] = p + i)
        /\ (~w => q[(m - p) + 1] = Finished)
    BY DEF StreamOK
  <2> QED BY <2>1 DEF Left
<1>2. ASSUME w PROVE StreamOK(Append(q, m + 1), TRUE, m + 1, p)
  <2> DEFINE a == Append(q, m + 1)
  <2>1. Len(q) = m - p
    BY <1>1, <1>2
  <2>2. Len(a) = Len(q) + 1 /\ a[Len(q) + 1] = m + 1 /\ \A i \in 1..Len(q) : a[i] = q[i]
    OBVIOUS
  <2> HIDE DEF a
  <2>3. p <= m + 1 /\ Left(a, TRUE, m + 1) = p
    BY <1>1, <2>1, <2>2 DEF Left
  <2>4. ASSUME NEW i \in 1..((m + 1) - p) PROVE a[i] = p + i
    <3>1. i \in 1..(m - p) \/ i = (m - p) + 1
      BY <1>1
    <3>2. i = (m - p) + 1 => p + i = m + 1
      BY <1>1
    <3> QED BY <1>1, <2>1, <2>2, <3>1, <3>2
  <2> QED BY <1>1, <2>3, <2>4 DEF StreamOK, a
<1>3. ASSUME w PROVE StreamOK(Append(q, Finished), FALSE, m, p)
  <2> DEFINE a == Append(q, Finished)
  <2>1. Len(q) = m - p
    BY <1>1, <1>3
  <2>2. Len(a) = Len(q) + 1 /\ a[Len(q) + 1] = Finished /\ \A i \in 1..Len(q) : a[i] = q[i]
    BY DEF Finished
  <2> HIDE DEF a
  <2>3. Left(a, FALSE, m) = p
    BY <1>1, <2>1, <2>2 DEF Left
  <2>4. \A i \in 1..(m - p) : a[i] = p + i
    BY <1>1, <2>1, <2>2
  <2>5. a[m - p + 1] = Finished
    BY <2>1, <2>2
  <2> QED BY <1>1, <2>3, <2>4, <2>5 DEF StreamOK, a
<1>4. ASSUME q # <<>>, q[1] # Finished PROVE q[1] = p + 1 /\ StreamOK(Tail(q), w, m, p + 1)
  <2>1. Len(q) > 0
    BY <1>4
  <2>2. m - p # 0
    BY <1>1, <1>4, <2>1
  <2>3. 1 \in 1..(m - p) /\ p + 1 <= m /\ p + 1 \in Nat
    BY <1>1, <2>2
  <2> DEFINE t == Tail(q)
  <2>4. Len(t) = Len(q) - 1 /\ \A i \in 1..(Len(q) - 1) : t[i] = q[i + 1]
    BY <1>4
  <2> HIDE DEF t
  <2>5. Left(t, w, m) = p + 1
    BY <1>1, <2>4 DEF Left
  <2>6. ASSUME NEW i \in 1..(m - (p + 1)) PROVE t[i] = (p + 1) + i
    <3>1. i + 1 \in 1..(m - p) /\ i \in 1..(Len(q) - 1) /\ p + (i + 1) = (p + 1) + i
      BY <1>1, <2>3
    <3> QED BY <1>1, <2>4, <3>1
  <2>7. ASSUME ~w PROVE t[m - (p + 1) + 1] = Finished
    <3>1. m - (p + 1) + 1 = m - p /\ m - p \in 1..(Len(q) - 1)
      BY <1>1, <2>3, <2>7
    <3> QED BY <1>1, <2>4, <2>7, <3>1
  <2> QED BY <1>1, <2>3, <2>5, <2>6, <2>7 DEF StreamOK, t
<1>5. ASSUME q # <<>>, q[1] = Finished PROVE ~w /\ m = p
  <2>1. Len(q) > 0
    BY <1>5
  <2>2. ASSUME m - p # 0 PROVE FALSE
    <3>1. 1 \in 1..(m - p)
      BY <1>1, <2>2
    <3>2. q[1] = p + 1 /\ p + 1 # 0
      BY <1>1, <3>1
    <3> QED BY <1>5, <3>2 DEF Finished
  <2> QED BY <1>1, <2>1, <2>2
<1> QED BY <1>2, <1>3, <1>4, <1>5

(* A step that leaves a stream and its response alone keeps it sound.      *)
LEMMA StreamKept ==
    ASSUME NEW q \in Requests, StreamAt(q), stream'[q] = stream[q],
           resp'[q] \in {"streaming", "chunks"} <=> resp[q] \in {"streaming", "chunks"},
           resp'[q] = "streaming" => resp[q] = "streaming"
    PROVE  StreamAt(q)' /\ Passed(q)' = Passed(q)
<1>1. Passed(q)' = Passed(q)
  BY DEF Passed, Left
<1>2. StreamOK(stream[q].queue, stream[q].writer, stream[q].made, Passed(q))'
        = StreamOK(stream[q].queue, stream[q].writer, stream[q].made, Passed(q))
  BY <1>1 DEF StreamOK, Left, Finished
<1> QED BY <1>1, <1>2 DEF StreamAt

(* The stream of a response being sent holds the chunks not passed on.     *)
LEMMA StreamIs ==
    ASSUME NEW r \in Requests, NEW p, stream'[r].reading, resp'[r] \in {"streaming", "chunks"},
           StreamOK(stream'[r].queue, stream'[r].writer, stream'[r].made, p),
           resp'[r] = "streaming" => p = 0
    PROVE  StreamAt(r)' /\ Passed(r)' = p
<1>1. Passed(r)' = p
  BY DEF StreamOK, Passed, Left
<1> QED BY <1>1 DEF StreamAt, StreamOK, Left, Finished

(* A step of a response stream keeps the stream and what its lane holds.   *)
LEMMA OutIs ==
    ASSUME DartTypes, UNCHANGED proto, NEW r \in Requests
    PROVE  /\ Lane(r)' = Lane(r) /\ Lane(r) \in Requests /\ out[Lane(r)] \in Lanes
           /\ Answered(out'[Lane(r)], r, resp'[r], Passed(r)', stream'[r].made, stream'[r].writer) => OutAt(r)'
<1>1. Lane(r)' = Lane(r) /\ Lane(r) \in Requests
  BY HttpConstants DEF Lane, Mux
<1>2. out[Lane(r)] \in Lanes
  BY <1>1 DEF DartTypes, Lanes
<1>3. ASSUME NEW o, o = out'[Lane(r)], Answered(o, r, resp'[r], Passed(r)', stream'[r].made, stream'[r].writer)
      PROVE  OutAt(r)'
  <2>1. o = out[Lane(r)]'
    BY <1>1, <1>3
  <2> QED BY <1>3, <2>1 DEF OutAt, Answered, Terminated, Block, BeginsAnswer, Opening, Finished
<1> QED BY <1>1, <1>2, <1>3

(* At most one item is added to r's lane, by the task that sends r's       *)
(* response.                                                               *)
Unsent(r) ==
    \/ out' = out
    \/ /\ Sender(r) /\ resp[r] \in Underway
       /\ \E x \in Requests \X Int : x[1] = r /\ out' = Written(r, x)

(* What Dart does with a response stream puts nothing on the wire.         *)
LEMMA StreamFed ==
    ASSUME DartTypes, UNCHANGED proto, NEW r \in Requests, StreamAt(r), OutAt(r),
           OpenResponseStream(r) \/ WriteChunk(r) \/ FinishResponseStream(r)
    PROVE  /\ StreamAt(r)' /\ OutAt(r)' /\ out' = out /\ resp'[r] \in {resp[r], "streaming"}
           /\ (resp[r] = "sent" => resp'[r] = "sent")
           /\ \A q \in Requests : q # r => stream'[q] = stream[q] /\ resp'[q] = resp[q]
<1>0. /\ stream[r].queue \in Seq(Nat) /\ stream[r].writer \in BOOLEAN /\ stream[r].made \in Nat
      /\ stream \in [Requests -> [queue : Seq(Nat), writer : BOOLEAN, reading : BOOLEAN, made : Nat]]
  BY DEF DartTypes
<1> DEFINE o == out[Lane(r)]
<1>1. Answered(o, r, resp[r], Passed(r), stream[r].made, stream[r].writer)
  BY DEF OutAt
<1>2. CASE OpenResponseStream(r)
  <2>1. /\ stream'[r].queue = <<>> /\ stream'[r].writer = TRUE /\ stream'[r].reading /\ stream'[r].made = 0
        /\ stream' = [stream EXCEPT ![r] = stream'[r]]
        /\ resp[r] = "polled" /\ resp' = [resp EXCEPT ![r] = "streaming"] /\ out' = out
    BY <1>2, Opens DEF DartTypes
  <2>2. resp'[r] = "streaming" /\ \A q \in Requests : q # r => stream'[q] = stream[q] /\ resp'[q] = resp[q]
    BY <1>0, <2>1 DEF DartTypes
  <2>3. StreamOK(<<>>, TRUE, 0, 0)
    <3>1. Left(<<>>, TRUE, 0) = 0
      <4>1. Len(<<>>) = 0
        OBVIOUS
      <4>2. Left(<<>>, TRUE, 0) = 0 - Len(<<>>) + 0
        BY ONLY DEF Left
      <4>3. 0 - 0 + 0 = 0
        OBVIOUS
      <4> QED BY <4>1, <4>2, <4>3
    <3>2. 0 \in Nat /\ 0 <= 0 /\ \A i \in 1..(0 - 0) : FALSE
      OBVIOUS
    <3> QED BY <3>1, <3>2 DEF StreamOK
  <2>4. StreamOK(stream'[r].queue, stream'[r].writer, stream'[r].made, 0)
    BY <2>1, <2>3
  <2>5. StreamAt(r)'
    BY <2>1, <2>2, <2>4, StreamIs
  <2>6. Answered(o, r, resp'[r], Passed(r)', stream'[r].made, stream'[r].writer)
    <3>1. resp[r] \in Before /\ resp'[r] \in Before /\ resp'[r] # "chunks" /\ resp[r] # "sent"
      BY <2>1, <2>2 DEF Before, Idle
    <3> QED BY <1>1, <3>1, AnsweredMoves
  <2> QED BY <2>1, <2>2, <2>5, <2>6, OutIs
<1>3. CASE WriteChunk(r) \/ FinishResponseStream(r)
  <2>1. /\ stream' = [stream EXCEPT ![r] = stream'[r]] /\ resp' = resp /\ out' = out
        /\ stream[r].writer = TRUE /\ stream'[r].reading = stream[r].reading
    BY <1>0, <1>3, WritesChunk, FinishesStream DEF DartTypes
  <2>2. \A q \in Requests : q # r => stream'[q] = stream[q] /\ resp'[q] = resp[q]
    BY <1>0, <2>1
  <2>3. CASE stream[r].reading
    <3>1. StreamOK(stream[r].queue, TRUE, stream[r].made, Passed(r))
      BY <2>1, <2>3 DEF StreamAt
    <3>2. StreamOK(stream'[r].queue, stream'[r].writer, stream'[r].made, Passed(r))
      <4>1. CASE WriteChunk(r)
        <5>1. /\ stream'[r].queue = Append(stream[r].queue, stream[r].made + 1)
              /\ stream'[r].made = stream[r].made + 1 /\ stream'[r].writer
          BY <4>1, WritesChunk
        <5>2. stream'[r].writer = TRUE
          BY <4>1, <5>1, WritesChunk
        <5> QED BY <1>0, <3>1, <5>1, <5>2, StreamQueue
      <4>2. CASE FinishResponseStream(r)
        <5>1. /\ stream'[r].queue = Append(stream[r].queue, Finished)
              /\ stream'[r].made = stream[r].made /\ stream'[r].writer = FALSE
          BY <2>3, <4>2, FinishesStream
        <5> QED BY <1>0, <3>1, <5>1, StreamQueue
      <4> QED BY <1>3, <4>1, <4>2
    <3>3. resp'[r] \in {"streaming", "chunks"} /\ (resp'[r] = "streaming" => Passed(r) = 0)
      BY <2>1, <2>3 DEF StreamAt
    <3>4. StreamAt(r)' /\ Passed(r)' = Passed(r)
      BY <2>1, <2>3, <3>2, <3>3, StreamIs
    <3>5. Answered(o, r, resp'[r], Passed(r)', stream'[r].made, stream'[r].writer)
      BY <1>1, <2>1, <3>3, <3>4, AnsweredMoves
    <3> QED BY <2>1, <2>2, <3>4, <3>5, OutIs
  <2>4. CASE ~stream[r].reading
    <3>1. resp'[r] \notin {"streaming", "chunks"} /\ ~stream'[r].reading
      BY <2>1, <2>4 DEF StreamAt
    <3>2. StreamAt(r)'
      BY <3>1 DEF StreamAt
    <3>3. Answered(o, r, resp'[r], Passed(r)', stream'[r].made, stream'[r].writer)
      BY <1>1, <2>1, <3>1, AnsweredMoves
    <3> QED BY <2>1, <2>2, <3>2, <3>3, OutIs
  <2> QED BY <2>3, <2>4
<1> QED BY <1>2, <1>3

(* What a response task sends of a stream continues the response on the    *)
(* wire.                                                                   *)
LEMMA StreamSent ==
    ASSUME DartTypes, UNCHANGED proto, NEW r \in Requests, StreamAt(r), OutAt(r),
           SendStreamHead(r) \/ SendFrame(r) \/ SendFails(r)
    PROVE  /\ StreamAt(r)' /\ OutAt(r)' /\ Unsent(r) /\ resp[r] # "sent"
           /\ \A q \in Requests : q # r => stream'[q] = stream[q] /\ resp'[q] = resp[q]
<1>0. /\ stream[r].queue \in Seq(Nat) /\ stream[r].writer \in BOOLEAN /\ stream[r].made \in Nat
      /\ stream \in [Requests -> [queue : Seq(Nat), writer : BOOLEAN, reading : BOOLEAN, made : Nat]]
  BY DEF DartTypes
<1> DEFINE o == out[Lane(r)]
<1>1. Answered(o, r, resp[r], Passed(r), stream[r].made, stream[r].writer) /\ o \in Lanes
  BY OutIs DEF OutAt
<1>2. CASE SendStreamHead(r)
  <2>1. /\ Sender(r) /\ resp[r] = "streaming" /\ resp' = [resp EXCEPT ![r] = "chunks"]
        /\ out' = Written(r, Opening(r)) /\ UNCHANGED stream
    BY <1>2 DEF SendStreamHead
  <2>2. resp'[r] = "chunks" /\ \A q \in Requests : q # r => stream'[q] = stream[q] /\ resp'[q] = resp[q]
    BY <2>1 DEF DartTypes
  <2>3. StreamAt(r)' /\ Passed(r)' = 0
    <3>1. StreamAt(r)' /\ Passed(r)' = Passed(r)
      BY <2>1, <2>2, StreamKept
    <3> QED BY <2>1, <3>1 DEF StreamAt
  <2>4. Opening(r) \in Requests \X Int /\ Opening(r)[1] = r
    BY Answers, LaneItems
  <2>5. out'[Lane(r)] = Append(o, Opening(r))
    BY <2>1, <2>4, Writes
  <2>6. Answered(Append(o, Opening(r)), r, "chunks", 0, stream'[r].made, stream'[r].writer)
    <3>1. resp[r] \in Before
      BY <2>1 DEF Before
    <3> HIDE DEF o
    <3> QED BY <1>1, <3>1, AnsweredWhole
  <2>7. OutAt(r)'
    BY <2>2, <2>3, <2>5, <2>6, OutIs
  <2> QED BY <2>1, <2>2, <2>3, <2>4, <2>7 DEF Unsent, Underway
<1>3. CASE SendFrame(r)
  <2> DEFINE f == Head(stream[r].queue)
  <2>1. /\ Sender(r) /\ resp[r] = "chunks" /\ f \in Nat /\ f = stream[r].queue[1]
        /\ out' = Written(r, <<r, f>>) /\ stream[r].queue # <<>>
    BY <1>3, SendsFrame DEF SendFrame
  <2>2. <<r, f>> \in Requests \X Int /\ <<r, f>>[1] = r
    BY <2>1, Answers
  <2>3. Unsent(r)
    BY <2>1, <2>2 DEF Unsent, Underway
  <2>4. out'[Lane(r)] = Append(o, <<r, f>>)
    BY <2>1, <2>2, Writes
  <2>5. StreamOK(stream[r].queue, stream[r].writer, stream[r].made, Passed(r))
    BY <2>1 DEF StreamAt
  <2>6. /\ f # Finished => f = Passed(r) + 1
                           /\ StreamOK(Tail(stream[r].queue), stream[r].writer, stream[r].made, Passed(r) + 1)
        /\ f = Finished => ~stream[r].writer /\ stream[r].made = Passed(r)
    <3> DEFINE q == stream[r].queue
               w == stream[r].writer
               m == stream[r].made
               p == Passed(r)
    <3>1. q \in Seq(Nat) /\ w \in BOOLEAN /\ m \in Nat /\ StreamOK(q, w, m, p) /\ q # <<>> /\ f = q[1]
      BY <1>0, <2>1, <2>5
    <3> HIDE DEF q, w, m, p, f
    <3>2. /\ f # Finished => f = p + 1 /\ StreamOK(Tail(q), w, m, p + 1)
          /\ f = Finished => ~w /\ m = p
      BY <3>1, StreamQueue
    <3> QED BY <3>2 DEF q, w, m, p
  <2>7. CASE f = Finished
    <3>1. resp' = [resp EXCEPT ![r] = "sent"] /\ StreamEnds(r)
      BY <1>3, <2>7, SendsFrame
    <3>2. resp'[r] = "sent" /\ \A q \in Requests : q # r => stream'[q] = stream[q] /\ resp'[q] = resp[q]
      BY <3>1, StreamEnded DEF DartTypes
    <3>3. ~stream'[r].reading /\ stream'[r].made = stream[r].made /\ stream'[r].writer = stream[r].writer
      BY <3>1, StreamEnded
    <3>4. StreamAt(r)'
      BY <3>2, <3>3 DEF StreamAt
    <3>5. Answered(Append(o, <<r, Finished>>), r, "sent", Passed(r)', stream[r].made, stream[r].writer)
      <4>1. Answered(o, r, "chunks", stream[r].made, stream[r].made, stream[r].writer)
        BY <1>1, <2>1, <2>6, <2>7
      <4> HIDE DEF o
      <4> QED BY <1>0, <1>1, <2>6, <2>7, <4>1, AnsweredEnd
    <3>6. OutAt(r)'
      BY <2>4, <2>7, <3>2, <3>3, <3>5, OutIs
    <3> QED BY <2>1, <2>3, <3>2, <3>4, <3>6
  <2>8. CASE f # Finished
    <3>1. /\ UNCHANGED resp /\ stream' = [stream EXCEPT ![r] = stream'[r]]
          /\ stream'[r].queue = Tail(stream[r].queue) /\ stream'[r].made = stream[r].made
          /\ stream'[r].writer = stream[r].writer /\ stream'[r].reading = stream[r].reading
      BY <1>3, <2>8, SendsFrame
    <3>2. \A q \in Requests : q # r => stream'[q] = stream[q] /\ resp'[q] = resp[q]
      BY <1>0, <3>1
    <3>3. stream'[r].reading /\ resp'[r] = "chunks"
      BY <2>1, <3>1 DEF StreamAt
    <3>4. StreamOK(stream'[r].queue, stream'[r].writer, stream'[r].made, Passed(r) + 1)
      BY <2>6, <2>8, <3>1
    <3>5. StreamAt(r)' /\ Passed(r)' = Passed(r) + 1
      BY <3>3, <3>4, StreamIs
    <3>6. Answered(Append(o, <<r, f>>), r, "chunks", Passed(r) + 1, stream'[r].made, stream'[r].writer)
      <4>1. Answered(o, r, "chunks", Passed(r), stream[r].made, stream[r].writer) /\ Passed(r) \in Nat
        BY <1>1, <2>1, <2>5 DEF StreamOK
      <4>2. f = Passed(r) + 1
        BY <2>6, <2>8
      <4> HIDE DEF o, f
      <4> QED BY <1>1, <4>1, <4>2, AnsweredChunk
    <3>7. OutAt(r)'
      BY <2>4, <3>3, <3>5, <3>6, OutIs
    <3> QED BY <2>1, <2>3, <3>2, <3>5, <3>7
  <2> QED BY <2>7, <2>8
<1>4. CASE SendFails(r)
  <2>1. /\ resp[r] \in {"buffered", "streaming", "chunks"} /\ resp' = [resp EXCEPT ![r] = "failed"]
        /\ StreamEnds(r) /\ out' = out
    BY <1>4 DEF SendFails, StreamEnds
  <2>2. resp'[r] = "failed" /\ \A q \in Requests : q # r => stream'[q] = stream[q] /\ resp'[q] = resp[q]
    BY <2>1, StreamEnded DEF DartTypes
  <2>3. ~stream'[r].reading
    BY <2>1, StreamEnded
  <2>4. StreamAt(r)'
    BY <2>2, <2>3 DEF StreamAt
  <2>5. Answered(o, r, resp'[r], Passed(r)', stream'[r].made, stream'[r].writer)
    <3>1. resp[r] \in Before \/ resp[r] = "chunks"
      BY <2>1 DEF Before, Idle
    <3>2. resp[r] # "sent" /\ resp'[r] # "chunks"
      BY <2>1, <2>2
    <3> QED BY <1>1, <2>2, <3>1, <3>2, AnsweredMoves
  <2>6. OutAt(r)'
    BY <2>1, <2>5, OutIs
  <2> QED BY <2>1, <2>2, <2>4, <2>6 DEF Unsent
<1> QED BY <1>2, <1>3, <1>4

(* What a lane holds of a request that another one's write leaves alone.   *)
LEMMA OutKept ==
    ASSUME DartTypes, UNCHANGED proto, NEW q \in Requests, OutAt(q), stream'[q] = stream[q], resp'[q] = resp[q],
           \/ out' = out
           \/ \E r \in Requests : \E x \in Requests \X Int :
                /\ r # q /\ x[1] = r /\ out' = Written(r, x) /\ (Mux \/ resp[q] # "chunks")
    PROVE  OutAt(q)'
<1> DEFINE o == out[Lane(q)]
<1>0. Answered(o, q, resp[q], Passed(q), stream[q].made, stream[q].writer) /\ o \in Lanes /\ stream[q].made \in Nat
  BY OutIs DEF OutAt, DartTypes
<1>1. Passed(q)' = Passed(q)
  BY DEF Passed, Left
<1>2. CASE out'[Lane(q)] = o
  BY <1>0, <1>1, <1>2, OutIs
<1>3. CASE out'[Lane(q)] # o
  <2>1. PICK r \in Requests, x \in Requests \X Int :
           r # q /\ x[1] = r /\ out' = Written(r, x) /\ (Mux \/ resp[q] # "chunks")
    BY <1>3
  <2>2. Lane(q) = Lane(r)
    BY <1>3, <2>1, Writes, OutIs
  <2>3. ~Mux
    BY <2>1, <2>2 DEF Lane
  <2>4. out'[Lane(q)] = Append(o, x)
    <3>1. out'[Lane(r)] = Append(out[Lane(r)], x)
      BY <2>1, Writes
    <3> QED BY <2>2, <3>1
  <2>5. Answered(Append(o, x), q, resp[q], Passed(q), stream[q].made, stream[q].writer)
    <3> HIDE DEF o
    <3> QED BY <1>0, <2>1, <2>3, AnsweredOther
  <2> QED BY <1>1, <2>4, <2>5, OutIs
<1> QED BY <1>2, <1>3

(* The lanes, when one is written to. *)
LanesOrdered ==
    /\ \A l \in Requests : InLane(out[l])
    /\ \A l \in Requests : \A i \in DOMAIN out[l] :
         IF Mux THEN out[l][i][1] = l ELSE l = 1 /\ out[l][i][1] <= serve.req

(* An item written for the request served keeps the lanes in order.        *)
LEMMA OrderGrows ==
    ASSUME DartTypes, NetTypes, OutSound, Past, UNCHANGED proto, serve.req <= serve'.req, serve'.req \in Nat,
           NEW r \in Requests, NEW x \in Requests \X Int, x[1] = r, out' = Written(r, x), ~Mux => r = serve.req
    PROVE  LanesOrdered'
<1> DEFINE o == out[Lane(r)]
           a == Append(o, x)
<1>0. o \in Lanes /\ Lane(r) \in Requests /\ Mux' = Mux /\ serve.req \in Nat /\ r \in Nat
  BY OutIs, HttpConstants DEF Mux, NetTypes
<1>1. out'[Lane(r)] = a /\ \A l \in Requests : l # Lane(r) => out'[l] = out[l]
  BY Writes
<1>2. \A i \in DOMAIN o : /\ o[i] \in Requests \X Int /\ o[i][1] \in Requests
                          /\ IF Mux THEN o[i][1] = r ELSE Lane(r) = 1 /\ o[i][1] <= r
  <2>1. \A i \in DOMAIN o : o[i] \in Requests \X Int
    BY <1>0 DEF Lanes
  <2>2. \A i \in DOMAIN o : IF Mux THEN o[i][1] = Lane(r) ELSE Lane(r) = 1 /\ o[i][1] <= serve.req
    BY <1>0 DEF OutSound
  <2> QED BY <2>1, <2>2 DEF Lane
<1>3. \A i \in DOMAIN o : o[i][1] <= x[1]
  BY <1>0, <1>2
<1>4. ASSUME NEW i \in DOMAIN o, o[i] = Opening(o[i][1]), o[i][1] < x[1]
      PROVE  \E k \in DOMAIN o : i < k /\ o[k] = <<o[i][1], Finished>>
  <2> DEFINE q == o[i][1]
  <2>1. ~Mux /\ q \in Requests /\ q < serve.req
    BY <1>0, <1>2, <1>4
  <2>2. resp[q] = "sent" /\ Lane(q) = Lane(r)
    BY <2>1 DEF Past, Lane
  <2>3. Answered(o, q, "sent", Passed(q), stream[q].made, stream[q].writer)
    <3> HIDE DEF q
    <3> QED BY <2>1, <2>2 DEF OutSound, OutAt
  <2>4. \A j \in DOMAIN o : o[j] = Opening(q) => \E k \in DOMAIN o : j < k /\ o[k] = <<q, Finished>>
    <3> HIDE DEF q, o
    <3> QED BY <2>3 DEF Answered
  <2> QED BY <1>4, <2>4
<1>5. InLane(a)
  <2>1. InLane(o)
    BY <1>0 DEF OutSound
  <2> HIDE DEF o
  <2> QED BY <1>0, <1>3, <1>4, <2>1, LaneGrows
<1>6. \A i \in DOMAIN a : IF Mux THEN a[i][1] = r ELSE Lane(r) = 1 /\ a[i][1] <= r
  <2>1. \A i \in DOMAIN a : (i \in DOMAIN o /\ a[i] = o[i]) \/ a[i] = x
    <3> HIDE DEF o
    <3> QED BY <1>0, Appended
  <2>2. IF Mux THEN x[1] = r ELSE Lane(r) = 1 /\ x[1] <= r
    BY <1>0 DEF Lane
  <2> HIDE DEF a
  <2> QED BY <1>2, <2>1, <2>2
<1>7. ASSUME NEW l \in Requests
      PROVE  /\ InLane(out'[l])
             /\ \A i \in DOMAIN out'[l] : IF Mux THEN out'[l][i][1] = l ELSE l = 1 /\ out'[l][i][1] <= serve'.req
  <2>1. CASE l = Lane(r)
    <3>1. out'[l] = a
      BY <1>1, <2>1
    <3>2. Mux => l = r
      BY <2>1 DEF Lane
    <3>3. ASSUME NEW i \in DOMAIN a, ~Mux PROVE l = 1 /\ a[i][1] <= serve'.req
      <4>1. a[i] \in Requests \X Int
        <5>1. a \in Lanes
          <6> HIDE DEF o
          <6> QED BY <1>0, Appended
        <5> HIDE DEF a
        <5> QED BY <5>1 DEF Lanes
      <4>2. a[i][1] \in Nat /\ a[i][1] <= r
        BY <1>6, <3>3, <4>1, HttpConstants
      <4> HIDE DEF a
      <4> QED BY <1>0, <2>1, <3>3, <4>2 DEF Lane
    <3> HIDE DEF a
    <3> QED BY <1>5, <1>6, <3>1, <3>2, <3>3
  <2>2. CASE l # Lane(r)
    <3>1. out'[l] = out[l] /\ InLane(out[l])
      BY <1>1, <2>2 DEF OutSound
    <3>2. \A i \in DOMAIN out[l] : IF Mux THEN out[l][i][1] = l ELSE l = 1 /\ out[l][i][1] <= serve.req
      BY DEF OutSound
    <3>3. ~Mux => l # 1
      BY <2>2 DEF Lane
    <3> QED BY <3>1, <3>2, <3>3
  <2> QED BY <2>1, <2>2
<1>8. \A l \in Requests : InLane(out[l])'
  BY <1>7 DEF InLane, Opening, Finished
<1> QED BY <1>0, <1>7, <1>8 DEF LanesOrdered

(* So does a step that writes nothing.                                     *)
LEMMA OrderKept ==
    ASSUME DartTypes, NetTypes, OutSound, UNCHANGED <<proto, out>>, serve.req <= serve'.req, serve'.req \in Nat
    PROVE  LanesOrdered'
<1>1. \A l \in Requests : InLane(out[l])'
  BY DEF OutSound, InLane, Opening, Finished
<1>2. ASSUME NEW l \in Requests, NEW i \in DOMAIN out[l], ~Mux
      PROVE  l = 1 /\ out[l][i][1] <= serve'.req
  <2>1. l = 1 /\ out[l][i][1] <= serve.req
    BY <1>2 DEF OutSound
  <2>2. out[l][i] \in Requests \X Int /\ serve.req \in Nat
    BY DEF DartTypes, NetTypes
  <2>3. out[l][i][1] \in Nat
    BY <2>2, HttpConstants
  <2> QED BY <2>1, <2>2, <2>3
<1>3. \A l \in Requests : \A i \in DOMAIN out[l] : Mux => out[l][i][1] = l
  BY DEF OutSound
<1> QED BY <1>1, <1>2, <1>3 DEF LanesOrdered, Mux

(* Every step keeps Past, StreamSound and OutSound.                        *)
LEMMA OutHolds ==
    ASSUME HttpInv, Past, StreamSound, OutSound, [HttpNext]_httpVars
    PROVE  Past' /\ StreamSound' /\ OutSound'
<1>0. /\ NetTypes /\ DartTypes /\ UplinkSound /\ Future /\ HalfSound /\ Awaited /\ Queued /\ RespSound /\ Position
      /\ UNCHANGED proto /\ Mux' = Mux
  BY ProtoKept DEF HttpInv
<1>1. /\ serve.req \in Nat /\ serve'.req \in Nat /\ serve.req <= serve'.req
      /\ (serve'.req # serve.req /\ ~Mux => serve.at = "read" /\ serve'.req = serve.req + 1)
  BY <1>0, ServeGrows
<1>2. Quiet \/ \E r \in Requests : Says(r) \/ Streams(r)
  BY <1>0, LaneSteps
<1>3. ASSUME NEW q \in Requests PROVE StreamAt(q) /\ OutAt(q) /\ resp[q] \in Underway \cup {"none", "sent", "failed"}
  BY <1>0 DEF StreamSound, OutSound, DartTypes
<1>4. ASSUME \A q \in Requests : resp[q] = "sent" => resp'[q] = "sent" PROVE Past'
  <2> SUFFICES ASSUME ~Mux, NEW q \in Requests, q < serve'.req PROVE resp'[q] = "sent"
    BY <1>0 DEF Past
  <2>1. q \in Nat /\ q > 0
    BY Positive
  <2>2. q < serve.req \/ (q = serve.req /\ serve.at = "read" /\ serve.req > 0)
    BY <1>1, <2>1
  <2>3. resp[q] = "sent"
    BY <2>2 DEF Past, RespSound, HttpInv
  <2> QED BY <1>4, <2>3
<1>5. CASE Quiet
  <2>1. UNCHANGED <<out, stream>>
    BY <1>5 DEF Quiet
  <2>2. ASSUME NEW q \in Requests
        PROVE  StreamAt(q)' /\ OutAt(q)' /\ (resp[q] = "sent" => resp'[q] = "sent")
    <3>1. resp'[q] = resp[q] \/ (resp[q] \in Idle /\ resp'[q] \in Idle \cup {"failed"})
      BY <1>5 DEF Quiet
    <3>2. StreamAt(q)' /\ Passed(q)' = Passed(q)
      BY <1>3, <2>1, <3>1, StreamKept DEF Idle
    <3>3. Answered(out[Lane(q)], q, resp[q], Passed(q), stream[q].made, stream[q].writer)
      BY <1>3 DEF OutAt
    <3>4. Answered(out[Lane(q)], q, resp'[q], Passed(q)', stream'[q].made, stream'[q].writer)
      BY <2>1, <3>1, <3>2, <3>3, AnsweredMoves DEF Before
    <3> QED BY <1>0, <2>1, <3>1, <3>2, <3>4, OutIs DEF Idle
  <2>3. LanesOrdered'
    BY <1>0, <1>1, <2>1, OrderKept
  <2> QED BY <1>4, <2>2, <2>3 DEF StreamSound, OutSound, LanesOrdered
<1>6. ASSUME NEW r \in Requests, Says(r) PROVE Past' /\ StreamSound' /\ OutSound'
  <2>1. /\ out' = Written(r, Whole(r)) /\ UNCHANGED stream /\ resp' = [resp EXCEPT ![r] = "sent"]
        /\ resp[r] \in Idle /\ (~Mux => r = serve.req)
    BY <1>6 DEF Says
  <2>2. resp'[r] = "sent" /\ \A q \in Requests : q # r => resp'[q] = resp[q]
    BY <1>0, <2>1 DEF DartTypes
  <2>3. Whole(r) \in Requests \X Int /\ Whole(r)[1] = r
    BY Answers, LaneItems
  <2>4. LanesOrdered'
    BY <1>0, <1>1, <2>1, <2>3, OrderGrows
  <2>5. \A q \in Requests : StreamAt(q)'
    BY <1>3, <2>1, <2>2, StreamKept DEF Idle
  <2>6. ASSUME NEW q \in Requests, q # r PROVE OutAt(q)'
    <3>1. Mux \/ resp[q] # "chunks"
      BY <1>0, <2>1, <2>6 DEF RespSound, Underway
    <3> QED BY <1>0, <1>3, <2>1, <2>2, <2>3, <2>6, <3>1, OutKept
  <2>7. OutAt(r)'
    <3> DEFINE o == out[Lane(r)]
    <3>1. Answered(o, r, resp[r], Passed(r), stream[r].made, stream[r].writer) /\ o \in Lanes
          /\ resp[r] \in Before
      BY <1>0, <1>3, <2>1, OutIs DEF OutAt, Before
    <3>2. out'[Lane(r)] = Append(o, Whole(r))
      BY <1>0, <2>1, <2>3, Writes
    <3> HIDE DEF o
    <3>3. Answered(Append(o, Whole(r)), r, "sent", Passed(r)', stream'[r].made, stream'[r].writer)
      BY <3>1, AnsweredWhole
    <3> QED BY <1>0, <2>2, <3>2, <3>3, OutIs
  <2>8. \A q \in Requests : resp[q] = "sent" => resp'[q] = "sent"
    BY <2>2
  <2> QED BY <1>4, <2>4, <2>5, <2>6, <2>7, <2>8 DEF StreamSound, OutSound, LanesOrdered
<1>7. ASSUME NEW r \in Requests, Streams(r) PROVE Past' /\ StreamSound' /\ OutSound'
  <2>1. /\ StreamAt(r)' /\ OutAt(r)' /\ Unsent(r) /\ (resp[r] = "sent" => resp'[r] = "sent")
        /\ \A q \in Requests : q # r => stream'[q] = stream[q] /\ resp'[q] = resp[q]
    <3>1. CASE OpenResponseStream(r) \/ WriteChunk(r) \/ FinishResponseStream(r)
      BY <1>0, <1>3, <3>1, StreamFed DEF Unsent
    <3>2. CASE SendStreamHead(r) \/ SendFrame(r) \/ SendFails(r)
      BY <1>0, <1>3, <3>2, StreamSent
    <3> QED BY <1>7, <3>1, <3>2 DEF Streams
  <2>2. \A q \in Requests : q # r => StreamAt(q)'
    BY <1>3, <2>1, StreamKept
  <2>3. ~Mux /\ out' # out => r = serve.req
    BY <2>1 DEF Unsent, Sender
  <2>4. \A q \in Requests : q # r /\ out' # out => Mux \/ resp[q] # "chunks"
    BY <1>0, <2>3 DEF RespSound, Underway
  <2>5. LanesOrdered'
    BY <1>0, <1>1, <2>1, <2>3, OrderKept, OrderGrows DEF Unsent
  <2>6. \A q \in Requests : q # r => OutAt(q)'
    BY <1>0, <1>3, <2>1, <2>4, OutKept DEF Unsent
  <2> QED BY <1>4, <2>1, <2>2, <2>5, <2>6 DEF StreamSound, OutSound, LanesOrdered
<1> QED BY <1>2, <1>5, <1>6, <1>7

(* They hold initially.                                                    *)
LEMMA OutInit == HttpInit => Past /\ StreamSound /\ OutSound
<1> SUFFICES ASSUME HttpInit PROVE Past /\ StreamSound /\ OutSound
  OBVIOUS
<1>1. /\ \A r \in Requests : stream[r] = NewStream /\ resp[r] = "none" /\ out[r] = <<>>
      /\ serve.req = 0 /\ ~NewStream.reading
  BY DEF HttpInit, NewStream
<1>2. Past
  BY <1>1, Positive DEF Past
<1>3. StreamSound
  BY <1>1 DEF StreamSound, StreamAt
<1>4. \A r \in Requests : Lane(r) \in Requests
  BY HttpConstants DEF Lane
<1>5. \A r \in Requests : out[Lane(r)] = <<>>
  BY <1>1, <1>4
<1>6. DOMAIN <<>> = {}
  OBVIOUS
<1>7. \A r \in Requests : OutAt(r)
  BY <1>1, <1>5, <1>6 DEF OutAt, Answered
<1>8. \A l \in Requests : InLane(out[l])
  BY <1>1, <1>6 DEF InLane
<1> QED BY <1>1, <1>2, <1>3, <1>6, <1>7, <1>8 DEF OutSound

(* They contain AnswersWhole.                                              *)
LEMMA OutWhole == DartTypes /\ OutSound => AnswersWhole
<1> SUFFICES ASSUME DartTypes, OutSound PROVE AnswersWhole
  OBVIOUS
<1>1. ASSUME NEW l \in Requests, NEW i \in DOMAIN out[l]
      PROVE  /\ out[l][i] \in Requests \X Int /\ out[l][i][1] \in Requests /\ Lane(out[l][i][1]) = l
             /\ OutAt(out[l][i][1])
  <2>1. out[l][i] \in Requests \X Int
    BY DEF DartTypes
  <2>2. IF Mux THEN out[l][i][1] = l ELSE l = 1
    BY DEF OutSound
  <2> QED BY <2>1, <2>2 DEF Lane, OutSound
<1>2. AnswersInOrder
  <2> SUFFICES ASSUME NEW l \in Requests, NEW i \in DOMAIN out[l], NEW j \in DOMAIN out[l]
               PROVE  LET a == out[l][i]
                          b == out[l][j]
                      IN  /\ i < j => a[1] <= b[1]
                          /\ BeginsAnswer(a) /\ BeginsAnswer(b) /\ a[1] = b[1] => i = j
                          /\ a = Opening(a[1]) /\ b[1] > a[1] => \E k \in i..j : out[l][k] = <<a[1], Finished>>
    BY DEF AnswersInOrder
  <2> DEFINE a == out[l][i]
             b == out[l][j]
  <2>1. InLane(out[l]) /\ i \in Nat /\ j \in Nat
    <3>1. out[l] \in Seq(Requests \X Int)
      BY DEF DartTypes
    <3>2. \A k \in DOMAIN out[l] : k \in Nat
      BY <3>1
    <3> QED BY <3>2 DEF OutSound
  <2>2. i < j => a[1] <= b[1]
    BY <2>1 DEF InLane
  <2>3. BeginsAnswer(a) /\ BeginsAnswer(b) /\ a[1] = b[1] => i = j
    <3> DEFINE r == a[1]
    <3>1. r \in Requests /\ Lane(r) = l /\ OutAt(r)
      BY <1>1
    <3> HIDE DEF r
    <3>2. \A m, n \in DOMAIN out[l] :
            out[l][m][1] = r /\ out[l][n][1] = r /\ BeginsAnswer(out[l][m]) /\ BeginsAnswer(out[l][n]) => m = n
      BY <3>1 DEF OutAt, Answered
    <3> QED BY <3>2 DEF r
  <2>4. a = Opening(a[1]) /\ b[1] > a[1] => \E k \in i..j : out[l][k] = <<a[1], Finished>>
    <3>1. ASSUME b[1] > a[1] PROVE i < j
      <4>1. a[1] \in Nat /\ b[1] \in Nat
        BY <1>1, HttpConstants
      <4>2. i # j
        BY <3>1, <4>1
      <4>3. ~(j < i)
        <5>1. j < i => b[1] <= a[1]
          BY <2>1 DEF InLane
        <5> QED BY <3>1, <4>1, <5>1
      <4> QED BY <2>1, <4>2, <4>3
    <3> QED BY <2>1, <3>1 DEF InLane
  <2> QED BY <2>2, <2>3, <2>4
<1>3. TerminatedWhole
  <2>1. ASSUME NEW r \in Requests, NEW k \in DOMAIN out[Lane(r)], out[Lane(r)][k] = <<r, Finished>>
        PROVE  Terminated(out[Lane(r)], r, k, stream[r].made)
    BY <2>1 DEF OutSound, OutAt, Answered
  <2> QED BY <2>1 DEF TerminatedWhole, Terminated
<1> QED BY <1>2, <1>3 DEF AnswersWhole

(* On the wire the responses of a connection are in order, none is begun   *)
(* twice or cut into, and a streamed one that is ended holds every chunk   *)
(* Dart wrote: AnswersWhole for every value of the constants.              *)
THEOREM AnswersStayWhole == HttpSpec => []AnswersWhole
<1> DEFINE Inv == HttpInv /\ Past /\ StreamSound /\ OutSound
<1>1. HttpInit => Inv
  BY HttpInvInit, OutInit
<1>2. Inv /\ [HttpNext]_httpVars => Inv'
  BY HttpInvNext, OutHolds
<1>3. Inv => AnswersWhole
  BY OutWhole DEF HttpInv
<1> QED BY <1>1, <1>2, <1>3, PTL DEF HttpSpec

=============================================================================
