------------------------------- MODULE Messages -------------------------------
(***************************************************************************)
(* What the native side keeps of the messages it has parsed, between the   *)
(* connections and the Dart isolates (ct_ffi: message_handles.rs, and the  *)
(* message functions of ffi.rs).                                           *)
(*                                                                         *)
(* A poll parses a frame and stores it as one reference-counted allocation *)
(* under a fresh handle.  Isolates run on threads of their own: each may   *)
(* retain or release a handle, export a view of the bytes, borrow the      *)
(* message for the length of a call, forward it to another connection with *)
(* the payload's bytes shared and not decoded, or consume it by decrypting *)
(* its payload, in the receive buffer itself where nobody else can see it. *)
(***************************************************************************)
EXTENDS WampCodec

CONSTANTS
    Workers,       \* the threads that call in
    Inputs,        \* the frames that may arrive: [serializer, segmented, wire]
    Raced,         \* bound: the inputs whose calls are interleaved with others
    MaxMessages,   \* bound on the messages polled
    MaxHandles,    \* bound on the handles issued
    MaxViews,      \* bound on the exported views alive at once
    MaxQueue       \* capacity of the destination's send queue

ASSUME MessagesAssumption ==
    /\ IsFiniteSet(Workers)
    /\ MaxMessages \in Nat /\ MaxHandles \in Nat /\ MaxViews \in Nat /\ MaxQueue \in Nat

VARIABLES
    received,      \* the frame that was just polled, if one was
    messages,      \* the frames polled so far; the parsed ones are allocations
    handles,       \* live handle -> allocation
    nextHandle,    \* the next handle to issue
    views,         \* view -> allocation, of the exported views not yet freed
    worker,        \* what each thread is doing
    queue,         \* frames forwarded and not yet flushed to their connection
    overwritten    \* allocations whose receive buffer was decrypted in place

messageVars == <<received, messages, handles, nextHandle, views, worker, queue, overwritten>>

Idle == [at |-> "idle"]
NoInput == [serializer |-> "none", segmented |-> FALSE, wire |-> Message(0, <<>>)]

MessagesInit ==
    /\ received = NoInput
    /\ messages = <<>>
    /\ handles = <<>>
    /\ nextHandle = 1
    /\ views = <<>>
    /\ worker = [w \in Workers |-> Idle]
    /\ queue = <<>>
    /\ overwritten = {}

------------------------------------------------------------------------------
(* Polling, and the handles.                                               *)

(* JSON and FlatBuffers flatten a segmented frame before they parse it.    *)
Contiguous(m) == ~m.segmented \/ m.serializer \in {"json", "flatbuffers"}

(* A table with one entry more. *)
With(table, key, a) == [k \in DOMAIN table \cup {key} |-> IF k = key THEN a ELSE table[k]]

(* WideMessageStore::insert: handles are never issued twice.               *)
InsertHandle(a) ==
    /\ nextHandle <= MaxHandles
    /\ handles' = With(handles, nextHandle, a)
    /\ nextHandle' = nextHandle + 1

(* ct_poll_connection_message.  A frame that does not parse is dropped     *)
(* with an error.                                                          *)
Poll(input) ==
    LET m == Parse(input.serializer, input.wire, input.segmented)
    IN  /\ Len(messages) < MaxMessages
        /\ received' = input
        /\ messages' = Append(messages, [serializer |-> input.serializer,
                                         segmented |-> input.segmented,
                                         raced |-> input \in Raced,
                                         message |-> m])
        /\ IF m = Bad THEN UNCHANGED <<handles, nextHandle>> ELSE InsertHandle(Len(messages'))
        /\ UNCHANGED <<views, worker, queue, overwritten>>

(* A bound on the interleavings: the other inputs see one call at a time.  *)
MayBegin(a) == messages[a].raced \/ (queue = <<>> /\ \A w \in Workers : worker[w] = Idle)

(* ct_message_retain: another handle to the same allocation (of an input   *)
(* that is raced, as with views below).                                    *)
Retain(h) ==
    /\ messages[handles[h]].raced
    /\ InsertHandle(handles[h])
    /\ UNCHANGED <<messages, views, worker, queue, overwritten>>

(* ct_message_release.                                                     *)
RemoveHandle(h) == handles' = [g \in DOMAIN handles \ {h} |-> handles[g]]

Release(h) ==
    /\ RemoveHandle(h)
    /\ UNCHANGED <<messages, nextHandle, views, worker, queue, overwritten>>

(* clear: a restart of the runtime forgets the handles and keeps counting. *)
Clear ==
    /\ handles # <<>>
    /\ handles' = <<>>
    /\ UNCHANGED <<messages, nextHandle, views, worker, queue, overwritten>>

(* ct_message_buffer_export and ct_message_buffer_free.                    *)
Export(h) ==
    \E v \in (1 .. MaxViews) \ DOMAIN views :
        /\ messages[handles[h]].raced
        /\ views' = With(views, v, handles[h])
        /\ UNCHANGED <<messages, handles, nextHandle, worker, queue, overwritten>>

FreeView(v) ==
    /\ views' = [u \in DOMAIN views \ {v} |-> views[u]]
    /\ UNCHANGED <<messages, handles, nextHandle, worker, queue, overwritten>>

------------------------------------------------------------------------------
(* Which messages may be forwarded with their bytes shared, and as what.   *)

PptKeys == {"ppt_scheme", "ppt_serializer", "ppt_cipher", "ppt_keyid"}
Binary == {"cbor", "msgpack", "flatbuffers"}
OneBinary == Val("list", "onebin")
Body == Val("bin", "body")
NoPayload == [args |-> Absent, kwargs |-> Absent, transparent |-> Absent]

OptionsOf(m) == m.message.f[DictionaryOf(m.message.code)].d
PayloadOf(m) == [p \in DOMAIN NoPayload |-> m.message.f[p]]

(* binary_ppt_body: an opaque body that the three binary serializers can   *)
(* each carry in their own wrapping.                                       *)
EmptyKeywords(m) ==
    \/ m.message.f.kwargs = Absent
    \/ m.serializer \in {"cbor", "msgpack"} /\ m.message.f.kwargs.x = "empty"

HasPptBody(m) ==
    LET d == OptionsOf(m)
    IN  /\ m.serializer \in Binary
        /\ EmptyKeywords(m)
        /\ "ppt_scheme" \in DOMAIN d /\ d["ppt_scheme"] \in Texts \ {"blank"}
        /\ \A k \in (PptKeys \ {"ppt_scheme"}) \cap DOMAIN d : d[k] \in Texts
        /\ IF m.message.f.transparent # Absent
           THEN m.serializer = "flatbuffers" /\ m.message.f.args = Absent
           ELSE m.message.f.args = OneBinary

(* reusable_forwarding_serializer: may the payload's bytes be used as they *)
(* are on a connection that speaks target?                                 *)
Reusable(m, target) ==
    \/ m.serializer = target
    \/ /\ m.message.code \in {8, 16, 48, 70}
       /\ \/ target \in Binary /\ HasPptBody(m)
          \/ /\ {m.serializer, target} = {"cbor", "flatbuffers"}
             /\ m.message.f.transparent = Absent
             /\ "ppt_scheme" \notin DOMAIN OptionsOf(m)
             /\ target = "flatbuffers" =>
                  ValidPayload(m.message.f.args, m.message.f.kwargs, Absent)

(* forwarding_payload.                                                     *)
ForwardingPayload(m, target) ==
    IF m.serializer # target /\ HasPptBody(m)
    THEN [NoPayload EXCEPT !.transparent = Body]
    ELSE PayloadOf(m)

(* insert_ppt_details_from_options: the PPT options are copied, and a PPT  *)
(* option that is no text fails the message.                               *)
PptFails(d) == \E k \in PptKeys \cap DOMAIN d : d[k] \notin Texts
PptOf(d) == [k \in PptKeys \cap DOMAIN d |-> d[k]]

------------------------------------------------------------------------------
(* The frames that are built around a forwarded payload.                   *)

AppendPayloadBare(p) ==
    IF p.transparent # Absent THEN <<OneBinary>>
    ELSE (IF p.args # Absent THEN <<p.args>> ELSE <<>>)
         \o (IF p.kwargs # Absent THEN <<p.kwargs>> ELSE <<>>)

(* append_forwarded_binary_payload: an opaque body is wrapped as the only  *)
(* argument; keywords alone get an empty list before them.                 *)
AppendPayload(p) ==
    IF p.transparent # Absent THEN <<OneBinary>>
    ELSE (IF p.args # Absent THEN <<p.args>>
          ELSE IF p.kwargs # Absent THEN <<EmptyList>> ELSE <<>>)
         \o (IF p.kwargs # Absent THEN <<p.kwargs>> ELSE <<>>)

(* The JSON builders do not know of opaque bodies, which JSON never has.   *)
AppendJsonPayload(p) ==
    (IF p.args # Absent THEN <<p.args>>
     ELSE IF p.kwargs # Absent THEN <<EmptyList>> ELSE <<>>)
    \o (IF p.kwargs # Absent THEN <<p.kwargs>> ELSE <<>>)

PayloadFields(target, p) == IF target = "json" THEN AppendJsonPayload(p) ELSE AppendPayload(p)

Failed == Message(0, <<>>)

(* A table that the encoder refuses fails the call.                        *)
FlatFrame(code, f, p) ==
    LET w == FlatEncode(Message(code, f @@ p)) IN IF w = BadTable THEN Failed ELSE w

Id(name) == Val("int", name)

(* encode_event_segments: EVENT from PUBLISH.                              *)
EventDetails(d) == Dict([topic |-> "other"] @@ PptOf(d))

EncodeEvent(m, target, p) ==
    LET details == EventDetails(OptionsOf(m))
    IN  IF PptFails(OptionsOf(m)) THEN Failed
        ELSE IF target = "flatbuffers"
        THEN FlatFrame(36, [subscription_id |-> Id("subscription"),
                            publication_id |-> Id("publication"), details |-> details], p)
        ELSE Message(36, <<Id("subscription"), Id("publication"), details>> \o PayloadFields(target, p))

(* encode_invocation_segments: INVOCATION from CALL.                       *)
InvocationDetails(d) == Dict([procedure |-> "other", receive_progress |-> "true"] @@ PptOf(d))

EncodeInvocation(m, target, p) ==
    LET details == InvocationDetails(OptionsOf(m))
    IN  IF PptFails(OptionsOf(m)) THEN Failed
        ELSE IF target = "flatbuffers"
        THEN FlatFrame(68, [request_id |-> Id("invocation"),
                            registration_id |-> Id("registration"), details |-> details], p)
        ELSE Message(68, <<Id("invocation"), Id("registration"), details>> \o PayloadFields(target, p))

ResultFrame(target, details, p) ==
    IF target = "flatbuffers"
    THEN FlatFrame(50, [request_id |-> Id("call"), details |-> details], p)
    ELSE Message(50, <<Id("call"), details>> \o PayloadFields(target, p))

(* encode_result_segments: RESULT from YIELD, with all the YIELD's options. *)
EncodeResult(m, target, p, progress) ==
    ResultFrame(target,
                Dict((IF progress THEN [progress |-> "true"] ELSE <<>>) @@ OptionsOf(m)), p)

(* encode_result_segments_from_call: RESULT straight from CALL, which      *)
(* passes on the PPT options of an opaque body and no other.               *)
EncodeEcho(m, target, p) ==
    ResultFrame(target, Dict(IF HasPptBody(m) THEN PptOf(OptionsOf(m)) ELSE <<>>), p)

(* encode_error_segments: ERROR to the caller from ERROR of the callee.    *)
EncodeError(m, target, p) ==
    LET f == m.message.f
    IN  IF target = "flatbuffers"
        THEN FlatFrame(8, [request_type |-> Id("48"), request_id |-> Id("call"),
                           details |-> f.details, error |-> f.error], p)
        ELSE Message(8, <<Id("48"), Id("call"), f.details, f.error>> \o PayloadFields(target, p))

(* What each ct_forward_* function makes, and of what; a message of        *)
(* another code fails it.                                                  *)
Source == [event |-> 16, invocation |-> 48, echo |-> 48, result |-> 70,
           progress |-> 70, error |-> 8]
Made == [event |-> 36, invocation |-> 68, echo |-> 50, result |-> 50,
         progress |-> 50, error |-> 8]

Forwarded(m, kind, target) ==
    IF ~Reusable(m, target) \/ m.message.code # Source[kind] THEN Failed
    ELSE LET p == ForwardingPayload(m, target)
         IN  CASE kind = "event"      -> EncodeEvent(m, target, p)
               [] kind = "invocation" -> EncodeInvocation(m, target, p)
               [] kind = "echo"       -> EncodeEcho(m, target, p)
               [] kind = "result"     -> EncodeResult(m, target, p, FALSE)
               [] kind = "progress"   -> EncodeResult(m, target, p, TRUE)
               [] OTHER               -> EncodeError(m, target, p)

------------------------------------------------------------------------------
(* The calls that work on a message, step by step.                         *)

Holds(w, a) == worker[w].at \in {"borrowing", "encoding", "removed", "keyed", "shared"}
               /\ worker[w].alloc = a

(* The strong references to an allocation.                                 *)
Owners(a) ==
    Cardinality({h \in DOMAIN handles : handles[h] = a})
    + Cardinality({v \in DOMAIN views : views[v] = a})
    + Cardinality({w \in Workers : Holds(w, a)})

(* The frames that share the bytes of the receive buffer of an allocation. *)
SharedFrames(a) ==
    {i \in DOMAIN queue : queue[i].alloc = a /\ queue[i].shares}
    \cup {w \in Workers : /\ worker[w].at = "sending"
                          /\ worker[w].frame.alloc = a /\ worker[w].frame.shares}

Turn(w, state) == worker' = [worker EXCEPT ![w] = state]

(* with_message: the call owns the allocation while it looks, be it for    *)
(* the message's fields, a forwarding query, or a decryption that copies   *)
(* and leaves the handle.                                                  *)
Borrow(w, h) ==
    /\ worker[w] = Idle /\ MayBegin(handles[h])
    /\ Turn(w, [at |-> "borrowing", alloc |-> handles[h]])
    /\ UNCHANGED <<messages, handles, nextHandle, views, queue, overwritten>>

EndBorrow(w) ==
    /\ worker[w].at = "borrowing"
    /\ Turn(w, Idle)
    /\ UNCHANGED <<messages, handles, nextHandle, views, queue, overwritten>>

(* ct_forward_*: the allocation is taken, the frame is built from slices   *)
(* of its bytes, and the allocation is let go before the frame is queued.  *)
(* A call for a message of another code would fail and change nothing.     *)
ForwardBegin(w, h, kind, target) ==
    /\ worker[w] = Idle /\ MayBegin(handles[h])
    /\ messages[handles[h]].message.code = Source[kind]
    /\ Turn(w, [at |-> "encoding", alloc |-> handles[h], kind |-> kind, target |-> target])
    /\ UNCHANGED <<messages, handles, nextHandle, views, queue, overwritten>>

ForwardEncode(w) ==
    /\ worker[w].at = "encoding"
    /\ LET a    == worker[w].alloc
            wire == Forwarded(messages[a], worker[w].kind, worker[w].target)
        IN  Turn(w, IF wire = Failed THEN Idle
                    ELSE [at |-> "sending",
                          frame |-> [alloc |-> a, kind |-> worker[w].kind,
                                     target |-> worker[w].target, wire |-> wire,
                                     shares |-> /\ Contiguous(messages[a])
                                                /\ PayloadOf(messages[a]) # NoPayload]])
    /\ UNCHANGED <<messages, handles, nextHandle, views, queue, overwritten>>

(* send_wamp_segments, on a connection that may be full or gone.           *)
ForwardSend(w) ==
    /\ worker[w].at = "sending"
    /\ Turn(w, Idle)
    /\ \/ Len(queue) < MaxQueue /\ queue' = Append(queue, worker[w].frame)
       \/ queue' = queue
    /\ UNCHANGED <<messages, handles, nextHandle, views, overwritten>>

(* The destination's writer has flushed a frame and drops it.              *)
Flush ==
    /\ queue # <<>>
    /\ queue' = Tail(queue)
    /\ UNCHANGED <<messages, handles, nextHandle, views, worker, overwritten>>

(* ct_e2ee_session_decrypt_message_payload_consume: the handle goes first, *)
(* whatever comes of the rest.                                             *)
Consume(w, h, cipher) ==
    /\ worker[w] = Idle /\ MayBegin(handles[h])
    /\ RemoveHandle(h)
    /\ Turn(w, [at |-> "removed", alloc |-> handles[h], cipher |-> cipher])
    /\ UNCHANGED <<messages, nextHandle, views, queue, overwritten>>

(* The session or the key may be unknown: the message is lost.             *)
ResolveKey(w) ==
    /\ worker[w].at = "removed"
    /\ \/ Turn(w, [worker[w] EXCEPT !.at = "keyed"])
       \/ Turn(w, Idle)
    /\ UNCHANGED <<messages, handles, nextHandle, views, queue, overwritten>>

UnwrapAlways(w) ==
    /\ worker[w].at = "keyed"
    /\ Turn(w, [worker[w] EXCEPT !.at = "owned"])
    /\ UNCHANGED <<messages, handles, nextHandle, views, queue, overwritten>>

(* Arc::try_unwrap: the last owner gets the message itself.                *)
Unwrap(w) ==
    /\ worker[w].at = "keyed"
    /\ Turn(w, [worker[w] EXCEPT !.at = IF Owners(worker[w].alloc) = 1 THEN "owned" ELSE "shared"])
    /\ UNCHANGED <<messages, handles, nextHandle, views, queue, overwritten>>

(* borrowed_e2ee_message_ciphertext: an opaque body, or one binary         *)
(* argument and no keywords.                                               *)
HasCiphertext(m) ==
    /\ m.message.code \in PayloadCodes
    /\ m.message.f.kwargs = Absent
    /\ IF m.message.f.transparent # Absent
       THEN m.serializer = "flatbuffers" /\ m.message.f.args = Absent
       ELSE m.message.f.args = OneBinary

(* decrypt_e2ee_message_payload_owned.  The parts are dropped, and AES-GCM *)
(* runs in the receive buffer if try_into_mut finds no other reference to  *)
(* it; the connection's own read buffer may be one.  Every other case      *)
(* copies, or fails.                                                       *)
InPlace(w) ==
    LET m == messages[worker[w].alloc]
    IN  /\ worker[w].cipher = "aes" /\ m.serializer # "json"
        /\ HasCiphertext(m) /\ Contiguous(m)
        /\ SharedFrames(worker[w].alloc) = {}

DecryptOwned(w) ==
    /\ worker[w].at = "owned"
    /\ \/ InPlace(w) /\ overwritten' = overwritten \cup {worker[w].alloc}
       \/ overwritten' = overwritten
    /\ Turn(w, Idle)
    /\ UNCHANGED <<messages, handles, nextHandle, views, queue>>

(* decrypt_e2ee_message_payload_copied.                                    *)
DecryptShared(w) ==
    /\ worker[w].at = "shared"
    /\ Turn(w, Idle)
    /\ UNCHANGED <<messages, handles, nextHandle, views, queue, overwritten>>

Kinds == DOMAIN Source
Ciphers == {"xsalsa", "aes"}

IsolateCall ==
    \/ \E h \in DOMAIN handles : Retain(h) \/ Release(h) \/ Export(h)
    \/ \E v \in DOMAIN views : FreeView(v)
    \/ \E w \in Workers :
         \/ \E h \in DOMAIN handles :
              \/ Borrow(w, h)
              \/ \E k \in Kinds, s \in Serializers : ForwardBegin(w, h, k, s)
              \/ \E c \in Ciphers : Consume(w, h, c)
         \/ EndBorrow(w) \/ ForwardEncode(w) \/ ForwardSend(w)
         \/ ResolveKey(w) \/ Unwrap(w) \/ DecryptOwned(w) \/ DecryptShared(w)
    \/ Flush
    \/ Clear

MessagesNext ==
    \/ \E i \in Inputs : Poll(i)
    \/ IsolateCall /\ received' = NoInput

MessagesSpec == MessagesInit /\ [][MessagesNext]_messageVars

------------------------------------------------------------------------------
(* Types; handles, views and queued frames refer to messages that were     *)
(* polled, within their bounds.                                            *)
MessagesTypeOK ==
    /\ Len(messages) <= MaxMessages
    /\ DOMAIN handles \subseteq 1 .. nextHandle - 1
    /\ \A h \in DOMAIN handles : handles[h] \in DOMAIN messages
    /\ \A v \in DOMAIN views : v <= MaxViews /\ views[v] \in DOMAIN messages
    /\ Len(queue) <= MaxQueue
    /\ overwritten \subseteq DOMAIN messages

(* In-place decryption is invisible to everybody else: once a receive      *)
(* buffer was overwritten, no handle, view, running call or frame on its   *)
(* way out can still read it, whichever thread retained, exported or       *)
(* forwarded the message while another consumed it.                        *)
NeverOverwritten ==
    /\ MessagesTypeOK
    /\ \A a \in overwritten : Owners(a) = 0 /\ SharedFrames(a) = {}

(* Where a null stands for the dictionary that a message must have, and    *)
(* where one stands for a counter of a HEARTBEAT.                          *)
DictionaryPlace(code) ==
    CASE code \in {3, 6, 7} -> 1
      [] code \in {8, 36, 68} -> 3
      [] code \in {1, 2, 4, 16, 32, 48, 49, 50, 64, 69, 70} -> 2
      [] OTHER -> 0
NullDictionary(w) ==
    DictionaryPlace(w.code) \in DOMAIN w.f /\ w.f[DictionaryPlace(w.code)] = Null
NullCounter(w) == w.code = 7 /\ \E i \in DOMAIN w.f \cap 2 .. 4 : w.f[i] = Null

(* The readers of the array form are written apart and understand a frame  *)
(* alike, with the payload cut out of it or not, but for two cases: a null *)
(* dictionary is refused by MessagePack alone and a null HEARTBEAT counter *)
(* by CBOR alone.                                                          *)
ParsersAgree(w) ==
    LET json == ParseJson(w)
    IN  /\ ParseCbor(w, FALSE) = ParseCbor(w, TRUE)
        /\ ParseMsgPack(w) = IF NullDictionary(w) THEN Bad ELSE json
        /\ ParseCbor(w, FALSE) = IF NullCounter(w) THEN Bad ELSE json

(* What was understood survives the table form: the FlatBuffers writer,    *)
(* where it accepts a message, writes what the reader takes for the same.  *)
RoundTrips(m) ==
    m # Bad /\ FlatEncode(m) # BadTable => FlatParse(FlatEncode(m)) = m

(* The codecs agree on every frame that arrives: the array readers with    *)
(* each other (wamp.rs), and the FlatBuffers writer with its reader        *)
(* (flatbuffers_encoder.rs, flatbuffers_codec.rs).                         *)
CodecsAgree ==
    received # NoInput =>
        /\ received.serializer # "flatbuffers" => ParsersAgree(received.wire)
        /\ RoundTrips(Parse(received.serializer, received.wire, received.segmented))

(* The application data of a message, as its receiver takes it under the   *)
(* PPT options d: an opaque body, in whatever wrapping, or arguments and   *)
(* keywords, where keywords alone imply an empty list.                     *)
Content(d, p) ==
    IF \/ p.transparent # Absent
       \/ /\ "ppt_scheme" \in DOMAIN d /\ d["ppt_scheme"] \in {"known", "other"}
          /\ p.args = OneBinary /\ (p.kwargs = Absent \/ p.kwargs.x = "empty")
    THEN <<Body>>
    ELSE <<IF p.args = Absent /\ p.kwargs # Absent THEN EmptyList ELSE p.args, p.kwargs>>

(* A forwarded frame is a message its receiver can parse, of the right     *)
(* kind, with the PPT options and the application data of the message it   *)
(* was made from.  A RESULT made from a CALL passes PPT options on only    *)
(* for a body it knows to be opaque.                                       *)
FaithfulFrame(frame) ==
    LET m == messages[frame.alloc]
        r == Parse(frame.target, frame.wire, FALSE)
        d == IF frame.kind = "echo" /\ ~HasPptBody(m) THEN <<>> ELSE PptOf(OptionsOf(m))
        t == [m EXCEPT !.message = r]
    IN  /\ r # Bad /\ r.code = Made[frame.kind]
        /\ PptOf(OptionsOf(t)) = d
        /\ Content(d, PayloadOf(t)) = Content(d, PayloadOf(m))

(* The query promises what the call keeps: a message that is said to be    *)
(* eligible for a target is forwarded there, unless one of its options is  *)
(* of a type that its key does not have.                                   *)
IllTyped(m, kind) ==
    \/ PptFails(OptionsOf(m))
    \/ ~Projects(Made[kind], OptionsOf(m))

EligibleForwards ==
    received # NoInput =>
        LET m == messages[Len(messages)]
        IN  \A k \in Kinds, s \in Serializers :
               (m.message.code = Source[k] /\ Reusable(m, s) /\ ~IllTyped(m, k))
                  => Forwarded(m, k, s) # Failed

(* Forwarding without decoding changes the envelope and nothing else.      *)
ForwardedFaithfully ==
    /\ \A i \in DOMAIN queue : FaithfulFrame(queue[i])
    /\ \A w \in Workers : worker[w].at = "sending" => FaithfulFrame(worker[w].frame)
    /\ EligibleForwards
==============================================================================
