----------------------------- MODULE HttpServer -----------------------------
(***************************************************************************)
(* One HTTP connection of the native transport and the Dart threads that   *)
(* answer its requests (ct_core/src/lib.rs, http_body.rs, http_stream.rs,  *)
(* protocol.rs and the HTTP calls of ct_ffi/src/runtime/ffi.rs).           *)
(*                                                                         *)
(* HTTP/1 is one task that reads requests in order from a byte stream,     *)
(* lends the read half to a body reader for a body it does not inline, and *)
(* waits for each response.  HTTP/2 and HTTP/3 accept requests in a loop,  *)
(* with a body reader and a response task for each.                        *)
(*                                                                         *)
(* A byte is the pair <<request, index>>; index 0 is the header block.     *)
(***************************************************************************)
EXTENDS Integers, Sequences, SequencesExt, HttpBody

CONSTANTS
    MaxRequests,   \* bound: requests the peer makes on an HTTP/1 connection
    MuxRequests,   \* bound: requests it makes on an HTTP/2 or HTTP/3 connection
    MaxLen,        \* max_http_content_length, and the longest body declared
    InlineLimit,   \* HTTP1_INLINE_BODY_LIMIT
    StreamBuffer,  \* RESPONSE_STREAM_BUFFER
    MaxChunks      \* bound: chunks Dart writes to one streamed response

ASSUME HttpAssumption ==
    /\ MaxRequests \in Nat \ {0} /\ MuxRequests \in 1..MaxRequests
    /\ MaxLen \in Nat /\ InlineLimit \in Nat
    /\ StreamBuffer \in Nat \ {0} /\ MaxChunks \in Nat

Requests == 1..MaxRequests
Unknown == -1                     \* no Content-Length

VARIABLES
    proto,      \* "http1", "http2" or "http3": what was negotiated
    client,     \* requests opened, and whether the peer is gone
    uplink,     \* HTTP/1: every byte the peer has sent
    fetched,    \* HTTP/1: bytes read from the socket
    taken,      \* HTTP/1: bytes taken out of the BufReader
    half,       \* HTTP/1: who owns the read half
    incoming,   \* HTTP/2, 3: the data and the end of each request's stream
    len,        \* declared body length of each request
    serve,      \* the connection's task: where it is, which request, keep-alive
    readers,    \* the body reader task of each request
    body,       \* the StreamingBodyState of each request
    registered, \* the registry entry and its pending requests
    stats,      \* HttpConnectionStats (HTTP/2 and HTTP/3)
    events,     \* connection events
    held,       \* Dart's body handle of each request
    resp,       \* where each request's response is
    stream,     \* the response stream of each request
    out         \* what was written, to each lane of the connection

httpVars == <<proto, client, uplink, fetched, taken, half, incoming, len, serve,
              readers, body, registered, stats, events, held, resp, stream, out>>

net    == <<client, uplink, incoming, len>>
input  == <<fetched, taken, half>>
dart   == <<held, resp, stream>>
record == <<stats, events>>

Mux == proto # "http1"

\* What a response puts on the wire: all of it, its head, the chunks 1, 2, ...
\* of a streamed one, and the end of the stream.
Whole(r) == <<r, -2>>
Opening(r) == <<r, -1>>
Finished == 0

\* HTTP/1 has one lane, a byte stream; the others a stream for each request.
Lane(r) == IF Mux THEN r ELSE 1
Written(r, what) == [out EXCEPT ![Lane(r)] = Append(@, what)]

NewStream == [queue |-> <<>>, writer |-> FALSE, reading |-> FALSE, made |-> 0]

HttpInit ==
    /\ proto \in {"http1", "http2", "http3"}
    /\ client = [opened |-> 0, gone |-> FALSE]
    /\ uplink = <<>> /\ fetched = 0 /\ taken = 0 /\ half = "serve"
    /\ incoming = [r \in Requests |-> [data |-> <<>>, sent |-> 0, end |-> "open"]]
    /\ len = [r \in Requests |-> Unknown]
    /\ serve = [at |-> "read", req |-> 0, keep |-> TRUE]
    /\ readers = [r \in Requests |-> [on |-> FALSE, count |-> 0]]
    /\ body = [r \in Requests |-> NewBody]
    /\ registered = [present |-> TRUE, pending |-> <<>>]
    /\ stats = [reason |-> "none", requests |-> 0, depth |-> 0]
    /\ events = <<>>
    /\ held = [r \in Requests |-> "none"]
    /\ resp = [r \in Requests |-> "none"]
    /\ stream = [r \in Requests |-> NewStream]
    /\ out = [l \in Requests |-> <<>>]

-----------------------------------------------------------------------------
(* The peer (external).                                                    *)

Byte(r, i) == <<r, i>>
HeadOf(r) == Byte(r, 0)
SentOfLast == uplink[Len(uplink)][2]

\* A request's header block.  On HTTP/1 it follows the whole body before it.
\* On HTTP/2 and HTTP/3 the data that will come on its stream, possibly more
\* than declared or allowed, and how the stream ends are chosen here: the
\* reader's pace stands for theirs.
PeerOpens ==
    LET r == client.opened + 1 IN
    /\ ~client.gone /\ r <= IF Mux THEN MuxRequests ELSE MaxRequests
    /\ \E n \in IF Mux THEN {Unknown, MaxLen} ELSE 0..MaxLen :
         len' = [len EXCEPT ![r] = n]
    /\ IF Mux
       THEN /\ \E n \in 0..(MaxLen + 1), end \in {"open", "fin", "reset"} :
                incoming' = [incoming EXCEPT ![r] =
                            [data |-> [i \in 1..n |-> Byte(r, i)], sent |-> n,
                             end |-> end]]
            /\ UNCHANGED uplink
       ELSE /\ client.opened > 0 => SentOfLast = len[client.opened]
            /\ uplink' = Append(uplink, HeadOf(r))
            /\ UNCHANGED incoming
    /\ client' = [client EXCEPT !.opened = r]
    /\ UNCHANGED <<proto, input, serve, readers, body, registered, record,
                   dart, out>>

\* One byte of an HTTP/1 body.
PeerSendsByte ==
    LET r == client.opened IN
    /\ ~Mux /\ ~client.gone /\ r > 0 /\ SentOfLast < len[r]
    /\ uplink' = Append(uplink, Byte(r, SentOfLast + 1))
    /\ UNCHANGED <<proto, client, incoming, len, input, serve, readers, body,
                   registered, record, dart, out>>

PeerLeaves ==
    /\ ~client.gone
    /\ client' = [client EXCEPT !.gone = TRUE]
    /\ UNCHANGED <<proto, uplink, incoming, len, input, serve, readers, body,
                   registered, record, dart, out>>

-----------------------------------------------------------------------------
(* Requests of every protocol.                                             *)

\* enqueue_http_request: a second waiting request is back-pressure.
EnqueueHttpRequest(r) ==
    /\ registered' = [registered EXCEPT !.pending = Append(@, r)]
    /\ resp' = [resp EXCEPT ![r] = "queued"]

Depth == IF registered.pending = <<>> THEN 0 ELSE Len(registered.pending) + 1
Deeper(a, b) == IF a > b THEN a ELSE b

\* Mistake for the runs to notice: the last reason wins.
SetCloseReasonLast(s, why) == [s EXCEPT !.reason = why]

\* set_close_reason: the first reason stays.
SetCloseReason(s, why) == IF s.reason = "none" THEN [s EXCEPT !.reason = why] ELSE s

\* finish_http_connection: the entry goes, its waiting requests with it (their
\* response channels close), and the statistics become one event.
FinishHttpConnection(s, why) ==
    /\ registered' = [present |-> FALSE, pending |-> <<>>]
    /\ resp' = [r \in Requests |->
                  IF resp[r] = "queued" THEN "dropped" ELSE resp[r]]
    /\ events' = IF registered.present
                 THEN Append(events, SetCloseReason(s, why))
                 ELSE events

-----------------------------------------------------------------------------
(* HTTP/1: serve_http_connection.                                          *)

At(where) == ~Mux /\ serve.at = where
Buffered == SubSeq(uplink, taken + 1, fetched)
Available == Len(uplink) - fetched

ServeEnds ==
    /\ serve' = [serve EXCEPT !.at = "ended"]
    /\ half' = IF half = "serve" THEN "gone" ELSE half

\* After a response the task waits for a read half it has lent, then leaves
\* the loop when the request did not keep the connection alive.
Continue(keep) ==
    /\ serve' = [serve EXCEPT !.keep = keep,
                              !.at = IF half # "serve" THEN "reclaim"
                                     ELSE IF keep THEN "read" ELSE "ended"]
    /\ half' = IF half = "serve" /\ ~keep THEN "gone" ELSE half

\* BufReader::fill_buf reads the socket only when its buffer is empty, and
\* then what has arrived; the peer's pace stands for shorter reads.
FillBuf ==
    /\ At("read") \/ At("inline")
    /\ taken = fetched /\ Available > 0
    /\ fetched' = Len(uplink)
    /\ UNCHANGED <<proto, net, taken, half, serve, readers, body, registered,
                   record, dart, out>>

\* read_http_request up to the header block: a body within the inline limit
\* is collected before the request is handled; of a longer one the bytes that
\* are already buffered are its prefix.
ReadHead ==
    /\ At("read") /\ Buffered # <<>>
    /\ LET r == Head(Buffered)[1] IN
       \E keep \in BOOLEAN :
         serve' = [at |-> IF len[r] <= InlineLimit THEN "inline" ELSE "handle",
                   req |-> r, keep |-> keep]
    /\ taken' = taken + 1
    /\ UNCHANGED <<proto, net, fetched, half, readers, body, registered,
                   record, dart, out>>

\* The loop that fills an inline body takes no byte beyond it.
ReadInline ==
    LET r == serve.req
        wanted == len[r] - Len(body[r].got)
        size == IF wanted < Len(Buffered) THEN wanted ELSE Len(Buffered) IN
    /\ At("inline")
    /\ IF wanted = 0
       THEN /\ body' = [body EXCEPT ![r] = InlineBody(@.got)]
            /\ serve' = [serve EXCEPT !.at = "route"]
            /\ UNCHANGED taken
       ELSE /\ size > 0
            /\ body' = [body EXCEPT ![r].got = @ \o SubSeq(Buffered, 1, size)]
            /\ taken' = taken + size
            /\ UNCHANGED serve
    /\ UNCHANGED <<proto, net, fetched, half, readers, registered, record,
                   dart, out>>

\* Mistake for the runs to notice: the prefix is taken without a limit.
StartBodyGreedy ==
    LET r == serve.req IN
    /\ At("handle")
    /\ LET prefix == Buffered IN
       /\ taken' = taken + Len(prefix)
       /\ IF Len(prefix) >= len[r]
          THEN /\ body' = [body EXCEPT ![r] = InlineBody(prefix)]
               /\ UNCHANGED <<half, readers>>
          ELSE /\ body' = [body EXCEPT ![r] = EnqueueBytes(NewBody, prefix)]
               /\ readers' = [readers EXCEPT ![r] =
                               [on |-> TRUE, count |-> len[r] - Len(prefix)]]
               /\ half' = "body"
    /\ serve' = [serve EXCEPT !.at = "route"]
    /\ UNCHANGED <<proto, net, fetched, registered, record, dart, out>>

\* classify_http_body and spawn_http1_streaming_body: the read half goes to a
\* reader task; what is left in the BufReader is dropped with it (into_inner).
StartBody ==
    LET r == serve.req
        size == IF len[r] < Len(Buffered) THEN len[r] ELSE Len(Buffered)
        prefix == SubSeq(Buffered, 1, size) IN
    /\ At("handle")
    /\ IF size = len[r]
       THEN /\ body' = [body EXCEPT ![r] = InlineBody(prefix)]
            /\ taken' = taken + size
            /\ UNCHANGED <<half, readers>>
       ELSE /\ body' = [body EXCEPT ![r] = EnqueueBytes(NewBody, prefix)]
            /\ readers' = [readers EXCEPT ![r] = [on |-> TRUE, count |-> len[r] - size]]
            /\ half' = "body"
            /\ taken' = fetched
    /\ serve' = [serve EXCEPT !.at = "route"]
    /\ UNCHANGED <<proto, net, fetched, registered, record, dart, out>>

\* A resolved route: the request is queued for Dart, or the loop ends when the
\* registry has no entry (the response channel and the body go with it).
RouteResolved ==
    LET r == serve.req IN
    /\ At("route")
    /\ IF registered.present
       THEN /\ EnqueueHttpRequest(r)
            /\ serve' = [serve EXCEPT !.at = "await"]
            /\ UNCHANGED half
       ELSE ServeEnds /\ UNCHANGED <<registered, resp>>
    /\ UNCHANGED <<proto, net, fetched, taken, readers, body, record, held,
                   stream, out>>

\* 404, 405 and 426 follow the keep-alive rule; a transport-auth rejection
\* goes on to the next request whatever the request said.
RouteRejected ==
    LET r == serve.req IN
    /\ At("route")
    /\ \E unauthorized \in BOOLEAN :
         Continue(serve.keep \/ unauthorized)
    /\ out' = Written(r, Whole(r))
    /\ resp' = [resp EXCEPT ![r] = "sent"]
    /\ UNCHANGED <<proto, net, fetched, taken, readers, body, registered,
                   record, held, stream>>

\* The peer is gone, and the rejection cannot be written.
RejectionFails ==
    /\ At("route") /\ client.gone
    /\ ServeEnds
    /\ resp' = [resp EXCEPT ![serve.req] = "failed"]
    /\ UNCHANGED <<proto, net, fetched, taken, readers, body, registered,
                   record, held, stream, out>>

\* End of file, a read error, the idle timeout, or an invalid request (which
\* is answered with a status before the connection is shut down).
ReadEnds ==
    /\ At("read") \/ At("inline")
    /\ \/ taken = fetched /\ Available = 0
       \/ At("read") /\ Buffered # <<>>
    /\ ServeEnds
    /\ UNCHANGED <<proto, net, fetched, taken, readers, body, registered,
                   record, dart, out>>

\* The response channel closed without a response: 500, and the end.
ResponseCancelled ==
    LET r == serve.req IN
    /\ At("await") /\ resp[r] = "dropped"
    /\ ServeEnds
    /\ out' = Written(r, Whole(r))
    /\ resp' = [resp EXCEPT ![r] = "sent"]
    /\ UNCHANGED <<proto, net, fetched, taken, readers, body, registered,
                   record, held, stream>>

\* Http1BodyReclaim::wait: the read half comes back after a whole body; a
\* reader that gave up has dropped it, and the connection ends.
Reclaim ==
    /\ At("reclaim") /\ half \in {"returned", "gone"}
    /\ IF half = "returned" /\ serve.keep
       THEN /\ half' = "serve"
            /\ serve' = [serve EXCEPT !.at = "read"]
       ELSE /\ half' = "gone"
            /\ serve' = [serve EXCEPT !.at = "ended"]
    /\ UNCHANGED <<proto, net, fetched, taken, readers, body, registered,
                   record, dart, out>>

-----------------------------------------------------------------------------
(* HTTP/1: run_http1_stream_reader.                                        *)

Lent(r) == ~Mux /\ readers[r].on

\* A read of at most what remains; the bytes are queued unless Dart has asked
\* for the end.  Nothing limits how far the queue runs ahead of Dart.
Http1BodyRead(r) ==
    /\ Lent(r) /\ readers[r].count > 0 /\ Available > 0 /\ Unlocked(body[r])
    /\ LET n == IF readers[r].count < Available THEN readers[r].count ELSE Available IN
       /\ fetched' = fetched + n /\ taken' = taken + n
       /\ readers' = [readers EXCEPT ![r].count = @ - n]
       /\ body' = IF body[r].asked THEN body
                  ELSE [body EXCEPT ![r] =
                          EnqueueBytes(@, SubSeq(uplink, fetched + 1, fetched + n))]
    /\ UNCHANGED <<proto, net, half, serve, registered, record, dart, out>>

\* The whole body was read: mark_finished, and the read half goes back.
Http1BodyDone(r) ==
    /\ Lent(r) /\ readers[r].count = 0 /\ Unlocked(body[r])
    /\ body' = [body EXCEPT ![r] = MarkFinished(@)]
    /\ readers' = [readers EXCEPT ![r].on = FALSE]
    /\ half' = "returned"
    /\ UNCHANGED <<proto, net, fetched, taken, serve, registered, record, dart,
                   out>>

\* End of file, a read error or the read timeout.
Http1BodyFails(r) ==
    /\ Lent(r) /\ readers[r].count > 0 /\ Available = 0 /\ Unlocked(body[r])
    /\ body' = [body EXCEPT ![r] = MarkError(@)]
    /\ readers' = [readers EXCEPT ![r].on = FALSE]
    /\ half' = "gone"
    /\ UNCHANGED <<proto, net, fetched, taken, serve, registered, record, dart,
                   out>>

-----------------------------------------------------------------------------
(* HTTP/2 and HTTP/3: the accept loop.                                     *)

Accepting == Mux /\ serve.at = "read"

\* handle_http2_request and process_http3_request: without a registry entry
\* the request is dropped; otherwise it is counted and its body reader starts
\* whatever its route, before a rejection or the queue for Dart.
AcceptRequest ==
    LET r == serve.req + 1 IN
    /\ Accepting /\ r <= client.opened /\ ~client.gone
    /\ serve' = [serve EXCEPT !.req = r]
    /\ IF registered.present
       THEN /\ readers' = [readers EXCEPT ![r].on = TRUE]
            /\ \/ /\ EnqueueHttpRequest(r)
                  /\ stats' = [stats EXCEPT !.requests = @ + 1,
                                            !.depth = Deeper(Depth, @)]
                  /\ UNCHANGED out
               \/ /\ resp' = [resp EXCEPT ![r] = "sent"]
                  /\ out' = Written(r, Whole(r))
                  /\ stats' = [stats EXCEPT !.requests = @ + 1]
                  /\ UNCHANGED registered
       ELSE /\ resp' = [resp EXCEPT ![r] = "failed"]
            /\ UNCHANGED <<readers, registered, stats, out>>
    /\ UNCHANGED <<proto, net, input, body, events, held, stream>>

\* The accept loop ends, and with it the connection: the peer left, sent
\* GOAWAY, or broke the protocol (classify_http2_accept_error and the error
\* arm of serve_http3_requests).
AcceptEnds ==
    /\ Accepting
    /\ \/ /\ client.gone
          /\ FinishHttpConnection(stats, "graceful")
       \/ /\ proto = "http2"
          /\ FinishHttpConnection(SetCloseReason(stats, "goaway"), "goaway")
       \/ FinishHttpConnection(SetCloseReason(stats, "protocol"), "protocol")
    /\ serve' = [serve EXCEPT !.at = "ended"]
    /\ UNCHANGED <<proto, net, input, readers, body, stats, held, stream, out>>

-----------------------------------------------------------------------------
(* HTTP/2 and HTTP/3: run_http2_stream_reader, run_http3_stream_reader.    *)

Reading(r) == Mux /\ readers[r].on /\ Unlocked(body[r])
Broken(r) == incoming[r].end = "reset" \/ client.gone \/ serve.at = "ended"

StopReader(r, b) ==
    /\ body' = [body EXCEPT ![r] = b]
    /\ readers' = [readers EXCEPT ![r].on = FALSE]

\* The check at the top of the loop.
BodyAbandoned(r) ==
    /\ Reading(r) /\ body[r].asked
    /\ StopReader(r, MarkFinished(body[r]))
    /\ UNCHANGED <<proto, net, input, serve, registered, record, dart, out>>

\* The idle timeout or the total deadline: an error for the body, the
\* connection's close reason, and on HTTP/3 the end of the connection.
BodyTimesOut(r, why) ==
    /\ Reading(r)
    /\ why = "idle" => incoming[r].data = <<>> /\ incoming[r].end = "open"
    /\ StopReader(r, MarkError(body[r]))
    /\ stats' = SetCloseReason(stats, why)
    /\ client' = IF proto = "http3" THEN [client EXCEPT !.gone = TRUE] ELSE client
    /\ UNCHANGED <<proto, uplink, incoming, len, input, serve, registered,
                   events, dart, out>>

Exceeded(r, n) == n > MaxLen \/ (len[r] # Unknown /\ n > len[r])

\* The next data: an error past a limit, else queued unless Dart has asked
\* for the end meanwhile.
BodyData(r) ==
    LET n == readers[r].count + 1 IN
    /\ Reading(r) /\ ~body[r].asked /\ incoming[r].data # <<>>
    /\ incoming' = [incoming EXCEPT ![r].data = Tail(@)]
    /\ IF Exceeded(r, n)
       THEN StopReader(r, MarkError(body[r]))
       ELSE /\ readers' = [readers EXCEPT ![r].count = n]
            /\ body' = [body EXCEPT ![r] =
                          EnqueueBytes(@, <<Head(incoming[r].data)>>)]
    /\ UNCHANGED <<proto, client, uplink, len, input, serve, registered,
                   record, dart, out>>

\* The end of the stream: an error when it falls short of Content-Length.
BodyEnd(r) ==
    /\ Reading(r) /\ ~body[r].asked
    /\ incoming[r].data = <<>> /\ incoming[r].end = "fin"
    /\ StopReader(r, IF len[r] # Unknown /\ readers[r].count # len[r]
                     THEN MarkError(body[r])
                     ELSE MarkFinished(body[r]))
    /\ UNCHANGED <<proto, net, input, serve, registered, record, dart, out>>

\* A reset stream or a lost connection.
BodyBroken(r) ==
    /\ Reading(r) /\ ~body[r].asked /\ Broken(r)
    /\ StopReader(r, MarkError(body[r]))
    /\ stats' = SetCloseReason(stats, "protocol")
    /\ UNCHANGED <<proto, net, input, serve, registered, events, dart, out>>

-----------------------------------------------------------------------------
(* Sending a response: inside the HTTP/1 task, or in a task of its own.    *)

Sender(r) == IF Mux THEN TRUE ELSE serve.at = "await" /\ serve.req = r
Lost == client.gone \/ (Mux /\ serve.at = "ended")

AfterSend(ok) ==
    IF Mux THEN UNCHANGED <<serve, half>>
    ELSE IF ok THEN Continue(serve.keep) ELSE ServeEnds

\* send_http_dispatch and its HTTP/2 and HTTP/3 counterparts, for a whole body.
SendBuffered(r) ==
    /\ Sender(r) /\ resp[r] = "buffered"
    /\ resp' = [resp EXCEPT ![r] = "sent"]
    /\ out' = Written(r, Whole(r))
    /\ AfterSend(TRUE)
    /\ UNCHANGED <<proto, net, fetched, taken, readers, body, registered,
                   record, held, stream>>

\* An HTTP/2 or HTTP/3 response channel that closed: 500.
SendCancelled(r) ==
    /\ Mux /\ resp[r] = "dropped"
    /\ resp' = [resp EXCEPT ![r] = IF Lost THEN "failed" ELSE "sent"]
    /\ out' = IF Lost THEN out ELSE Written(r, Whole(r))
    /\ UNCHANGED <<proto, net, input, serve, readers, body, registered, record,
                   held, stream>>

\* The status line and the headers of a streamed response.
SendStreamHead(r) ==
    /\ Sender(r) /\ resp[r] = "streaming"
    /\ resp' = [resp EXCEPT ![r] = "chunks"]
    /\ out' = Written(r, Opening(r))
    /\ UNCHANGED <<proto, net, input, serve, readers, body, registered, record,
                   held, stream>>

\* The next frame of the stream: a chunk, or the end with its terminator.
SendFrame(r) ==
    LET frame == Head(stream[r].queue) IN
    /\ Sender(r) /\ resp[r] = "chunks" /\ stream[r].queue # <<>>
    /\ out' = Written(r, <<r, frame>>)
    /\ IF frame = Finished
       THEN /\ resp' = [resp EXCEPT ![r] = "sent"]
            /\ stream' = [stream EXCEPT ![r].queue = <<>>, ![r].reading = FALSE]
            /\ AfterSend(TRUE)
       ELSE /\ stream' = [stream EXCEPT ![r].queue = Tail(@)]
            /\ UNCHANGED <<resp, serve, half>>
    /\ UNCHANGED <<proto, net, fetched, taken, readers, body, registered,
                   record, held>>

\* A write fails: the reader side closes, and Dart's next write is refused.
SendFails(r) ==
    /\ Sender(r) /\ Lost /\ resp[r] \in {"buffered", "streaming", "chunks"}
    /\ resp' = [resp EXCEPT ![r] = "failed"]
    /\ stream' = [stream EXCEPT ![r].queue = <<>>, ![r].reading = FALSE]
    /\ AfterSend(FALSE)
    /\ UNCHANGED <<proto, net, fetched, taken, readers, body, registered,
                   record, held, out>>

-----------------------------------------------------------------------------
(* Dart, through the FFI.                                                  *)

\* The body and the stream handles live in sharded maps whose shard stays
\* locked for the whole of a blocked call: here all handles share a shard.
BodyShardFree == \A q \in Requests : body[q].use = "idle"

\* ct_http3_connection_poll_request and ct_connection_take_http_handshake.
PollRequest ==
    /\ registered.present /\ registered.pending # <<>>
    /\ registered' = [registered EXCEPT !.pending = Tail(@)]
    /\ resp' = [resp EXCEPT ![Head(registered.pending)] = "polled"]
    /\ UNCHANGED <<proto, net, input, serve, readers, body, record, held,
                   stream, out>>

\* ct_http_handshake_body_retain
RetainBody(r) ==
    /\ resp[r] = "polled" /\ held[r] = "none" /\ BodyShardFree
    /\ held' = [held EXCEPT ![r] = "held"]
    /\ UNCHANGED <<proto, net, input, serve, readers, body, registered, record,
                   resp, stream, out>>

\* ct_http_body_stream_read: the call, a pass of take_slice, and its wait.
StreamRead(r) ==
    /\ held[r] = "held" /\ body[r].use = "idle" /\ body[r].told = "nothing"
    /\ body' = [body EXCEPT ![r].use = "check"]
    /\ UNCHANGED <<proto, net, input, serve, readers, registered, record, dart,
                   out>>

StreamReadStep(r, n) ==
    /\ body[r].use = "check"
    /\ body' = [body EXCEPT ![r] = TakeSlice(@, n)]
    /\ UNCHANGED <<proto, net, input, serve, readers, registered, record, dart,
                   out>>

StreamReadWaits(r) ==
    /\ body[r].use = "locked"
    /\ body' = [body EXCEPT ![r] = Sleep(@)]
    /\ UNCHANGED <<proto, net, input, serve, readers, registered, record, dart,
                   out>>

\* ct_http_body_finish
FinishBody(r) ==
    /\ held[r] = "held" /\ ~body[r].asked
    /\ body' = [body EXCEPT ![r] = RequestFinish(@)]
    /\ UNCHANGED <<proto, net, input, serve, readers, registered, record, dart,
                   out>>

\* ct_http_body_release
ReleaseBody(r) ==
    /\ held[r] = "held" /\ BodyShardFree
    /\ held' = [held EXCEPT ![r] = "released"]
    /\ body' = [body EXCEPT ![r] = RequestFinish(@)]
    /\ UNCHANGED <<proto, net, input, serve, readers, registered, record, resp,
                   stream, out>>

\* ct_http_response_send
Respond(r) ==
    /\ resp[r] = "polled"
    /\ resp' = [resp EXCEPT ![r] = "buffered"]
    /\ UNCHANGED <<proto, net, input, serve, readers, body, registered, record,
                   held, stream, out>>

\* ct_http_handshake_release: the response channel closes.
ReleaseRequest(r) ==
    /\ resp[r] = "polled"
    /\ resp' = [resp EXCEPT ![r] = "dropped"]
    /\ UNCHANGED <<proto, net, input, serve, readers, body, registered, record,
                   held, stream, out>>

\* ct_http_response_stream_open; bound: of a request whose body Dart does not
\* read (the two share no state).
OpenResponseStream(r) ==
    /\ resp[r] = "polled" /\ held[r] = "none"
    /\ resp' = [resp EXCEPT ![r] = "streaming"]
    /\ stream' = [stream EXCEPT ![r] = [NewStream EXCEPT !.writer = TRUE,
                                                        !.reading = TRUE]]
    /\ UNCHANGED <<proto, net, input, serve, readers, body, registered, record,
                   held, out>>

Room(r) == Len(stream[r].queue) < StreamBuffer

\* Mistake for the runs to notice: a chunk that finds no room is reported as
\* written and dropped.
WriteChunkDrops(r) ==
    /\ stream[r].writer /\ stream[r].reading /\ stream[r].made < MaxChunks
    /\ stream' = [stream EXCEPT ![r].queue = IF Room(r)
                                  THEN Append(@, stream[r].made + 1) ELSE @,
                                ![r].made = @ + 1]
    /\ UNCHANGED <<proto, net, input, serve, readers, body, registered, record,
                   held, resp, out>>

\* ct_http_response_stream_write: it blocks while the stream is full, and is
\* refused once the sending side is gone.
WriteChunk(r) ==
    /\ stream[r].writer /\ stream[r].reading /\ Room(r)
    /\ stream[r].made < MaxChunks
    /\ stream' = [stream EXCEPT ![r].queue = Append(@, stream[r].made + 1),
                                ![r].made = @ + 1]
    /\ UNCHANGED <<proto, net, input, serve, readers, body, registered, record,
                   held, resp, out>>

\* ct_http_response_stream_finish: the handle is gone whatever the outcome.
FinishResponseStream(r) ==
    /\ stream[r].writer /\ (~stream[r].reading \/ Room(r))
    /\ stream' = [stream EXCEPT ![r].writer = FALSE,
                                ![r].queue = IF stream[r].reading
                                             THEN Append(@, Finished) ELSE @]
    /\ UNCHANGED <<proto, net, input, serve, readers, body, registered, record,
                   held, resp, out>>

\* ct_connection_close: remove_connection has no task of an HTTP connection
\* to stop; its waiting requests are dropped and no event is made.
CloseConnection ==
    /\ registered.present
    /\ registered' = [present |-> FALSE, pending |-> <<>>]
    /\ resp' = [r \in Requests |->
                  IF resp[r] = "queued" THEN "dropped" ELSE resp[r]]
    /\ UNCHANGED <<proto, net, input, serve, readers, body, record, held,
                   stream, out>>

-----------------------------------------------------------------------------
Http1Step ==
    \/ FillBuf \/ ReadHead \/ ReadInline \/ StartBody \/ RouteResolved
    \/ RouteRejected \/ RejectionFails \/ ReadEnds \/ ResponseCancelled \/ Reclaim

Http1BodyStep(r) == Http1BodyRead(r) \/ Http1BodyDone(r) \/ Http1BodyFails(r)

BodyStep(r) ==
    \/ BodyAbandoned(r) \/ BodyData(r) \/ BodyEnd(r) \/ BodyBroken(r)
    \/ \E why \in {"idle", "total"} : BodyTimesOut(r, why)

SendStep(r) ==
    \/ SendBuffered(r) \/ SendCancelled(r) \/ SendStreamHead(r) \/ SendFrame(r)
    \/ SendFails(r)

DartStep(r) ==
    \/ RetainBody(r) \/ StreamRead(r) \/ FinishBody(r) \/ ReleaseBody(r)
    \/ Respond(r) \/ ReleaseRequest(r) \/ OpenResponseStream(r)
    \/ WriteChunk(r) \/ FinishResponseStream(r)
    \/ StreamReadWaits(r) \/ StreamReadStep(r, 1)

HttpNext ==
    \/ PeerOpens \/ PeerSendsByte \/ PeerLeaves
    \/ Http1Step \/ AcceptRequest \/ AcceptEnds
    \/ \E r \in Requests : Http1BodyStep(r)
    \/ \E r \in Requests : BodyStep(r)
    \/ \E r \in Requests : SendStep(r)
    \/ \E r \in Requests : DartStep(r)
    \/ PollRequest \/ CloseConnection

HttpSpec == HttpInit /\ [][HttpNext]_httpVars

-----------------------------------------------------------------------------
BodyOK(b) ==
    /\ b.use \in Uses /\ b.told \in {"nothing", "end", "error"}
    /\ \A i \in DOMAIN b.queue : b.queue[i] # <<>>
    /\ b.error => b.finished

\* Types, and the owner of the read half: a reader task has it exactly while it
\* runs, and the HTTP/1 task reads only when it has it (serve_http_connection,
\* run_http1_stream_reader).
HttpTypeOK ==
    /\ proto \in {"http1", "http2", "http3"}
    /\ serve.at \in {"read", "inline", "handle", "route", "await", "reclaim", "ended"}
    /\ half \in {"serve", "body", "returned", "gone"}
    /\ \A r \in Requests :
         /\ BodyOK(body[r])
         /\ resp[r] \in {"none", "queued", "polled", "buffered", "streaming",
                          "chunks", "dropped", "sent", "failed"}
         /\ Len(stream[r].queue) <= StreamBuffer
         /\ ~Mux /\ readers[r].on => half = "body"
    /\ At("read") \/ At("inline") => half = "serve"

Seen(b) == b.got \o FlattenSeq(b.queue)
Prefix(r, n) == [i \in 1..n |-> Byte(r, i)]

\* The body Dart reads is the request's own bytes in their order, never a byte
\* of the next pipelined request nor a gap, and a body whose end is reported
\* without an error is whole - unless Dart itself asked for the end early
\* (http_body.rs, read_http_request_with_options, the HTTP/2 and HTTP/3
\* readers).
BodiesWhole ==
    \A r \in Requests :
      LET seen == Seen(body[r]) IN
      /\ seen = Prefix(r, Len(seen))
      /\ body[r].told = "end" /\ ~body[r].asked =>
           Len(seen) = IF len[r] # Unknown THEN len[r] ELSE incoming[r].sent

BeginsAnswer(o) == o[2] \in {-2, -1}

\* On a lane responses leave in the order of the requests, no request has two,
\* and a streamed one is not followed by another before its terminator (the
\* keep-alive loop of serve_http_connection, spawn_http_response).
AnswersInOrder ==
    \A l \in Requests : \A i, j \in DOMAIN out[l] :
      LET a == out[l][i]
          b == out[l][j]
      IN  /\ i < j => a[1] <= b[1]
          /\ BeginsAnswer(a) /\ BeginsAnswer(b) /\ a[1] = b[1] => i = j
          /\ a = Opening(a[1]) /\ b[1] > a[1] =>
               \E k \in i..j : out[l][k] = <<a[1], Finished>>

\* A streamed response has its terminator only behind every chunk whose write
\* Dart was told had succeeded, in their order (http_stream.rs,
\* write_http1_chunked_response and its counterparts).
TerminatedWhole ==
    \A r \in Requests : \A k \in DOMAIN out[Lane(r)] : out[Lane(r)][k] = <<r, Finished>> =>
      LET first == k - stream[r].made - 1 IN
      /\ first > 0 /\ out[Lane(r)][first] = Opening(r)
      /\ \A i \in 1..stream[r].made : out[Lane(r)][first + i] = <<r, i>>
      /\ \A i \in DOMAIN out[Lane(r)] : out[Lane(r)][i][1] = r => i \in first..k

\* An HTTP/2 or HTTP/3 connection ends with one event, unless Dart closed it
\* first, and the event carries the first reason recorded
\* (finish_http_connection, set_close_reason).
OneEvent ==
    [][/\ Len(events') <= 1
       /\ events' # events => registered.present /\ ~registered'.present
       /\ registered.present /\ ~registered'.present /\ serve' # serve => events' # events
       /\ stats.reason # "none" => stats'.reason = stats.reason
       /\ events' # events /\ stats.reason # "none" =>
            events'[1].reason = stats.reason]_httpVars

\* A Dart thread that sleeps inside ct_http_body_stream_read has something to
\* wait for: no chunk, completion, error or timeout was lost between its look
\* at the queue and its wait, and a reader that can still end the body runs
\* (take_slice, mark_finished, the exits of the three readers); and the queues
\* and channels keep their bounds (HttpTypeOK).
SleepersAwaited ==
    /\ HttpTypeOK
    /\ \A r \in Requests : body[r].use = "asleep" =>
          body[r].queue = <<>> /\ ~body[r].finished /\ readers[r].on

(* The client can read what it is sent: answers follow each other in the   *)
(* order of the requests, one each, and a stream that was terminated       *)
(* carries every chunk Dart wrote (send_http_dispatch,                     *)
(* write_http1_chunked_response, send_http2_response_from_dispatch).       *)
AnswersWhole == AnswersInOrder /\ TerminatedWhole
=============================================================================
