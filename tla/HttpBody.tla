------------------------------ MODULE HttpBody ------------------------------
(***************************************************************************)
(* The streaming request body shared by a native reader task and a Dart    *)
(* thread (ct_core/src/http_body.rs): chunks under a mutex, a condition    *)
(* variable, and flags outside the mutex.  A byte is any value; a chunk is *)
(* a non-empty sequence of bytes.                                          *)
(*                                                                         *)
(* The field "use" is where the Dart thread is in take_slice: "idle" (no   *)
(* call), "check" (called or woken, about to take the mutex), "locked"     *)
(* (saw nothing to return and still holds the mutex), "asleep" (waits on   *)
(* the condition variable, the mutex released).                            *)
(***************************************************************************)
EXTENDS Naturals, Sequences

Uses == {"idle", "check", "locked", "asleep"}

NewBody ==
    [queue |-> <<>>, finished |-> FALSE, error |-> FALSE, asked |-> FALSE,
     use |-> "idle", got |-> <<>>, told |-> "nothing"]

\* HttpBodyHandle::from_inline: the whole body is there with the request.
InlineBody(bytes) ==
    [NewBody EXCEPT !.got = bytes, !.finished = TRUE, !.told = "end"]

\* Condvar::notify_all; a thread that is not asleep yet is not woken.
Notified(use) == IF use = "asleep" THEN "check" ELSE use

Unlocked(b) == b.use # "locked"

\* enqueue_bytes; the caller holds the mutex, so it needs Unlocked(b).
EnqueueBytes(b, bytes) ==
    IF bytes = <<>> THEN b
    ELSE [b EXCEPT !.queue = Append(@, bytes), !.use = Notified(@)]

\* request_finish takes no mutex.
RequestFinish(b) == [b EXCEPT !.asked = TRUE, !.use = Notified(@)]

\* Mistake for the runs to notice: completion that wakes nobody.
MarkFinishedSilently(b) == [b EXCEPT !.finished = TRUE]

\* mark_finished and mark_error, which hold the mutex while they notify.
MarkFinished(b) == [b EXCEPT !.finished = TRUE, !.use = Notified(@)]

MarkError(b) == [MarkFinished(b) EXCEPT !.error = TRUE]

\* One pass of take_slice's loop, from the mutex taken to a return or to the
\* decision to wait: at most n bytes of the first chunk, or how the body ended.
TakeSlice(b, n) ==
    IF b.queue # <<>>
    THEN LET chunk == Head(b.queue)
             wanted == IF n > 1 THEN n ELSE 1
             size == IF wanted < Len(chunk) THEN wanted ELSE Len(chunk)
             rest == SubSeq(chunk, size + 1, Len(chunk))
         IN  [b EXCEPT !.got = @ \o SubSeq(chunk, 1, size),
                       !.queue = IF rest = <<>> THEN Tail(@)
                                 ELSE <<rest>> \o Tail(@),
                       !.use = "idle"]
    ELSE IF b.finished
    THEN [b EXCEPT !.told = IF b.error THEN "error" ELSE "end", !.use = "idle"]
    ELSE [b EXCEPT !.use = "locked"]

\* Condvar::wait releases the mutex and sleeps.
Sleep(b) == [b EXCEPT !.use = "asleep"]

=============================================================================
