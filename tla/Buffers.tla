------------------------------ MODULE Buffers ------------------------------
(***************************************************************************)
(* Memory that crosses the FFI boundary without a copy: loans of native    *)
(* producers (external_leases.rs, external_lease_ffi.rs), the handles of   *)
(* frozen buffers (owned_buffers.rs), frames composed of them              *)
(* (native_frames.rs), and the connection's outbound queue and writer that *)
(* hold them last (ct_core lib.rs).                                        *)
(*                                                                         *)
(* An allocation is a producer's token, or heap, which stands for the      *)
(* library's own allocations (they have no callback).  A buffer's range is *)
(* nonempty or empty: the writer's Bytes of an empty range keeps nothing   *)
(* alive.  Handles are never recycled, so a table is a function on the ids *)
(* handed out so far.                                                      *)
(***************************************************************************)
EXTENDS Naturals, Sequences, FiniteSets, SequencesExt, FiniteSetsExt

CONSTANTS Owner,        (* producers' LeaseOwners                            *)
          Token,        (* their resource references                         *)
          Home,         (* the owner a token belongs to                      *)
          Size,         (* bytes of a token's span                           *)
          MaxOwners,    (* MAX_REGISTERED_OWNERS                             *)
          MaxBytes,     (* LeaseLimits.bytes                                 *)
          MaxLeases,    (* LeaseLimits.leases                                *)
          MaxHandle,    (* the last buffer handle (i32::MAX)                 *)
          MaxFrame,     (* the last frame handle (i32::MAX)                  *)
          MaxFrames,    (* MAX_HANDLES, frames at a time                     *)
          Capacity,     (* outbound_send_queue_capacity                      *)
          MaxViews,     (* bound: exported views of an allocation            *)
          LastHeap,     (* bound: the last handle ct_owned_buffer_allocate   *)
                        (* gives out                                         *)
          Links,        (* the connection's transport and serializer         *)
          heap, None

ASSUME BuffersAssumption ==
    /\ IsFiniteSet(Owner) /\ IsFiniteSet(Token)
    /\ Home \in [Token -> Owner] /\ Size \in [Token -> Nat]
    /\ heap \notin Token
    /\ {MaxOwners, MaxBytes, MaxLeases, MaxHandle, MaxFrame, MaxFrames,
        Capacity, MaxViews, LastHeap} \subseteq Nat
    /\ Links \subseteq {"RawSocket", "WebSocket"} \X {"Flatbuffers", "Cbor"}

Alloc == Token \cup {heap}
Handle == 1..MaxHandle
FrameHandle == 1..MaxFrame

VARIABLES owners,       (* OwnerRegistry.owners                              *)
          made,         (* owners ever created                               *)
          bytes, leases, releases, closing, dispatching,  (* State           *)
          calling,      (* the token whose callback runs, outside the mutex  *)
          reg,          (* register_with at work on the owner's thread       *)
          token,        (* "producer", "lent", "returned"                    *)
          next,         (* BufferStore.next                                  *)
          storage,      (* BufferStore.entries: the state of a slot ...      *)
          alloc,        (* ... its allocation ...                            *)
          nonempty,     (* ... and whether its range has bytes               *)
          views,        (* exported Frozen boxes of a token's span           *)
          frameNext,    (* FrameStore.next                                   *)
          frameCount,   (* FrameStore.count                                  *)
          frames,       (* FrameStore.entries                                *)
          link,         (* the connection's                                  *)
          open,         (* the connection has its registry entry             *)
          queue,        (* send_rx                                           *)
          writing       (* the frame the writer has in hand                  *)

leaseVars == <<bytes, leases, releases, closing, dispatching, calling>>
ownerVars == <<owners, made>>
slotVars == <<next, storage, alloc, nonempty>>
frameVars == <<frameNext, frameCount, frames>>
connVars == <<link, open>>

transport == link[1]
serializer == link[2]
outVars == <<queue, writing>>
vars == <<owners, made, bytes, leases, releases, closing, dispatching, calling,
          reg, token, next, storage, alloc, nonempty, views, frameNext,
          frameCount, frames, link, open, queue, writing>>

(* A Frame keeps its control buffer and every application buffer; its      *)
(* segments are the allocations behind the nonempty ranges, in order.      *)
Frame == [control : Alloc, owners : SUBSET Alloc, segments : Seq(SUBSET Alloc)]
NoReg == [stage |-> "none"]
Registration == [stage : {"reserved", "admitted"}, token : Token,
                 handle : Handle, nonempty : BOOLEAN]
(* An OutboundFrame: the allocations it was made of and what the Bytes of  *)
(* each segment keeps alive; in the writer's hands, the segment it is at.  *)
Outbound == [owners : SUBSET Alloc, segments : Seq(SUBSET Alloc)]
Writing == [owners : SUBSET Alloc, segments : Seq(SUBSET Alloc), at : Nat]

(* What is not there is told apart from a token and from either record.    *)
ASSUME NoneAssumption == None \notin Token /\ None \notin Frame /\ None \notin Writing

TypeOK ==
    /\ owners \subseteq made /\ made \subseteq Owner
    /\ bytes \in [Owner -> Nat] /\ leases \in [Owner -> Nat]
    /\ releases \in [Owner -> Seq(Token)]
    /\ closing \in [Owner -> BOOLEAN] /\ dispatching \in [Owner -> BOOLEAN]
    /\ calling \in [Owner -> Token \cup {None}]
    /\ reg \in [Owner -> Registration \cup {NoReg}]
    /\ token \in [Token -> {"producer", "lent", "returned"}]
    /\ next \in 1..(MaxHandle + 1)
    /\ storage \in [Handle -> {"None", "Reserved", "Mutable", "Frozen"}]
    /\ alloc \in [Handle -> Alloc] /\ nonempty \in [Handle -> BOOLEAN]
    /\ views \in [Token -> 0..MaxViews]
    /\ frameNext \in 1..(MaxFrame + 1) /\ frameCount \in 0..MaxFrames
    /\ frames \in [FrameHandle -> Frame \cup {None}]
    /\ link \in Links
    /\ open \in BOOLEAN
    /\ queue \in Seq(Outbound)
    /\ writing \in Writing \cup {None}

Init ==
    /\ owners = {} /\ made = {}
    /\ bytes = [o \in Owner |-> 0] /\ leases = [o \in Owner |-> 0]
    /\ releases = [o \in Owner |-> <<>>]
    /\ closing = [o \in Owner |-> FALSE]
    /\ dispatching = [o \in Owner |-> FALSE]
    /\ calling = [o \in Owner |-> None]
    /\ reg = [o \in Owner |-> NoReg]
    /\ token = [t \in Token |-> "producer"]
    /\ next = 1
    /\ storage = [h \in Handle |-> "None"]
    /\ alloc = [h \in Handle |-> heap]
    /\ nonempty = [h \in Handle |-> FALSE]
    /\ views = [t \in Token |-> 0]
    /\ frameNext = 1 /\ frameCount = 0
    /\ frames = [f \in FrameHandle |-> None]
    /\ link \in Links
    /\ open = TRUE
    /\ queue = <<>> /\ writing = None
-----------------------------------------------------------------------------
(* Who keeps an allocation alive.                                          *)
InSlot(a) == \E h \in Handle : storage[h] = "Frozen" /\ alloc[h] = a
InFrame(a) == \E f \in FrameHandle : frames[f] # None /\ a \in frames[f].owners
InQueue(a) == \E i \in DOMAIN queue : a \in UNION Range(queue[i].segments)
InWriter(a) == writing # None /\ a \in UNION Range(writing.segments)
InRegistration(a) == \E o \in Owner : reg[o].stage = "admitted" /\ reg[o].token = a
Referenced(t) ==
    InSlot(t) \/ views[t] > 0 \/ InFrame(t) \/ InQueue(t) \/ InWriter(t)
        \/ InRegistration(t)

(* Mutant of DropLoans: the release goes out with the last handle, though  *)
(* a view, a frame or a queued write still has the span.                   *)
DropLoansByHandle ==
    releases' = [o \in Owner |->
        releases[o] \o SetToSeq({t \in Token : /\ Home[t] = o
                                               /\ InSlot(t) /\ ~InSlot(t)'})]

(* ExternalLoan::drop: the last reference queues the release with the      *)
(* owner; it never runs the callback itself.  A conjunct of every action   *)
(* that may drop a reference.                                              *)
DropLoans ==
    releases' = [o \in Owner |->
        releases[o] \o SetToSeq({t \in Token : /\ Home[t] = o
                                               /\ Referenced(t) /\ ~Referenced(t)'})]
-----------------------------------------------------------------------------
(* The producer's thread: what it calls by itself or from a callback, and  *)
(* the steps of the call it is in.                                         *)
OnThread(o) == reg[o] = NoReg
MayCall(o) == OnThread(o) /\ (dispatching[o] => calling[o] # None)

(* ct_external_owner_create                                                *)
CreateOwner(o) ==
    /\ o \notin made /\ Cardinality(owners) < MaxOwners /\ MaxLeases > 0
    /\ owners' = owners \cup {o} /\ made' = made \cup {o}
    /\ UNCHANGED <<leaseVars, reg, token, slotVars, views, frameVars, connVars, outVars>>

(* ct_external_owner_close: admission ends even when the answer is Busy.   *)
CloseOwner(o) ==
    /\ o \in owners /\ MayCall(o)
    /\ closing' = [closing EXCEPT ![o] = TRUE]
    /\ UNCHANGED <<ownerVars, bytes, leases, releases, dispatching, calling,
                   reg, token, slotVars, views, frameVars, connVars, outVars>>

(* Mutant of DestroyOwner: only the queued releases hold it back.          *)
DestroyOwnerWhenQueueEmpty(o) ==
    /\ o \in owners /\ MayCall(o)
    /\ closing' = [closing EXCEPT ![o] = TRUE]
    /\ owners' = IF releases[o] = <<>> THEN owners \ {o} ELSE owners
    /\ UNCHANGED <<made, bytes, leases, releases, dispatching, calling,
                   reg, token, slotVars, views, frameVars, connVars, outVars>>

(* ct_external_owner_destroy: close, then removal if nothing is on loan.   *)
DestroyOwner(o) ==
    /\ o \in owners /\ MayCall(o)
    /\ closing' = [closing EXCEPT ![o] = TRUE]
    /\ owners' = IF leases[o] = 0 THEN owners \ {o} ELSE owners
    /\ UNCHANGED <<made, bytes, leases, releases, dispatching, calling,
                   reg, token, slotVars, views, frameVars, connVars, outVars>>

(* register_with: the slot first, so that nothing is consumed when there   *)
(* is none ...                                                             *)
RegisterReserve(o, t, ne) ==
    /\ o \in owners /\ MayCall(o) /\ Home[t] = o /\ token[t] = "producer"
    /\ ne => Size[t] > 0
    /\ next <= MaxHandle
    /\ storage' = [storage EXCEPT ![next] = "Reserved"]
    /\ next' = next + 1
    /\ reg' = [reg EXCEPT ![o] = [stage |-> "reserved", token |-> t,
                                  handle |-> next, nonempty |-> ne]]
    /\ UNCHANGED <<ownerVars, leaseVars, token, alloc, nonempty, views,
                   frameVars, connVars, outVars>>

Admissible(o, t) ==
    ~closing[o] /\ bytes[o] + Size[t] <= MaxBytes /\ leases[o] # MaxLeases

(* ... then the loan, LeaseOwner::admit, or the slot is given back ...     *)
RegisterAdmit(o) ==
    /\ reg[o].stage = "reserved"
    /\ LET t == reg[o].token IN
       IF Admissible(o, t)
       THEN /\ bytes' = [bytes EXCEPT ![o] = @ + Size[t]]
            /\ leases' = [leases EXCEPT ![o] = @ + 1]
            /\ token' = [token EXCEPT ![t] = "lent"]
            /\ reg' = [reg EXCEPT ![o].stage = "admitted"]
            /\ UNCHANGED storage
       ELSE /\ storage' = [storage EXCEPT ![reg[o].handle] = "None"]
            /\ reg' = [reg EXCEPT ![o] = NoReg]
            /\ UNCHANGED <<bytes, leases, token>>
    /\ UNCHANGED <<ownerVars, releases, closing, dispatching, calling, next,
                   alloc, nonempty, views, frameVars, connVars, outVars>>

(* ... and FrozenReservation::commit publishes it.                         *)
RegisterCommit(o) ==
    /\ reg[o].stage = "admitted"
    /\ LET h == reg[o].handle IN
       /\ storage' = [storage EXCEPT ![h] = "Frozen"]
       /\ alloc' = [alloc EXCEPT ![h] = reg[o].token]
       /\ nonempty' = [nonempty EXCEPT ![h] = reg[o].nonempty]
    /\ reg' = [reg EXCEPT ![o] = NoReg]
    /\ UNCHANGED <<ownerVars, leaseVars, token, next, views, frameVars,
                   connVars, outVars>>

(* dispatch: refused while it is at work ...                               *)
DispatchBegin(o) ==
    /\ o \in owners /\ OnThread(o) /\ ~dispatching[o]
    /\ dispatching' = [dispatching EXCEPT ![o] = TRUE]
    /\ UNCHANGED <<ownerVars, bytes, leases, releases, closing, calling, reg,
                   token, slotVars, views, frameVars, connVars, outVars>>

(* ... a release is popped and its callback runs without the mutex ...     *)
DispatchCall(o) ==
    /\ dispatching[o] /\ OnThread(o) /\ calling[o] = None /\ releases[o] # <<>>
    /\ calling' = [calling EXCEPT ![o] = Head(releases[o])]
    /\ token' = [token EXCEPT ![Head(releases[o])] = "returned"]
    /\ releases' = [releases EXCEPT ![o] = Tail(@)]
    /\ UNCHANGED <<ownerVars, bytes, leases, closing, dispatching, reg,
                   slotVars, views, frameVars, connVars, outVars>>

(* Mutant of DispatchReturn: the bytes are given back, the lease is not.   *)
DispatchReturnKeepsLease(o) ==
    /\ calling[o] # None /\ OnThread(o)
    /\ bytes' = [bytes EXCEPT ![o] = @ - Size[calling[o]]]
    /\ calling' = [calling EXCEPT ![o] = None]
    /\ UNCHANGED <<ownerVars, leases, releases, closing, dispatching, reg, token,
                   slotVars, views, frameVars, connVars, outVars>>

(* ... and the quota is given back only when it has returned.              *)
DispatchReturn(o) ==
    /\ calling[o] # None /\ OnThread(o)
    /\ bytes' = [bytes EXCEPT ![o] = @ - Size[calling[o]]]
    /\ leases' = [leases EXCEPT ![o] = @ - 1]
    /\ calling' = [calling EXCEPT ![o] = None]
    /\ UNCHANGED <<ownerVars, releases, closing, dispatching, reg, token,
                   slotVars, views, frameVars, connVars, outVars>>

(* The maximum is reached or the queue is empty: DispatchGuard::drop.      *)
DispatchEnd(o) ==
    /\ dispatching[o] /\ OnThread(o) /\ calling[o] = None
    /\ dispatching' = [dispatching EXCEPT ![o] = FALSE]
    /\ UNCHANGED <<ownerVars, bytes, leases, releases, closing, calling, reg,
                   token, slotVars, views, frameVars, connVars, outVars>>

ProducerNext(o) ==
    \/ CreateOwner(o) \/ CloseOwner(o) \/ DestroyOwner(o)
    \/ \E t \in Token, ne \in BOOLEAN : RegisterReserve(o, t, ne)
    \/ RegisterAdmit(o) \/ RegisterCommit(o)
    \/ DispatchBegin(o) \/ DispatchCall(o) \/ DispatchReturn(o) \/ DispatchEnd(o)
-----------------------------------------------------------------------------
(* Buffer handles, from any thread.                                        *)
IsFrozen(h) == storage[h] = "Frozen"

(* An entry is removed: what it held is dropped with it.                   *)
RemoveSlot(h) ==
    /\ storage' = [storage EXCEPT ![h] = "None"]
    /\ alloc' = [alloc EXCEPT ![h] = heap]
    /\ nonempty' = [nonempty EXCEPT ![h] = FALSE]
    /\ UNCHANGED next

(* Mutant of Insert: the lowest free id is used again.                     *)
InsertRecycled(kind, a, ne) ==
    \E h \in Handle :
        /\ storage[h] = "None" /\ \A g \in Handle : g < h => storage[g] # "None"
        /\ storage' = [storage EXCEPT ![h] = kind]
        /\ alloc' = [alloc EXCEPT ![h] = a]
        /\ nonempty' = [nonempty EXCEPT ![h] = ne]
        /\ next' = IF h < next THEN next ELSE h + 1

(* BufferStore::insert of a buffer: the next id, never one used before.    *)
Insert(kind, a, ne) ==
    /\ next <= MaxHandle
    /\ storage' = [storage EXCEPT ![next] = kind]
    /\ alloc' = [alloc EXCEPT ![next] = a]
    /\ nonempty' = [nonempty EXCEPT ![next] = ne]
    /\ next' = next + 1

(* ct_owned_buffer_allocate                                                *)
Allocate ==
    /\ next <= LastHeap
    /\ Insert("Mutable", heap, TRUE)
    /\ UNCHANGED <<ownerVars, leaseVars, reg, token, views, frameVars, connVars, outVars>>

(* ct_owned_buffer_freeze: of any range of a mutable buffer.               *)
Freeze(h, ne) ==
    /\ storage[h] = "Mutable"
    /\ storage' = [storage EXCEPT ![h] = "Frozen"]
    /\ nonempty' = [nonempty EXCEPT ![h] = ne]
    /\ UNCHANGED <<ownerVars, leaseVars, reg, token, next, alloc, views,
                   frameVars, connVars, outVars>>

(* ct_owned_buffer_slice: another handle of the same allocation, whose     *)
(* range is within the first one's.                                        *)
Slice(h, ne) ==
    /\ IsFrozen(h) /\ (ne => nonempty[h])
    /\ Insert("Frozen", alloc[h], ne)
    /\ UNCHANGED <<ownerVars, leaseVars, reg, token, views, frameVars, connVars, outVars>>

(* ct_owned_buffer_release and the handle's finalizer, in any order and    *)
(* more than once; a reserved slot is not there for them.                  *)
ReleaseHandle(h) ==
    /\ storage[h] \in {"Mutable", "Frozen"} /\ RemoveSlot(h)
    /\ UNCHANGED <<ownerVars, bytes, leases, closing, dispatching, calling, reg,
                   token, views, frameVars, connVars, outVars>>
    /\ DropLoans

(* ct_owned_buffer_export: the view owns the allocation by itself ...      *)
Export(h) ==
    /\ IsFrozen(h) /\ alloc[h] # heap /\ views[alloc[h]] < MaxViews
    /\ views' = [views EXCEPT ![alloc[h]] = @ + 1]
    /\ UNCHANGED <<ownerVars, leaseVars, reg, token, slotVars, frameVars, connVars, outVars>>

(* ... until its finalizer.                                                *)
ViewFinalizer(t) ==
    /\ views[t] > 0
    /\ views' = [views EXCEPT ![t] = @ - 1]
    /\ UNCHANGED <<ownerVars, bytes, leases, closing, dispatching, calling, reg,
                   token, slotVars, frameVars, connVars, outVars>>
    /\ DropLoans

BufferNext ==
    \/ Allocate
    \/ \E h \in Handle : ReleaseHandle(h) \/ Export(h)
    \/ \E h \in Handle, ne \in BOOLEAN : Freeze(h, ne) \/ Slice(h, ne)
    \/ \E t \in Token : ViewFinalizer(t)
-----------------------------------------------------------------------------
(* Frames.                                                                 *)
Kept(h) == IF nonempty[h] THEN {alloc[h]} ELSE {}

FrameOf(hs) ==
    [control |-> alloc[hs[1]],
     owners |-> {alloc[hs[i]] : i \in DOMAIN hs},
     segments |-> [i \in DOMAIN hs |-> Kept(hs[i])]]

(* Mutant of Submission: the segments alone, without the frame.            *)
SubmissionUnanchored(f) == [owners |-> f.owners, segments |-> f.segments]

(* Frame::submission anchors the whole frame on its first nonempty segment.*)
Submission(f) ==
    LET nonemptyAt == {i \in DOMAIN f.segments : f.segments[i] # {}}
    IN  [owners |-> f.owners,
         segments |-> [f.segments EXCEPT ![Min(nonemptyAt)] = f.owners]]

(* FrameStore::insert                                                      *)
InsertFrame(f) ==
    /\ frameCount < MaxFrames /\ frameNext <= MaxFrame
    /\ frames' = [frames EXCEPT ![frameNext] = f]
    /\ frameNext' = frameNext + 1 /\ frameCount' = frameCount + 1

(* ct_native_frame_compose: control, and an application buffer; the inputs *)
(* stay.  An encoded control is never empty.                               *)
Compose(c, b) ==
    /\ IsFrozen(c) /\ IsFrozen(b) /\ nonempty[c]
    /\ InsertFrame(FrameOf(<<c, b>>))
    /\ UNCHANGED <<ownerVars, leaseVars, reg, token, slotVars, views, connVars, outVars>>

(* ct_native_frame_retain: a second handle of the same frame.              *)
RetainFrame(f) ==
    /\ frames[f] # None /\ InsertFrame(frames[f])
    /\ UNCHANGED <<ownerVars, leaseVars, reg, token, slotVars, views, connVars, outVars>>

TakeFrame(f) ==
    /\ frames[f] # None
    /\ frames' = [frames EXCEPT ![f] = None]
    /\ frameCount' = frameCount - 1
    /\ UNCHANGED frameNext

(* ct_native_frame_release and the finalizer                               *)
ReleaseFrame(f) ==
    /\ TakeFrame(f)
    /\ UNCHANGED <<ownerVars, bytes, leases, closing, dispatching, calling, reg,
                   token, slotVars, views, connVars, outVars>>
    /\ DropLoans

(* ct_native_frame_control: a buffer handle of the frame's control.        *)
FrameControl(f) ==
    /\ frames[f] # None /\ Insert("Frozen", frames[f].control, TRUE)
    /\ UNCHANGED <<ownerVars, leaseVars, reg, token, views, frameVars, connVars, outVars>>

(* enqueue_frame: refused without an entry and at capacity.                *)
Enqueue(frame) ==
    queue' = IF open /\ Len(queue) < Capacity THEN Append(queue, frame) ELSE queue

(* ct_native_frame_send(_tracked): the handle is consumed, whatever comes  *)
(* of it.                                                                  *)
SendFrame(f) ==
    /\ TakeFrame(f)
    /\ IF open /\ serializer = "Flatbuffers"
       THEN Enqueue(Submission(frames[f]))
       ELSE UNCHANGED queue
    /\ UNCHANGED <<ownerVars, bytes, leases, closing, dispatching, calling, reg,
                   token, slotVars, views, connVars, writing>>
    /\ DropLoans

(* ct_owned_buffer_send_segments: the inputs are borrowed.                 *)
SendSegments(h1, h2) ==
    /\ IsFrozen(h1) /\ IsFrozen(h2) /\ (nonempty[h1] \/ nonempty[h2])
    /\ Enqueue(Submission(FrameOf(<<h1, h2>>)))
    /\ UNCHANGED <<ownerVars, leaseVars, reg, token, slotVars, views, frameVars,
                   connVars, writing>>

(* ct_owned_buffer_send_tracked: the handle is consumed even on rejection; *)
(* the payload is the buffer's range.                                      *)
SendBuffer(h) ==
    /\ IsFrozen(h) /\ RemoveSlot(h)
    /\ Enqueue([owners |-> Kept(h), segments |-> <<Kept(h)>>])
    /\ UNCHANGED <<ownerVars, bytes, leases, closing, dispatching, calling, reg,
                   token, views, frameVars, connVars, writing>>
    /\ DropLoans

FrameNext ==
    \/ \E c, b \in Handle : Compose(c, b) \/ SendSegments(c, b)
    \/ \E h \in Handle : SendBuffer(h)
    \/ \E f \in FrameHandle :
          RetainFrame(f) \/ ReleaseFrame(f) \/ FrameControl(f) \/ SendFrame(f)
-----------------------------------------------------------------------------
(* The writer task.                                                        *)
writerUnchanged == <<ownerVars, bytes, leases, closing, dispatching, calling,
                     reg, token, slotVars, views, frameVars>>

WriterTakes ==
    /\ writing = None /\ queue # <<>>
    /\ writing' = [owners |-> Head(queue).owners, segments |-> Head(queue).segments,
                   at |-> 1]
    /\ queue' = Tail(queue)
    /\ UNCHANGED <<writerUnchanged, releases, connVars>>

(* The raw socket's writer moves the segments out of the frame and drops   *)
(* each once it is written; the WebSocket's borrows them.                  *)
WriterWrites ==
    /\ writing # None /\ writing.at <= Len(writing.segments)
    /\ writing' = [writing EXCEPT
                     !.at = @ + 1,
                     !.segments = IF transport = "RawSocket"
                                  THEN [@ EXCEPT ![writing.at] = {}] ELSE @]
    /\ UNCHANGED <<writerUnchanged, queue, connVars>>
    /\ DropLoans

(* Flushed: the frame is dropped.                                          *)
WriterFlushes ==
    /\ writing # None /\ writing.at > Len(writing.segments)
    /\ writing' = None
    /\ UNCHANGED <<writerUnchanged, queue, connVars>>
    /\ DropLoans

(* A failed write, an abort or a shutdown: the task and its channel go,    *)
(* and the connection's entry with them.                                   *)
ConnectionEnds ==
    /\ open
    /\ open' = FALSE /\ queue' = <<>> /\ writing' = None
    /\ UNCHANGED <<writerUnchanged, link>>
    /\ DropLoans

(* Another connection is accepted, after a restart of the runtime too: no  *)
(* store above is cleared by a shutdown.                                   *)
ConnectionBegins ==
    /\ ~open /\ open' = TRUE
    /\ UNCHANGED <<writerUnchanged, releases, link, outVars>>

WriterNext ==
    WriterTakes \/ WriterWrites \/ WriterFlushes \/ ConnectionEnds \/ ConnectionBegins

Next == (\E o \in Owner : ProducerNext(o)) \/ BufferNext \/ FrameNext \/ WriterNext

Spec == Init /\ [][Next]_vars

-----------------------------------------------------------------------------
OnLoan(o) == {t \in Token : Home[t] = o /\ token[t] = "lent"}
Charged(o) == OnLoan(o) \cup {t \in Token : calling[o] = t}

(* A lease is charged from its admission until its callback has returned,  *)
(* once each, so the quotas hold and the release queue, reserved once for  *)
(* MaxLeases, never grows (LeaseOwner::new, admit, dispatch).              *)
LeasesCharged ==
    \A o \in Owner :
        /\ leases[o] = Cardinality(Charged(o)) /\ leases[o] <= MaxLeases
        /\ bytes[o] = MapThenSumSet(LAMBDA t : Size[t], Charged(o)) /\ bytes[o] <= MaxBytes
        /\ Len(releases[o]) <= MaxLeases

(* An owner that is gone owes nothing: no loan of it is live, queued or in *)
(* its callback, so none can be left without a thread to return it         *)
(* (OwnerRegistry::destroy).                                               *)
OwnerOutlivesLoans ==
    \A o \in made \ owners : OnLoan(o) = {} /\ calling[o] = None

(* The frames' count, changed apart from their table, agrees with it: the  *)
(* quota neither leaks nor is passed (FrameStore::insert, take).           *)
FramesCounted == frameCount = Cardinality({f \in FrameHandle : frames[f] # None})

(* A handle once given back stays dead: a late finalizer or queued use     *)
(* never meets another buffer under its id (insert_resource).              *)
StaleHandleStaysDead ==
    [][\A h \in Handle : h < next /\ storage[h] = "None" => storage'[h] = "None"]_vars

(* The frame the writer has in hand keeps every allocation it came with    *)
(* until it is flushed or given up (native_frames.rs:39, 349-350).         *)
RetainedThroughFlush ==
    writing # None => \A a \in writing.owners : InWriter(a)

(* Which the WebSocket's writer keeps to.                                  *)
BorrowedThroughFlush == transport = "WebSocket" => RetainedThroughFlush

(* The promise to producers, with what the library can read for readable.  *)
Promise == INSTANCE Loans WITH held <- token,
                               readable <- {t \in Token : Referenced(t)}
LoansPromise == Promise!LoanSpec

(* The counters agree with the tables they summarise: the leases and bytes *)
(* charged to an owner, and the number of frames held (ExternalOwner,      *)
(* FrameStore), whichever of the two is updated first.                     *)
BooksBalance == TypeOK /\ LeasesCharged /\ FramesCounted
=============================================================================
