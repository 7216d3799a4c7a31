----------------------------- MODULE VirtQueue -----------------------------
(***************************************************************************)
(* Requests to a virtio device: block_read_write (src/src/block.c),        *)
(* rng_fill_poll (rng.c) and gpu_request_poll (gpu.c) with the interrupt   *)
(* handler of each.  The console on hart 0 submits a request and may poll  *)
(* the device's ring for its completion; the device completes requests in  *)
(* any order; its interrupt runs on the same hart, between any two         *)
(* instructions of the console.                                            *)
(***************************************************************************)
EXTENDS Integers

CONSTANTS
    QueueSize,       \* common_config->queue_size
    IdxMod,          \* 2^16, at which the indices wrap; a multiple of QueueSize
    Drivers          \* the drivers looked at: "block", "rng", "gpu"

ASSUME QueueAssumption ==
    /\ QueueSize \in Nat \ {0} /\ IdxMod \in Nat \ {0} /\ IdxMod % QueueSize = 0
    /\ QueueSize >= 3 /\ Drivers \subseteq {"block", "rng", "gpu"}

VARIABLES
    driver,            \* whose queue this is; never changes
    requests_idx,      \* next free descriptor, before % queue_size
    chain_len,         \* descriptors chained from each first one
    outstanding,       \* first descriptors of the requests the device has
    device_idx,        \* vq->device->idx
    device_ring,       \* vq->device->ring[].id
    acknowledged_idx,
    queue_interrupt,   \* the device's isr bit: an interrupt is pending
    pc,                \* where the console is in block_read_write
    brq1_desc_idx,     \* its local variables
    lookahead_idx

device == <<outstanding, device_idx, device_ring>>
locals == <<pc, brq1_desc_idx, lookahead_idx>>
queue == <<driver, requests_idx, chain_len>>
vars == <<queue, device, acknowledged_idx, queue_interrupt, locals>>

Slots == 0 .. QueueSize - 1
NoRequest == -1     \* what an unused entry of the ring does not match

\* The entries of the device's ring from index i up to the device's index.
EntriesFrom(i) ==
    {device_ring[k % QueueSize] : k \in i .. i + ((device_idx - i) % IdxMod) - 1}

\* Bound on the delay of the device: a request is completed and acknowledged
\* before requests_idx has gone round to its descriptors again.  The code
\* relies on it and does not check it.
Chain(d, len) == {(d + c) % QueueSize : c \in 0 .. len - 1}
DescriptorsFree(d, len) ==
    \A o \in outstanding \union EntriesFrom(acknowledged_idx) :
       Chain(o, chain_len[o]) \intersect Chain(d, len) = {}

Init ==
    /\ driver \in Drivers
    /\ requests_idx = 0
    /\ chain_len = [s \in Slots |-> 1]
    /\ outstanding = {}
    /\ device_idx = 0
    /\ device_ring = [s \in Slots |-> NoRequest]
    /\ acknowledged_idx = 0
    /\ queue_interrupt = FALSE
    /\ pc = "idle"
    /\ brq1_desc_idx = NoRequest
    /\ lookahead_idx = 0

\* A uint16_t, incremented once for each descriptor.
AdvancedIdx(len) == (requests_idx + len) % IdxMod

\* A request of len descriptors: they are filled in, the first one is put into
\* the driver ring and the device is told.
Notified(len, then) ==
    LET d == requests_idx % QueueSize
    IN /\ pc = "idle"
       /\ DescriptorsFree(d, len)
       /\ outstanding' = outstanding \union {d}
       /\ brq1_desc_idx' = d
       /\ chain_len' = [s \in Slots |-> IF s = d THEN len ELSE IF s \in Chain(d, len) THEN 1
                                         ELSE chain_len[s]]
       /\ requests_idx' = AdvancedIdx(len)
       /\ pc' = then
       /\ UNCHANGED <<driver, device_idx, device_ring, acknowledged_idx,
                      queue_interrupt, lookahead_idx>>

\* block_read_write up to the notification: request block, buffer and status.
\* Without do_poll the call is over.
block_read_write(do_poll) ==
    driver = "block" /\ Notified(3, IF do_poll THEN "notified" ELSE "idle")

\* rng_fill_poll: the buffer alone.
rng_fill_poll == driver = "rng" /\ Notified(1, "notified")

\* gpu_request_poll: request, data if there are any, response.
gpu_request_poll(data) ==
    driver = "gpu" /\ Notified(IF data THEN 3 ELSE 2, "notified")

\* lookahead_idx = acknowledged_idx, after the notification
Snapshot ==
    /\ pc = "notified"
    /\ lookahead_idx' = acknowledged_idx
    /\ pc' = "poll"
    /\ UNCHANGED <<queue, device, acknowledged_idx, queue_interrupt, brq1_desc_idx>>

\* The test of the polling loop, and the entry it looks at.
NewEntry_Unchecked == TRUE
NewEntry == lookahead_idx # device_idx
Looked_Next == device_ring[(lookahead_idx + 1) % QueueSize]
Looked == device_ring[lookahead_idx % QueueSize]

\* One round of the polling loop that finds a new entry in the ring.  Only the
\* block driver's lookahead_idx is an int, which does not wrap with the indices.
PollStep ==
    /\ pc = "poll" /\ NewEntry
    /\ lookahead_idx' = IF driver = "block" THEN lookahead_idx + 1
                        ELSE (lookahead_idx + 1) % IdxMod
    /\ pc' = IF Looked = brq1_desc_idx THEN "idle" ELSE "poll"
    /\ UNCHANGED <<queue, device, acknowledged_idx, queue_interrupt, brq1_desc_idx>>

\* The device completes one of its requests and raises its interrupt.
Complete(d) ==
    /\ d \in outstanding
    /\ outstanding' = outstanding \ {d}
    /\ device_ring' = [device_ring EXCEPT ![device_idx % QueueSize] = d]
    /\ device_idx' = (device_idx + 1) % IdxMod
    /\ queue_interrupt' = TRUE
    /\ UNCHANGED <<queue, acknowledged_idx, locals>>

\* Reading the isr bit clears it, and every completion up to now is
\* acknowledged.  A request the device completes while the handler runs is as
\* one completed just before; the interrupt it raises finds nothing left to do.
Acknowledged ==
    /\ queue_interrupt
    /\ queue_interrupt' = FALSE
    /\ acknowledged_idx' = device_idx
    /\ UNCHANGED <<queue, device, locals>>

block_irq_handler == driver = "block" /\ Acknowledged
rng_irq_handler == driver = "rng" /\ Acknowledged
\* Without a change of the display, which Devices models.
gpu_irq_handler == driver = "gpu" /\ Acknowledged

Irq == block_irq_handler \/ rng_irq_handler \/ gpu_irq_handler

Next ==
    \/ \E do_poll \in BOOLEAN : block_read_write(do_poll)
    \/ rng_fill_poll
    \/ \E data \in BOOLEAN : gpu_request_poll(data)
    \/ Snapshot \/ PollStep
    \/ \E d \in Slots : Complete(d)
    \/ Irq

Spec == Init /\ [][Next]_vars

\* The hart executes, the device serves every request it has, and a pending
\* interrupt is taken.  Nobody has to make requests.
Fairness ==
    /\ WF_vars(Snapshot) /\ WF_vars(PollStep) /\ WF_vars(Irq)
    /\ \A d \in Slots : WF_vars(Complete(d))

FairSpec == Spec /\ Fairness
----------------------------------------------------------------------------
(* Properties *)

\* Type invariant of the queue.
TypeOK ==
    /\ driver \in Drivers
    /\ requests_idx \in 0 .. IdxMod - 1
    /\ chain_len \in [Slots -> 1 .. 3]
    /\ outstanding \subseteq Slots
    /\ device_idx \in 0 .. IdxMod - 1
    /\ device_ring \in [Slots -> Slots \union {NoRequest}]
    /\ acknowledged_idx \in 0 .. IdxMod - 1
    /\ queue_interrupt \in BOOLEAN
    /\ pc \in {"idle", "notified", "poll"}
    /\ brq1_desc_idx \in Slots \union {NoRequest}
    /\ lookahead_idx \in Nat

\* The block driver's int has been counted past the end of the 16-bit indices:
\* it compares unequal to every index and walks over old entries.
PastEnd == lookahead_idx >= IdxMod

\* The entries from index i on that the device has written are requests it has
\* given back, each once: none is outstanding again, none was overwritten.
FreshFrom(i) ==
    \A k \in i .. i + ((device_idx - i) % IdxMod) - 1 :
       /\ device_ring[k % QueueSize] \in Slots \ outstanding
       /\ \A l \in i .. k - 1 : device_ring[l % QueueSize] # device_ring[k % QueueSize]

\* The entries that the interrupt handler has still to acknowledge, and those
\* that the polling loop has still to look at, are requests the device has given
\* back, each once, although descriptors are reused, completions come in any
\* order and the handler runs ahead of the loop.
RingFresh ==
    /\ FreshFrom(acknowledged_idx)
    /\ pc = "poll" /\ ~PastEnd => FreshFrom(lookahead_idx)

\* A polled request that returns was completed by the device: the buffer holds
\* the data, and the request block that is freed next is no longer in use,
\* although the ring keeps old entries with the same descriptor numbers.  The
\* one exception is a block request whose int has run past the 16-bit indices.
PollSeesCompletion ==
    [][pc = "poll" /\ pc' = "idle" /\ ~PastEnd => brq1_desc_idx \notin outstanding]_vars

\* A poll that started from an index at or before its completion finds it,
\* whatever other requests complete and however far interrupts acknowledge
\* the ring in the meantime, with the same exception.
PollFindsCompletion ==
    (pc = "poll" /\ brq1_desc_idx \in outstanding \union EntriesFrom(lookahead_idx))
       ~> (pc = "idle" \/ PastEnd)

\* The safety half: the completion a poll waits for, once it is still to come or
\* in front of the loop, stays so until the loop returns; the device's later
\* completions never overwrite it and the loop never steps over it.
CompletionNotMissed ==
    [][pc = "poll" /\ brq1_desc_idx \in outstanding \union EntriesFrom(lookahead_idx)
         => \/ pc' = "idle" \/ PastEnd'
            \/ (brq1_desc_idx \in outstanding \union EntriesFrom(lookahead_idx))']_vars

\* "poll if asked" (block.c:288): a polled request returns.
PollReturns == pc \in {"notified", "poll"} ~> pc = "idle"
=============================================================================
