------------------------------ MODULE Devices ------------------------------
(***************************************************************************)
(* The interrupt driven devices while the system runs: plic.c and          *)
(* pcie_handle_irq, the input devices and their ring of events (input.c,   *)
(* ring.c) and the gpu (gpu.c), on top of what Pci has bound.              *)
(*                                                                         *)
(* Three actors use them.  "con" is the console on hart 0, interrupted     *)
(* between any two steps; "irq" is the trap handler of hart 0, during      *)
(* which the console stands still; "sys" is a process's system call on     *)
(* another hart, where no device interrupts.  kmalloc_lock, gpu_mutex and  *)
(* ie_ring_mutex are spinlocks.  A request to the gpu that is polled for   *)
(* is one step (VirtQueue looks into it).                                  *)
(***************************************************************************)
EXTENDS Pci

CONSTANTS
    Q,            \* queue_size of an input device
    Capacity,     \* INPUT_RB_SIZE
    Sizes,        \* sizes of the display, in pixels; 0 is a disabled display
    Machines      \* the machines looked at, with the bounds on what happens to each:
                  \*   functions          what is on the bus, in the order of the scan
                  \*   sent               types of the events each input device sends
                  \*   pops               how many a command or a system call takes
                  \*   resizes, con, sys  changes of the display, commands, system calls

ASSUME DevicesAssumption ==
    /\ Q \in Nat \ {0} /\ Capacity \in Nat \ {0}
    /\ Sizes \subseteq Nat /\ 1 \in Sizes
    /\ \A m \in Machines : /\ m.functions \in Seq(ToSet(m.functions))
                          /\ Layout(m.functions) /\ Len(m.functions) <= BarListLen
                          /\ m.sent \in Seq({"x", "y", "sync", "press"})
                          /\ m.pops \in 1 .. 5
                          /\ {m.resizes, m.con, m.sys} \subseteq Nat

VARIABLES
    machine,
    pci,          \* what the scan of the bus left; PciStart until then
    on,           \* the system has booted
    inputs,       \* the input devices, as input_devices and the device see them
    ring,         \* global_input_events_ring_buffer
    gpu,          \* gpu_device: fb (0 is NULL), size of fb, active
    screen,       \* the gpu itself
    bufs,         \* frame buffers allocated and not freed: <<address, size>>
    lock,         \* who holds each spinlock
    pc, loc,      \* where each actor is, and its local variables
    irq,          \* the line claimed (0: none) and the handlers still to call
    got,          \* the last event of each device taken from the ring
    did,          \* how often the bounded actions happened
    mishap        \* what went wrong so far

vars == <<machine, pci, on, inputs, ring, gpu, screen, bufs, lock, pc, loc, irq,
          got, did, mishap>>
world == <<machine, pci, on>>
events == <<inputs, ring, got>>
display == <<gpu, screen, bufs>>

Actors == {"con", "irq", "sys"}
Locks == {"heap", "gpu", "ring"}
NoEvent == [dev |-> 0, n |-> 0, type |-> "sync"]     \* {0,0,0}, which is a SYNC
Local == [ret |-> "idle", info |-> 0, left |-> 0, ev |-> NoEvent, tmp |-> 0, i |-> 0,
          evs |-> <<>>, tracker |-> "default", x |-> FALSE, y |-> FALSE]
NewInput == [buf |-> [s \in 0 .. Q - 1 |-> NoEvent], avail |-> Q, used |-> 0, ack |-> 0,
             isr |-> FALSE, sent |-> 0]

DevicesOf(kind) == SelectSeq(pci.devices, LAMBDA d : d.kind = kind)
LineOf(d) == Wired(pci, CHOOSE f \in Decodes(pci, d.base) : TRUE)

Init ==
    /\ machine \in Machines
    /\ pci = PciStart /\ on = FALSE
    /\ inputs = <<>>
    /\ ring = [start |-> 0, occupied |-> 0, elements |-> [s \in 0 .. Capacity - 1 |-> NoEvent]]
    /\ gpu = [fb |-> 0, size |-> 0, active |-> FALSE]
    /\ screen = [display |-> 1, event |-> FALSE, isr |-> FALSE, res |-> 0, backing |-> 0]
    /\ bufs = {}
    /\ lock = [l \in Locks |-> IF l = "ring" THEN "boot" ELSE "free"]
    /\ pc = [a \in Actors |-> "idle"]
    /\ loc = [a \in Actors |-> Local]
    /\ irq = [line |-> 0, todo |-> <<>>]
    /\ got = <<>>
    /\ did = [resize |-> 0, buffers |-> 0, con |-> 0, sys |-> 0]
    /\ mishap = {}

\* pcie_scan_and_init and plic_init, called by main.  The first input driver
\* makes the ring and with it unlocks ie_ring_mutex.
Boot ==
    /\ ~on /\ on' = TRUE
    /\ pci' = pcie_scan_and_init(machine.functions)
    /\ inputs' = [i \in DOMAIN SelectSeq(pci'.devices, LAMBDA d : d.kind = "input") |-> NewInput]
    /\ lock' = [lock EXCEPT !["ring"] = IF inputs' = <<>> THEN "boot" ELSE "free"]
    /\ got' = [i \in DOMAIN inputs' |-> 0]
    /\ UNCHANGED <<machine, ring, display, pc, loc, irq, did, mishap>>
----------------------------------------------------------------------------
(* Actors and locks *)

At(a, l) == on /\ pc[a] = l /\ (a = "con" => irq.line = 0)
Go(a, l) == pc' = [pc EXCEPT ![a] = l]
Free(l) == lock' = [lock EXCEPT ![l] = "free"]

\* mutex_wait, spinning until the lock is free
Take(a, l, from, to) ==
    /\ At(a, from) /\ lock[l] = "free"
    /\ lock' = [lock EXCEPT ![l] = a]
    /\ Go(a, to)
    /\ UNCHANGED <<world, events, display, loc, irq, did, mishap>>

\* Steps that allocate or free: kmalloc_lock is taken, and given back with the
\* step's effect.
Allocating == {"alloc", "info", "fb", "create", "attach", "scanout", "fill", "transfer",
               "flush", "unref", "s_alloc"}
EnterHeap(a) == \E l \in Allocating : Take(a, "heap", l, l)
InHeap(a, l) == At(a, l) /\ lock["heap"] = a /\ Free("heap")

InGpu == {"init", "init_test", "info", "fb", "create", "attach", "scanout", "fill",
          "transfer", "flush", "done", "done_clear", "set", "set_active", "unref",
          "unset", "unset_clear"}
Overlaps(a) == IF \E b \in Actors \ {a} : pc[b] \in InGpu THEN {"overlapped"} ELSE {}

\* The end of a command, a system call or a handler's call: the locals die.
Back(a) ==
    /\ Go(a, loc[a].ret)
    /\ loc' = [loc EXCEPT ![a] = IF @.ret = "idle" THEN Local
                                 ELSE [@ EXCEPT !.info = 0, !.ret = "idle"]]
----------------------------------------------------------------------------
(* The gpu: gpu_init *)

\* Each request makes the device raise its interrupt once it is served.
Asked(s) == screen' = [s EXCEPT !.isr = TRUE]

\* Only one at a time: the others return 10.
init_test(a) ==
    /\ At(a, "init_test") /\ Free("gpu")
    /\ \/ gpu.active /\ Back(a) /\ UNCHANGED gpu
       \/ ~gpu.active /\ gpu' = [gpu EXCEPT !.active = TRUE] /\ Go(a, "info") /\ UNCHANGED loc
    /\ UNCHANGED <<world, events, screen, bufs, irq, did, mishap>>

\* gpu_get_display_info.  An init that fails leaves active as it is.
gpu_get_display_info(a) ==
    /\ InHeap(a, "info") /\ Asked(screen)
    /\ \/ /\ screen.display = 0 /\ Back(a)
          /\ mishap' = mishap \union {"display off"}
       \/ /\ screen.display # 0 /\ Go(a, "fb")
          /\ loc' = [loc EXCEPT ![a].info = screen.display]
          /\ UNCHANGED mishap
    /\ UNCHANGED <<world, events, gpu, bufs, irq, did>>

\* The frame buffer; whatever was there before is forgotten.
new_frame_buffer(a) ==
    /\ InHeap(a, "fb") /\ Go(a, "create")
    /\ did' = [did EXCEPT !.buffers = @ + 1]
    /\ gpu' = [gpu EXCEPT !.fb = did.buffers + 1, !.size = loc[a].info]
    /\ bufs' = bufs \union {<<did.buffers + 1, loc[a].info>>}
    /\ UNCHANGED <<world, events, screen, loc, irq, mishap>>

\* A command of the device that it may refuse: on a refusal the caller returns.
Command(a, l, accepted, then, s) ==
    /\ InHeap(a, l)
    /\ \/ accepted /\ Asked(s) /\ Go(a, then) /\ UNCHANGED loc
       \/ ~accepted /\ Asked(screen) /\ Back(a)
    /\ UNCHANGED <<world, events, gpu, bufs, irq, did, mishap>>

resource_create_2d(a) ==
    Command(a, "create", screen.res = 0, "attach", [screen EXCEPT !.res = gpu.size])

\* The backing is the frame buffer of that moment, with the size init began with.
attach_backing(a) ==
    Command(a, "attach", screen.res # 0 /\ screen.backing = 0, "scanout",
            [screen EXCEPT !.backing = gpu.fb])

set_scanout(a) == Command(a, "scanout", screen.res # 0 /\ gpu.size <= screen.res, "fill", screen)

\* A fill writes to the frame buffer the device structure points to: through
\* NULL it is an exception, which os_trap_handler answers by spinning.
Live(fb, size) == \E b \in bufs : b[1] = fb /\ size <= b[2]
fill(a) ==
    /\ InHeap(a, "fill")
    /\ IF gpu.fb = 0 THEN Go(a, "spin") /\ UNCHANGED mishap
       ELSE /\ Go(a, "transfer")
            /\ mishap' = mishap \union (IF Live(gpu.fb, gpu.size) THEN {} ELSE {"wild"})
    /\ UNCHANGED <<world, events, display, loc, irq, did>>

\* gpu_transfer_and_flush_some
transfer_to_host_2d(a) ==
    Command(a, "transfer", screen.backing # 0 /\ gpu.size <= screen.res, "flush", screen)
resource_flush(a) == Command(a, "flush", screen.res # 0, "done", screen)

\* active = 0, whoever set it
done_clear(a) ==
    /\ At(a, "done_clear") /\ Free("gpu")
    /\ gpu' = [gpu EXCEPT !.active = FALSE]
    /\ Back(a)
    /\ UNCHANGED <<world, events, screen, bufs, irq, did, mishap>>

gpu_init(a) ==
    \/ Take(a, "gpu", "init", "init_test") \/ init_test(a)
    \/ gpu_get_display_info(a) \/ new_frame_buffer(a)
    \/ resource_create_2d(a) \/ attach_backing(a) \/ set_scanout(a) \/ fill(a)

gpu_transfer_and_flush_some(a) ==
    \/ transfer_to_host_2d(a) \/ resource_flush(a)
    \/ Take(a, "gpu", "done", "done_clear") \/ done_clear(a)
----------------------------------------------------------------------------
(* The ring of input events *)

\* ie_ring_buffer_push with RB_ASK_FOR_MANAGER: a full ring is emptied, and the
\* new event is lost with the others.
ie_ring_buffer_push_FromZero(ev) ==
    IF ring.occupied = Capacity THEN [ring EXCEPT !.start = 0, !.occupied = 0]
    ELSE [ring EXCEPT !.elements[ring.occupied] = ev, !.occupied = @ + 1]
ie_ring_buffer_push(ev) ==
    IF ring.occupied = Capacity THEN [ring EXCEPT !.start = 0, !.occupied = 0]
    ELSE [ring EXCEPT !.elements[(ring.start + ring.occupied) % Capacity] = ev,
                      !.occupied = @ + 1]

\* ie_ring_buffer_pop has found an event: from there on it has its accesses to
\* the ring before it, and from the store of start on, start has moved and
\* occupied has not.
InPop(a) == pc[a] \in {"pop_element", "pop_start", "pop_advance", "pop_load", "pop_store"}
Advanced(a) == pc[a] \in {"pop_load", "pop_store"}

\* What can tear the ring: a second pop, as the console takes no lock, and a
\* push by the interrupt of a console whose pop has moved start, or which
\* has found an event in a ring that the push empties.
TornByPop(a) == IF \E b \in {"con", "sys"} \ {a} : InPop(b) THEN {"torn"} ELSE {}
TornByPush == IF \/ Advanced("con")
                 \/ InPop("con") /\ ring.occupied = Capacity THEN {"torn"} ELSE {}

\* A reader has taken an event; NoEvent can only come out of a torn ring.
TookEvent(ev) ==
    /\ got' = IF ev = NoEvent THEN got ELSE [got EXCEPT ![ev.dev] = ev.n]
    /\ mishap' = mishap \union (IF ev # NoEvent /\ ev.n <= got[ev.dev] THEN {"disorder"} ELSE {})

\* The accesses of a pop, one by one: the test of occupied, the element, the
\* load and the store of start, the load and the store of occupied.
pop_test(a) ==
    /\ At(a, "pop") /\ loc[a].left > 0
    /\ \/ /\ ring.occupied = 0 /\ Go(a, "popped")
          /\ loc' = [loc EXCEPT ![a].ev = NoEvent]
          /\ UNCHANGED mishap
       \/ /\ ring.occupied # 0 /\ Go(a, "pop_element")
          /\ mishap' = mishap \union TornByPop(a)
          /\ UNCHANGED loc
    /\ UNCHANGED <<world, events, display, lock, irq, did>>

\* One load of a pop into a local variable.
PopLoad(a, from, to, locals) ==
    /\ At(a, from) /\ Go(a, to)
    /\ loc' = [loc EXCEPT ![a] = locals]
    /\ UNCHANGED <<world, events, display, lock, irq, did, mishap>>
pop_element(a) ==
    PopLoad(a, "pop_element", "pop_start", [loc[a] EXCEPT !.ev = ring.elements[ring.start]])
pop_start(a) == PopLoad(a, "pop_start", "pop_advance", [loc[a] EXCEPT !.tmp = ring.start])
pop_load(a) == PopLoad(a, "pop_load", "pop_store", [loc[a] EXCEPT !.tmp = ring.occupied])

pop_advance(a) ==
    /\ At(a, "pop_advance") /\ Go(a, "pop_load")
    /\ ring' = [ring EXCEPT !.start = (loc[a].tmp + 1) % Capacity]
    /\ UNCHANGED <<world, inputs, got, display, lock, loc, irq, did, mishap>>

\* occupied is unsigned and can be taken below 0 in a torn ring: -1 stands for
\* 2^32 - 1.
pop_store(a) ==
    /\ At(a, "pop_store") /\ Go(a, "popped")
    /\ ring' = [ring EXCEPT !.occupied = loc[a].tmp - 1]
    /\ TookEvent(loc[a].ev)
    /\ UNCHANGED <<world, inputs, display, lock, loc, irq, did>>

ie_ring_buffer_pop(a) ==
    \/ pop_test(a) \/ pop_element(a) \/ pop_start(a) \/ pop_advance(a)
    \/ pop_load(a) \/ pop_store(a)

\* SYSCALL_GET_INPUT keeps the event for the process, and after the last one
\* gives ie_ring_mutex back.
sys_popped ==
    /\ At("sys", "popped") /\ Go("sys", "pop")
    /\ loc' = [loc EXCEPT !["sys"] = [loc["sys"] EXCEPT !.left = @ - 1, !.tmp = 0, !.ev = NoEvent]]
    /\ UNCHANGED <<world, events, display, lock, irq, did, mishap>>
sys_pops_over ==
    /\ At("sys", "pop") /\ loc["sys"].left = 0
    /\ Free("ring") /\ Back("sys")
    /\ UNCHANGED <<world, events, display, irq, did, mishap>>
----------------------------------------------------------------------------
(* The commands that draw from events *)

\* gpu_draw_from_cursor: one draw at every SYNC after exactly two coordinates.
DrawsIn(evs) ==
    LET seen(i) == Cardinality({j \in 1 .. i : /\ evs[j] \in {"x", "y"}
                                               /\ \A k \in j .. i - 1 : evs[k] # "sync"})
    IN Cardinality({i \in DOMAIN evs : evs[i] = "sync" /\ seen(i) = 2})

\* gpu_regions_test: what an event makes of the tracker's state, and whether it draws.
Tracked(t, type) ==
    CASE t = "default" /\ type = "x"         -> "xpos"
      [] t = "default" /\ type = "press"     -> "lclick"
      [] t = "xpos" /\ type = "y"            -> "ypos"
      [] t \in {"ypos", "lclick"} /\ type = "sync" -> "default"
      [] OTHER                               -> t
Clicked(t, type) == t = "default" /\ type = "press"

\* What the console does with an event it has popped.  `inputring pop` prints
\* it; the cursor commands keep or use it.  A click before the first position
\* draws where uninitialised memory says.
con_popped ==
    LET c == loc["con"]
        e == c.ev.type
        next == [c EXCEPT !.left = @ - 1, !.tmp = 0, !.ev = NoEvent]
    IN /\ At("con", "popped")
       /\ \/ /\ c.tracker = "none" /\ Go("con", "pop")
             /\ loc' = [loc EXCEPT !["con"] = next]
             /\ UNCHANGED mishap
          \/ /\ c.tracker = "cursor" /\ Go("con", "pop")
             /\ loc' = [loc EXCEPT !["con"] = [next EXCEPT !.evs = Append(@, e)]]
             /\ UNCHANGED mishap
          \/ /\ c.tracker \notin {"none", "cursor"}
             /\ loc' = [loc EXCEPT !["con"] =
                         [next EXCEPT !.tracker = Tracked(c.tracker, e),
                                      !.x = @ \/ (c.tracker = "default" /\ e = "x"),
                                      !.y = @ \/ (c.tracker = "xpos" /\ e = "y"),
                                      !.ret = IF Clicked(c.tracker, e) THEN "pop" ELSE @]]
             /\ IF Clicked(c.tracker, e)
                THEN /\ Go("con", "fill")
                     /\ mishap' = mishap \union Overlaps("con")
                           \union (IF c.x /\ c.y THEN {} ELSE {"no position"})
                ELSE Go("con", "pop") /\ UNCHANGED mishap
       /\ UNCHANGED <<world, events, display, lock, irq, did>>

\* All events are popped: `cursor` draws; fewer than six events make one circle.
con_pops_over ==
    LET c == loc["con"]
    IN /\ At("con", "pop") /\ c.left <= 0
       /\ IF c.tracker = "cursor" /\ DrawsIn(c.evs) > 0
          THEN /\ Go("con", "fill")
               /\ loc' = [loc EXCEPT !["con"] = Local]
               /\ mishap' = mishap \union Overlaps("con")
          ELSE Go("con", "idle") /\ loc' = [loc EXCEPT !["con"] = Local] /\ UNCHANGED mishap
       /\ UNCHANGED <<world, events, display, lock, irq, did>>
----------------------------------------------------------------------------
(* Interrupts of hart 0 *)

Pending ==
    {LineOf(DevicesOf("input")[i]) : i \in {j \in DOMAIN inputs : inputs[j].isr}}
      \union {LineOf(DevicesOf("gpu")[i]) : i \in {j \in DOMAIN DevicesOf("gpu") : screen.isr}}

\* The lines plic_init enables for hart 0.
Enabled == PLIC_INT_CODE_IRQ0 .. PLIC_INT_CODE_IRQ0 + 3

\* plic_claim; a hart that spins in its trap handler takes no more interrupts.
plic_claim(line) ==
    /\ on /\ irq.line = 0 /\ pc["con"] # "spin" /\ line \in Pending \intersect Enabled
    /\ irq' = [line |-> line, todo |-> pcie_handle_irq(pci, line)]
    /\ Go("irq", "call")
    /\ UNCHANGED <<world, events, display, lock, loc, did, mishap>>

\* The next handler of the line, or plic_complete when there is none.
call_handler ==
    /\ At("irq", "call") /\ irq.todo # <<>>
    /\ irq' = [irq EXCEPT !.todo = Tail(@)]
    /\ Go("irq", CASE Head(irq.todo) = "gpu" -> "gpu_isr"
                   [] Head(irq.todo) = "input" -> "in_wait"
                   [] OTHER -> "call")     \* their handlers only acknowledge
    /\ UNCHANGED <<world, events, display, lock, loc, did, mishap>>

plic_complete ==
    /\ At("irq", "call") /\ irq.todo = <<>>
    /\ irq' = [irq EXCEPT !.line = 0]
    /\ Go("irq", "idle")
    /\ UNCHANGED <<world, events, display, lock, loc, did, mishap>>

\* mutex_post(&ie_ring_mutex) at the end of the handler
PostRing_Forgotten == UNCHANGED lock
PostRing == Free("ring")

\* input_irq_handler: for every device, reading isr clears it, and the events
\* written since the last time go into the ring one by one.
in_device ==
    LET i == loc["irq"].i + 1
    IN /\ At("irq", "in_device")
       /\ \/ /\ i \notin DOMAIN inputs
             /\ PostRing /\ Go("irq", "call")
             /\ loc' = [loc EXCEPT !["irq"] = Local]
             /\ UNCHANGED inputs
          \/ /\ i \in DOMAIN inputs
             /\ Go("irq", IF inputs[i].isr THEN "in_events" ELSE "in_device")
             /\ inputs' = [inputs EXCEPT ![i].isr = FALSE]
             /\ loc' = [loc EXCEPT !["irq"].i = i]
             /\ UNCHANGED lock
       /\ UNCHANGED <<world, ring, got, display, irq, did, mishap>>

in_events ==
    LET i == loc["irq"].i
        d == inputs[i]
    IN /\ At("irq", "in_events")
       /\ \/ /\ d.ack = d.used /\ Go("irq", "in_device")
             /\ UNCHANGED <<inputs, ring, mishap>>
          \/ /\ d.ack # d.used
             /\ ring' = ie_ring_buffer_push(d.buf[d.ack % Q])
             /\ inputs' = [inputs EXCEPT ![i].ack = @ + 1, ![i].avail = @ + 1]
             /\ mishap' = mishap \union TornByPush
             /\ UNCHANGED pc
       /\ UNCHANGED <<world, got, display, lock, loc, irq, did>>

\* gpu_irq_handler: without an event of the display only an acknowledgement.
gpu_isr ==
    /\ At("irq", "gpu_isr")
    /\ screen' = [screen EXCEPT !.isr = FALSE, !.event = FALSE]
    /\ Go("irq", IF ~screen.event THEN "call" ELSE IF gpu.fb = 0 THEN "init" ELSE "set")
    /\ loc' = [loc EXCEPT !["irq"].ret =
                 IF ~screen.event THEN "idle" ELSE IF gpu.fb = 0 THEN "call" ELSE "unset"]
    /\ mishap' = mishap \union (IF screen.event THEN Overlaps("irq") ELSE {})
    /\ UNCHANGED <<world, events, gpu, bufs, lock, irq, did>>

\* An active gpu is only reported: the handler goes on all the same.
set_active ==
    /\ At("irq", "set_active") /\ Free("gpu") /\ Go("irq", "unref")
    /\ gpu' = [gpu EXCEPT !.active = TRUE]
    /\ UNCHANGED <<world, events, screen, bufs, loc, irq, did, mishap>>

\* The resource is given up, then the frame buffer, to which fb still points.
\* (freeing what is not allocated is as bad as a write to it)
Unreferenced_Kept == screen
Unreferenced == [screen EXCEPT !.res = 0, !.backing = 0]
resource_unref ==
    /\ InHeap("irq", "unref") /\ Asked(Unreferenced)
    /\ bufs' = {b \in bufs : b[1] # gpu.fb}
    /\ mishap' = mishap \union (IF \E b \in bufs : b[1] = gpu.fb THEN {} ELSE {"wild"})
    /\ Go("irq", "unset")
    /\ loc' = [loc EXCEPT !["irq"].info = 1]      \* gpu_init is still to be called
    /\ UNCHANGED <<world, events, gpu, irq, did>>

\* active = 0, before gpu_init and once more after it
unset_clear ==
    /\ At("irq", "unset_clear") /\ Free("gpu")
    /\ gpu' = [gpu EXCEPT !.active = FALSE]
    /\ Go("irq", IF loc["irq"].info = 1 THEN "init" ELSE "call")
    /\ loc' = [loc EXCEPT !["irq"].info = 0]
    /\ UNCHANGED <<world, events, screen, bufs, irq, did, mishap>>

Interrupt ==
    \/ \E line \in Pending : plic_claim(line)
    \/ call_handler \/ plic_complete
    \/ Take("irq", "ring", "in_wait", "in_device") \/ in_device \/ in_events
    \/ gpu_isr \/ Take("irq", "gpu", "set", "set_active") \/ set_active \/ resource_unref
    \/ Take("irq", "gpu", "unset", "unset_clear") \/ unset_clear
----------------------------------------------------------------------------
(* What the console and processes ask for *)

Begin(a, l, locals) ==
    /\ At(a, "idle") /\ did[a] < machine[a]
    /\ did' = [did EXCEPT ![a] = @ + 1]
    /\ Go(a, l)
    /\ loc' = [loc EXCEPT ![a] = locals]
    /\ UNCHANGED <<world, events, display, lock, irq>>

HasGpu == DevicesOf("gpu") # <<>>
HasInput == inputs # <<>>

\* `gpu init`, also of a gpu that has a frame buffer
console_gpu_init ==
    /\ HasGpu /\ Begin("con", "init", Local)
    /\ mishap' = mishap \union Overlaps("con")
                        \union (IF gpu.fb # 0 THEN {"init again"} ELSE {})

\* `gpu fill bmp` and `regions add`; `gpu flush`; SYSCALL_DRAW_RECTANGLE and _CIRCLE
Draws(a) == HasGpu /\ Begin(a, "fill", Local) /\ mishap' = mishap \union Overlaps(a)
console_gpu_flush ==
    HasGpu /\ Begin("con", "transfer", Local) /\ mishap' = mishap \union Overlaps("con")

\* `inputring pop`, `gpu cursor`, `gpu regions`
console_inputring_pop ==
    HasInput /\ Begin("con", "pop", [Local EXCEPT !.left = machine.pops, !.tracker = "none"])
             /\ UNCHANGED mishap
gpu_draw_from_cursor ==
    HasInput /\ HasGpu /\ UNCHANGED mishap
             /\ Begin("con", "pop", [Local EXCEPT !.left = machine.pops, !.tracker = "cursor"])
gpu_regions_test ==
    HasInput /\ HasGpu /\ UNCHANGED mishap
             /\ Begin("con", "pop", [Local EXCEPT !.left = ring.occupied])

\* `malloc`, `gpu gdi`: an allocation
console_alloc == Begin("con", "alloc", Local) /\ UNCHANGED mishap
console_allocated ==
    /\ InHeap("con", "alloc") /\ Go("con", "idle")
    /\ UNCHANGED <<world, events, display, loc, irq, did, mishap>>

\* SYSCALL_GET_INPUT
syscall_get_input ==
    HasInput /\ Begin("sys", "s_alloc", [Local EXCEPT !.left = machine.pops]) /\ UNCHANGED mishap
sys_allocated ==
    /\ InHeap("sys", "s_alloc") /\ Go("sys", "s_wait")
    /\ UNCHANGED <<world, events, display, loc, irq, did, mishap>>

Call ==
    \/ console_gpu_init \/ Draws("con") \/ console_gpu_flush
    \/ console_inputring_pop \/ gpu_draw_from_cursor \/ gpu_regions_test
    \/ console_alloc \/ syscall_get_input \/ Draws("sys")

Step(a) == EnterHeap(a) \/ gpu_init(a) \/ gpu_transfer_and_flush_some(a)
Console == Step("con") \/ ie_ring_buffer_pop("con") \/ con_popped \/ con_pops_over
           \/ console_allocated
Syscall == Step("sys") \/ sys_allocated \/ Take("sys", "ring", "s_wait", "pop")
           \/ ie_ring_buffer_pop("sys") \/ sys_popped \/ sys_pops_over
----------------------------------------------------------------------------
(* The devices *)

\* An input device writes its next event where the driver's ring says, if the
\* driver has left it room, and drops it if not.
SendEvent(i) ==
    LET d == inputs[i]
        ev == [dev |-> i, n |-> d.sent + 1, type |-> machine.sent[d.sent + 1]]
    IN /\ d.sent < Len(machine.sent)
       /\ inputs' = [inputs EXCEPT ![i] =
                      IF d.used < d.avail
                      THEN [d EXCEPT !.buf[d.used % Q] = ev, !.used = @ + 1, !.isr = TRUE,
                                     !.sent = @ + 1]
                      ELSE [d EXCEPT !.sent = @ + 1]]
       /\ UNCHANGED <<world, ring, got, display, lock, pc, loc, irq, did, mishap>>

\* The window is resized, closed or opened.
Resize(s) ==
    /\ on /\ HasGpu /\ did.resize < machine.resizes /\ s # screen.display
    /\ did' = [did EXCEPT !.resize = @ + 1]
    /\ screen' = [screen EXCEPT !.display = s, !.event = TRUE, !.isr = TRUE]
    /\ UNCHANGED <<world, events, gpu, bufs, lock, pc, loc, irq, mishap>>

Next ==
    \/ Boot \/ Call \/ Console \/ Syscall
    \/ Interrupt \/ Step("irq")
    \/ \E i \in DOMAIN inputs : SendEvent(i)
    \/ \E s \in Sizes : Resize(s)

Spec == Init /\ [][Next]_vars

\* The harts run: each goes on with what it is doing, and hart 0 takes the
\* interrupts that are pending.  Nobody has to call, send or resize.
FairSpec ==
    /\ Spec
    /\ WF_vars(Console) /\ WF_vars(Syscall)
    /\ WF_vars(Interrupt \/ Step("irq"))
----------------------------------------------------------------------------
(* Properties *)

\* Every driver's device structure reaches the registers of a device of its
\* kind, no two the same device, at the offsets that device gave, and its
\* handler is called for the line that device is wired to: although drivers
\* search the list of BARs by kind (the two input devices are the same kind)
\* and lines are computed from bus and slot, behind bridges too.
DriversBound ==
    /\ \A i \in DOMAIN pci.devices :
          LET d == pci.devices[i]
              at == Decodes(pci, d.base)
          IN \E f \in at :
                /\ at = {f} /\ f.kind = d.kind
                /\ \A c \in ConfigTypes(f) : d.offsets[c.type] = c.offset
                /\ Contains(pcie_handle_irq(pci, Wired(pci, f)), d.kind)
                /\ \A j \in DOMAIN pci.devices \ {i} : pci.devices[j].base # d.base
    /\ on => \A f \in ToSet(machine.functions) :
          f.agrees /\ pcie_find_driver(pci, f.kind) =>
             \E i \in DOMAIN pci.devices : Decodes(pci, pci.devices[i].base) = {f}

\* What the ring holds: between the two stores of a pop the event it is taking
\* comes first.
Contents == [k \in 1 .. ring.occupied |-> ring.elements[(ring.start + k - 1) % Capacity]]
ToRead ==
    IF Advanced("con") THEN <<loc["con"].ev>> \o SubSeq(Contents, 1, ring.occupied - 1)
    ELSE IF Advanced("sys") THEN <<loc["sys"].ev>> \o SubSeq(Contents, 1, ring.occupied - 1)
    ELSE Contents

\* The events readers take and then the ones still in the ring are events that
\* were sent, each at most once and each device's in order: through slots that
\* are reused, a ring that wraps and is emptied when full, a console that is
\* interrupted by a push after its test or its read, and a process that reads
\* on another hart.  Only two pops at a time, and a push into the second half of
\* the console's pop or one that empties the ring under it, can break it: the
\* console takes no lock.
EventsInOrder ==
    "torn" \notin mishap =>
       /\ "disorder" \notin mishap
       /\ \A j \in DOMAIN ToRead :
             /\ ToRead[j] # NoEvent /\ ToRead[j].n > got[ToRead[j].dev]
             /\ \A i \in 1 .. j - 1 : ToRead[i].dev = ToRead[j].dev => ToRead[i].n < ToRead[j].n

Quiet == \A a \in Actors : pc[a] \notin InGpu
Excuses == {"overlapped", "display off", "init again"}

\* Between the calls the gpu is either untouched or shows a frame buffer that
\* is allocated, is the one drawn into and has the resource's size, and the next
\* init is not turned away; no draw writes to, and no resize frees, a buffer
\* that is gone.  What can break it: an init or resize in the middle of another
\* gpu call, a display that is off while the gpu is set up, and `gpu init`
\* of a gpu that is set up already.
GpuSound ==
    mishap \intersect Excuses = {} =>
       /\ "wild" \notin mishap
       /\ Quiet => /\ ~gpu.active
                   /\ \/ gpu.fb = 0 /\ screen.res = 0
                      \/ /\ screen.backing = gpu.fb /\ screen.res = gpu.size
                         /\ <<gpu.fb, gpu.size>> \in bufs

\* The handler waits for a lock the console it interrupted holds.
Waits(l) == IF l = "heap" THEN pc["irq"] \in Allocating
            ELSE IF l = "gpu" THEN pc["irq"] \in {"init", "done", "set", "unset"}
            ELSE pc["irq"] = "in_wait"
SelfDeadlock == \E l \in Locks : Waits(l) /\ lock[l] = "con"

\* An interrupt that is claimed is completed, whatever the handlers of its line
\* do and whoever else holds the locks they need; the one thing that keeps the
\* hart in its handler is a lock of the very code it interrupted.
IrqCompletes == irq.line # 0 ~> (irq.line = 0 \/ SelfDeadlock)
=============================================================================
