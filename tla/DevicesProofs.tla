--------------------------- MODULE DevicesProofs ---------------------------
(***************************************************************************)
(* The gpu stays sound for every size of the display and however often it  *)
(* is resized, drawn to and set up, as long as nobody enters a gpu call    *)
(* while another is in one, the display is on while the gpu is set up and  *)
(* `gpu init` is not given twice.                                          *)
(*                                                                         *)
(* Input events reach their readers in order for every number of devices   *)
(* and every size of their queues and of the ring, as long as there are no *)
(* two pops at a time, and no push in the second half of a pop of the      *)
(* console or one that empties the ring under it.                          *)
(*                                                                         *)
(* Drivers are bound to their own devices for every number and order of    *)
(* functions on the bus, as long as they are laid out as the code expects. *)
(* The scan is a loop: ScanInv(L, n, p) is what holds of the bus after n   *)
(* functions of the layout L.                                              *)
(***************************************************************************)
EXTENDS Devices, LeastNumber, SequenceTheorems, FiniteSetTheorems, TLAPS

(* The invariant *)

Labels == InGpu \union Allocating \union
          {"idle", "pop", "pop_element", "pop_start", "pop_advance", "pop_load", "pop_store",
           "popped", "spin", "s_wait", "call", "gpu_isr", "in_wait", "in_device", "in_events"}
Returns(a) == IF a = "irq" THEN {"idle", "call", "unset"}
              ELSE IF a = "con" THEN {"idle", "pop"} ELSE {"idle"}

GpuType == [fb : Nat, size : Nat, active : BOOLEAN]
ScreenType == [display : Nat, event : BOOLEAN, isr : BOOLEAN, res : Nat, backing : Nat]
DidType == [resize : Nat, buffers : Nat, con : Nat, sys : Nat]
LocalType(a, c) ==
    /\ {"ret", "info", "ev", "tmp", "i"} \subseteq DOMAIN c
    /\ c.ret \in Returns(a) /\ c.info \in Nat

\* Without a claimed line the trap handler does not run.
HandlerIdle == "line" \in DOMAIN irq /\ (irq.line = 0 => pc["irq"] = "idle")

GpuTypes ==
    /\ gpu \in GpuType
    /\ screen \in ScreenType
    /\ did \in DidType
    /\ pc \in [Actors -> Labels]
    /\ DOMAIN loc = Actors
    /\ \A a \in Actors : LocalType(a, loc[a])
    /\ HandlerIdle

Untouched == gpu.fb = 0 /\ screen.res = 0 /\ screen.backing = 0
NoResource == screen.res = 0 /\ screen.backing = 0
Allocated == gpu.fb # 0 /\ gpu.size # 0 /\ <<gpu.fb, gpu.size>> \in bufs
Shown == Allocated /\ screen.res = gpu.size /\ screen.backing = gpu.fb

\* The gpu while nobody is in a call of it.
AtRest == ~gpu.active /\ (Untouched \/ Shown)

\* The gpu while actor a, and nobody else, is in a call of it.
GpuAt(a) ==
    /\ pc[a] \in {"init", "init_test"} => NoResource /\ ~gpu.active
    /\ pc[a] = "info" => NoResource
    /\ pc[a] = "fb" => NoResource /\ loc[a].info # 0
    /\ pc[a] = "create" => NoResource /\ Allocated
    /\ pc[a] = "attach" => Allocated /\ screen.res = gpu.size /\ screen.backing = 0
    /\ pc[a] \in {"fill", "transfer"} =>
          Shown \/ (Untouched /\ ~gpu.active /\ loc[a].ret # "unset")
    /\ pc[a] \in {"scanout", "flush", "done", "done_clear", "set", "set_active", "unref"} =>
          Shown
    /\ pc[a] \in {"unset", "unset_clear"} =>
          IF loc[a].info = 1 THEN NoResource ELSE Shown

Alone == \A a, b \in Actors : pc[a] \in InGpu /\ pc[b] \in InGpu => a = b

GpuGood ==
    /\ "wild" \notin mishap
    /\ Alone
    /\ Quiet => AtRest
    /\ \A a \in Actors : pc[a] \in InGpu => GpuAt(a)

Excused == mishap \intersect Excuses # {}

GpuInv == GpuTypes /\ (Excused \/ GpuGood)
----------------------------------------------------------------------------
(* How steps keep it *)

USE DEF GpuType, ScreenType, DidType

LEMMA GoTo ==
    ASSUME GpuTypes, NEW a \in Actors, NEW l \in Labels, Go(a, l)
    PROVE  /\ pc' \in [Actors -> Labels] /\ pc'[a] = l
           /\ \A b \in Actors \ {a} : pc'[b] = pc[b]
BY DEF GpuTypes, Go

LEMMA NewLocal ==
    ASSUME GpuTypes, NEW a \in Actors, NEW c, LocalType(a, c), loc' = [loc EXCEPT ![a] = c]
    PROVE  /\ DOMAIN loc' = Actors /\ \A b \in Actors : LocalType(b, loc'[b])
           /\ loc'[a] = c /\ \A b \in Actors \ {a} : loc'[b] = loc[b]
BY DEF GpuTypes

LEMMA LocalIsLocal == (\A a : LocalType(a, Local)) /\ Local.ret = "idle" /\ Local.info = 0
BY DEF LocalType, Local, Returns

\* A call returns, with its locals cleared.
LEMMA BackTo ==
    ASSUME GpuTypes, NEW a \in Actors, Back(a)
    PROVE  /\ pc' \in [Actors -> Labels] /\ pc'[a] = loc[a].ret /\ loc[a].ret \in Returns(a)
           /\ \A b \in Actors \ {a} : pc'[b] = pc[b] /\ loc'[b] = loc[b]
           /\ DOMAIN loc' = Actors /\ \A b \in Actors : LocalType(b, loc'[b])
           /\ loc'[a].info = 0
<1> DEFINE c == IF loc[a].ret = "idle" THEN Local
                ELSE [loc[a] EXCEPT !.info = 0, !.ret = "idle"]
<1>1. loc' = [loc EXCEPT ![a] = c] /\ Go(a, loc[a].ret)
  BY DEF Back
<1>2. LocalType(a, loc[a]) /\ loc[a].ret \in Returns(a)
  BY DEF GpuTypes, LocalType
<1>3. LocalType(a, c) /\ c.info = 0
  BY <1>2, LocalIsLocal DEF LocalType, Returns
<1> HIDE DEF c
<1>4. loc[a].ret \in Labels
  BY <1>2 DEF Returns, Labels, InGpu
<1>5. /\ pc' \in [Actors -> Labels] /\ pc'[a] = loc[a].ret
      /\ \A b \in Actors \ {a} : pc'[b] = pc[b]
  BY <1>1, <1>4, GoTo
<1>6. /\ DOMAIN loc' = Actors /\ \A b \in Actors : LocalType(b, loc'[b])
      /\ loc'[a] = c /\ \A b \in Actors \ {a} : loc'[b] = loc[b]
  BY <1>1, <1>3, NewLocal
<1> QED BY <1>2, <1>3, <1>5, <1>6

LEMMA HandlerKept ==
    ASSUME GpuTypes, NEW a \in Actors, pc[a] # "idle" \/ a # "irq",
           \A b \in Actors \ {a} : pc'[b] = pc[b], UNCHANGED irq
    PROVE  HandlerIdle'
BY DEF GpuTypes, HandlerIdle, Actors

\* A step that is nobody's in a gpu call.
LEMMA Elsewhere ==
    ASSUME GpuInv, GpuTypes', UNCHANGED <<gpu, bufs>>,
           screen'.res = screen.res, screen'.backing = screen.backing,
           mishap \subseteq mishap', "wild" \in mishap' => "wild" \in mishap,
           \A b \in Actors : pc[b] \in InGpu \/ pc'[b] \in InGpu =>
              pc'[b] = pc[b] /\ loc'[b] = loc[b]
    PROVE  GpuInv'
<1> SUFFICES ASSUME ~Excused' PROVE GpuGood'
  BY DEF GpuInv
<1>1. GpuGood
  BY DEF GpuInv, Excused
<1>2. "wild" \notin mishap'
  BY <1>1 DEF GpuGood
<1>3. Alone'
  BY <1>1 DEF GpuGood, Alone
<1>4. Quiet' => Quiet
  BY DEF Quiet
<1>5. (AtRest' <=> AtRest) /\ (Shown' <=> Shown) /\ (Untouched' <=> Untouched)
         /\ (Allocated' <=> Allocated) /\ (NoResource' <=> NoResource)
  BY DEF AtRest, Shown, Untouched, Allocated, NoResource
<1>6. ASSUME NEW b \in Actors, pc'[b] \in InGpu PROVE GpuAt(b)'
  <2>1. pc'[b] = pc[b] /\ loc'[b] = loc[b] /\ GpuAt(b)
    BY <1>1, <1>6 DEF GpuGood
  <2> QED BY <2>1, <1>5 DEF GpuAt
<1> QED BY <1>1, <1>2, <1>3, <1>4, <1>5, <1>6 DEF GpuGood

\* After a step of actor a, the only one in a gpu call if any is.
LEMMA After ==
    ASSUME NEW a \in Actors, "wild" \notin mishap',
           \A b \in Actors \ {a} : pc'[b] \notin InGpu,
           pc'[a] \in InGpu => GpuAt(a)', pc'[a] \notin InGpu => AtRest'
    PROVE  GpuGood'
BY DEF GpuGood, Alone, Quiet

\* A step of an actor that is in a gpu call.
LEMMA InsideStep ==
    ASSUME GpuInv, GpuTypes', NEW a \in Actors, pc[a] \in InGpu, mishap \subseteq mishap',
           \A b \in Actors \ {a} : pc'[b] = pc[b],
           ~Excused' /\ GpuAt(a) =>
              /\ "wild" \in mishap' => "wild" \in mishap
              /\ pc'[a] \in InGpu => GpuAt(a)'
              /\ pc'[a] \notin InGpu => AtRest'
    PROVE  GpuInv'
<1> SUFFICES ASSUME ~Excused' PROVE GpuGood'
  BY DEF GpuInv
<1>1. GpuGood
  BY DEF GpuInv, Excused
<1>2. GpuAt(a) /\ "wild" \notin mishap
  BY <1>1 DEF GpuGood
<1>3. \A b \in Actors \ {a} : pc'[b] \notin InGpu
  BY <1>1 DEF GpuGood, Alone
<1> QED BY <1>2, <1>3, After

\* An actor enters a gpu call, which is an overlap if another is in one.
LEMMA EnterStep ==
    ASSUME GpuInv, GpuTypes', NEW a \in Actors, pc[a] \notin InGpu, pc'[a] \in InGpu,
           \A b \in Actors \ {a} : pc'[b] = pc[b],
           mishap \union Overlaps(a) \subseteq mishap',
           "wild" \in mishap' => "wild" \in mishap,
           ~Excused' /\ AtRest => GpuAt(a)'
    PROVE  GpuInv'
<1> SUFFICES ASSUME ~Excused' PROVE GpuGood'
  BY DEF GpuInv
<1>1. GpuGood
  BY DEF GpuInv, Excused
<1>2. \A b \in Actors \ {a} : pc[b] \notin InGpu
  <2>1. "overlapped" \notin Overlaps(a)
    BY DEF Excused, Excuses
  <2> QED BY <2>1 DEF Overlaps
<1>3. Quiet
  BY <1>2 DEF Quiet
<1>4. GpuAt(a)' /\ "wild" \notin mishap'
  BY <1>1, <1>3 DEF GpuGood
<1> QED BY <1>2, <1>4, After
----------------------------------------------------------------------------
(* Steps outside the gpu *)

\* An actor that is outside the gpu calls goes from one place there to another.
LEMMA StaysOut ==
    ASSUME GpuInv, NEW a \in Actors, pc[a] \notin InGpu, NEW l \in Labels \ InGpu, Go(a, l),
           DOMAIN loc' = Actors, LocalType(a, loc'[a]),
           \A b \in Actors \ {a} : loc'[b] = loc[b],
           did' \in DidType,
           screen' \in ScreenType,
           screen'.res = screen.res, screen'.backing = screen.backing, UNCHANGED <<gpu, bufs>>,
           mishap \subseteq mishap', "wild" \in mishap' => "wild" \in mishap,
           UNCHANGED irq, pc[a] # "idle" \/ a # "irq"
    PROVE  GpuInv'
<1>1. GpuTypes
  BY DEF GpuInv
<1>2. /\ pc' \in [Actors -> Labels] /\ pc'[a] = l
      /\ \A b \in Actors \ {a} : pc'[b] = pc[b]
  BY <1>1, GoTo
<1>3. HandlerIdle'
  BY <1>1, <1>2, HandlerKept
<1>4. GpuTypes'
  BY <1>1, <1>2, <1>3 DEF GpuTypes
<1> QED BY <1>2, <1>4, Elsewhere

LEMMA IdleStep ==
    ASSUME GpuInv, GpuTypes', UNCHANGED <<gpu, bufs, screen, mishap, pc, loc>>
    PROVE  GpuInv'
BY Elsewhere

LEMMA BootStep == ASSUME GpuInv, Boot PROVE GpuInv'
<1>1. UNCHANGED <<gpu, screen, bufs, pc, loc, did, mishap, irq>>
  BY DEF Boot, display
<1>2. GpuTypes'
  BY <1>1 DEF GpuInv, GpuTypes, HandlerIdle
<1> QED BY <1>1, <1>2, IdleStep

LEMMA EnterHeapStep == ASSUME GpuInv, NEW a \in Actors, EnterHeap(a) PROVE GpuInv'
<1>1. UNCHANGED <<gpu, screen, bufs, loc, did, mishap, irq>>
  BY DEF EnterHeap, Take, display
<1>2. UNCHANGED pc
  BY DEF EnterHeap, Take, At, Go, GpuInv, GpuTypes
<1>3. GpuTypes'
  BY <1>1, <1>2 DEF GpuInv, GpuTypes, HandlerIdle
<1> QED BY <1>1, <1>2, <1>3, IdleStep

\* What the steps outside the gpu leave alone.
LEMMA TypesNow ==
    ASSUME GpuInv
    PROVE  /\ GpuTypes /\ DOMAIN loc = Actors /\ \A a \in Actors : LocalType(a, loc[a])
           /\ did \in DidType
           /\ screen \in ScreenType
           /\ pc \in [Actors -> Labels]
BY DEF GpuInv, GpuTypes, HandlerIdle

\* The steps of a pop, of the console or of a system call.
LEMMA PopStep ==
    ASSUME GpuInv, NEW a \in {"con", "sys"}, ie_ring_buffer_pop(a)
    PROVE  GpuInv'
<1> USE TypesNow
<1> DEFINE Places == {"pop", "pop_element", "pop_start", "pop_advance", "pop_load", "pop_store"}
<1>1. /\ UNCHANGED <<gpu, screen, bufs, did, irq>> /\ a \in Actors /\ pc[a] \in Places
      /\ mishap \subseteq mishap' /\ ("wild" \in mishap' => "wild" \in mishap)
  <2>1. a \in Actors
    BY DEF Actors
  <2>2. CASE pop_test(a)
    BY <2>1, <2>2 DEF pop_test, At, display, TornByPop
  <2>3. CASE pop_element(a) \/ pop_start(a) \/ pop_load(a)
    BY <2>1, <2>3 DEF pop_element, pop_start, pop_load, PopLoad, At, display
  <2>4. CASE pop_advance(a)
    BY <2>1, <2>4 DEF pop_advance, At, display
  <2>5. CASE pop_store(a)
    BY <2>1, <2>5 DEF pop_store, At, display, TookEvent
  <2> QED BY <2>2, <2>3, <2>4, <2>5 DEF ie_ring_buffer_pop
<1>2. PICK l \in Places \union {"popped"} : Go(a, l)
  BY DEF ie_ring_buffer_pop, pop_test, pop_element, pop_start, pop_load, PopLoad, pop_advance,
         pop_store
<1>3. \/ UNCHANGED loc
      \/ \E e : loc' = [loc EXCEPT ![a].ev = e]
      \/ \E e : loc' = [loc EXCEPT ![a] = [loc[a] EXCEPT !.ev = e]]
      \/ \E t : loc' = [loc EXCEPT ![a] = [loc[a] EXCEPT !.tmp = t]]
  BY DEF ie_ring_buffer_pop, pop_test, pop_element, pop_start, pop_load, PopLoad, pop_advance,
         pop_store
<1>4. /\ DOMAIN loc' = Actors /\ LocalType(a, loc'[a])
      /\ \A b \in Actors \ {a} : loc'[b] = loc[b]
  <2>1. LocalType(a, loc[a])
    BY <1>1
  <2>2. ASSUME NEW e, loc' = [loc EXCEPT ![a].ev = e]
        PROVE  /\ DOMAIN loc' = Actors /\ LocalType(a, loc'[a])
               /\ \A b \in Actors \ {a} : loc'[b] = loc[b]
    BY <1>1, <2>1, <2>2 DEF LocalType
  <2>3. ASSUME NEW e, loc' = [loc EXCEPT ![a] = [loc[a] EXCEPT !.ev = e]]
        PROVE  /\ DOMAIN loc' = Actors /\ LocalType(a, loc'[a])
               /\ \A b \in Actors \ {a} : loc'[b] = loc[b]
    BY <1>1, <2>1, <2>3 DEF LocalType
  <2>4. ASSUME NEW t, loc' = [loc EXCEPT ![a] = [loc[a] EXCEPT !.tmp = t]]
        PROVE  /\ DOMAIN loc' = Actors /\ LocalType(a, loc'[a])
               /\ \A b \in Actors \ {a} : loc'[b] = loc[b]
    BY <1>1, <2>1, <2>4 DEF LocalType
  <2> QED BY <1>3, <2>1, <2>2, <2>3, <2>4
<1>5. l \in Labels \ InGpu /\ pc[a] \notin InGpu /\ pc[a] # "idle"
  BY <1>1 DEF Labels, InGpu
<1> HIDE DEF Places
<1> QED BY <1>1, <1>2, <1>4, <1>5, StaysOut

\* The console returns to its place for the next event, or idles.
LEMMA AllocatedStep ==
    ASSUME GpuInv, console_allocated \/ sys_allocated \/ Take("sys", "ring", "s_wait", "pop")
    PROVE  GpuInv'
<1> USE TypesNow
<1>1. CASE console_allocated
  <2>1. /\ UNCHANGED <<gpu, screen, bufs, did, loc, mishap, irq>> /\ pc["con"] = "alloc"
        /\ Go("con", "idle")
    BY <1>1 DEF console_allocated, InHeap, At, display
  <2> QED BY <2>1, StaysOut DEF Actors, InGpu, Labels
<1>2. CASE sys_allocated
  <2>1. /\ UNCHANGED <<gpu, screen, bufs, did, loc, mishap, irq>> /\ pc["sys"] = "s_alloc"
        /\ Go("sys", "s_wait")
    BY <1>2 DEF sys_allocated, InHeap, At, display
  <2> QED BY <2>1, StaysOut DEF Actors, InGpu, Labels
<1>3. CASE Take("sys", "ring", "s_wait", "pop")
  <2>1. /\ UNCHANGED <<gpu, screen, bufs, did, loc, mishap, irq>> /\ pc["sys"] = "s_wait"
        /\ Go("sys", "pop")
    BY <1>3 DEF Take, At, display
  <2> QED BY <2>1, StaysOut DEF Actors, InGpu, Labels
<1> QED BY <1>1, <1>2, <1>3

\* A system call has popped an event, or all of them.
LEMMA SysPoppedStep == ASSUME GpuInv, sys_popped \/ sys_pops_over PROVE GpuInv'
<1> USE TypesNow
<1>1. /\ UNCHANGED <<gpu, screen, bufs, did, irq, mishap>> /\ pc["sys"] \in {"pop", "popped"}
      /\ "sys" \in Actors
  BY DEF sys_popped, sys_pops_over, At, display, Actors
<1>2. pc["sys"] \notin InGpu
  BY <1>1 DEF InGpu
<1>3. CASE sys_pops_over
  <2>1. loc["sys"].ret = "idle"
    BY <1>1 DEF LocalType, Returns
  <2>2. /\ DOMAIN loc' = Actors /\ LocalType("sys", loc'["sys"])
        /\ \A b \in Actors \ {"sys"} : loc'[b] = loc[b]
    BY <1>1, <1>3, BackTo DEF sys_pops_over
  <2>3. Go("sys", "idle") /\ "idle" \in Labels \ InGpu
    BY <1>3, <2>1 DEF sys_pops_over, Back, Labels, InGpu
  <2> QED BY <1>1, <1>2, <2>2, <2>3, StaysOut
<1>4. CASE sys_popped
  <2> DEFINE c == [loc["sys"] EXCEPT !.left = @ - 1, !.tmp = 0, !.ev = NoEvent]
  <2>1. loc' = [loc EXCEPT !["sys"] = c] /\ Go("sys", "pop")
    BY <1>4 DEF sys_popped
  <2>2. LocalType("sys", c)
    BY <1>1 DEF LocalType
  <2> HIDE DEF c
  <2>3. /\ DOMAIN loc' = Actors /\ LocalType("sys", loc'["sys"])
        /\ \A b \in Actors \ {"sys"} : loc'[b] = loc[b]
    BY <1>1, <2>1, <2>2, NewLocal
  <2>4. "pop" \in Labels \ InGpu
    BY DEF Labels, InGpu
  <2> QED BY <1>1, <1>2, <2>1, <2>3, <2>4, StaysOut
<1> QED BY <1>3, <1>4

\* The trap handler outside the gpu's: from one line's handlers to the next.
LEMMA HandlerStep ==
    ASSUME GpuInv, (\E line \in Pending : plic_claim(line)) \/ call_handler \/ plic_complete
    PROVE  GpuInv'
<1> USE TypesNow
<1>1. UNCHANGED <<gpu, screen, bufs, did, mishap, loc>> /\ "irq" \in Actors
  BY DEF plic_claim, call_handler, plic_complete, display, Actors
<1>2. pc["irq"] \in {"idle", "call"}
  BY DEF plic_claim, call_handler, plic_complete, At, GpuTypes, HandlerIdle
<1>3. PICK l \in {"idle", "call", "gpu_isr", "in_wait"} : Go("irq", l)
  BY DEF plic_claim, call_handler, plic_complete
<1>4. l \in Labels \ InGpu
  BY DEF Labels, InGpu
<1>5. /\ pc' \in [Actors -> Labels] /\ pc'["irq"] = l
      /\ \A b \in Actors \ {"irq"} : pc'[b] = pc[b]
  BY <1>1, <1>3, <1>4, GoTo
<1>6. HandlerIdle'
  <2>1. CASE \E line \in Pending : plic_claim(line)
    <3>1. PICK line \in Enabled : irq' = [line |-> line, todo |-> pcie_handle_irq(pci, line)]
      BY <2>1 DEF plic_claim
    <3>2. line # 0
      BY DEF Enabled, PLIC_INT_CODE_IRQ0
    <3>3. "line" \in DOMAIN irq' /\ irq'.line = line
      BY <3>1
    <3> QED BY <3>2, <3>3 DEF HandlerIdle
  <2>2. CASE call_handler
    <3>1. irq' = [irq EXCEPT !.todo = Tail(@)] /\ pc["irq"] = "call"
      BY <2>2 DEF call_handler, At
    <3>2. "line" \in DOMAIN irq' /\ irq'.line = irq.line
      BY <3>1 DEF GpuTypes, HandlerIdle
    <3> QED BY <3>1, <3>2 DEF GpuTypes, HandlerIdle
  <2>3. CASE plic_complete
    <3>1. irq' = [irq EXCEPT !.line = 0] /\ pc' = [pc EXCEPT !["irq"] = "idle"]
      BY <2>3 DEF plic_complete, Go
    <3> QED BY <3>1, <1>1 DEF GpuTypes, HandlerIdle
  <2> QED BY <2>1, <2>2, <2>3
<1>7. GpuTypes'
  BY <1>1, <1>5, <1>6 DEF GpuTypes
<1>8. pc["irq"] \notin InGpu
  BY <1>2 DEF InGpu
<1> QED BY <1>1, <1>4, <1>5, <1>7, <1>8, Elsewhere

\* input_irq_handler
LEMMA InputStep ==
    ASSUME GpuInv, Take("irq", "ring", "in_wait", "in_device") \/ in_device \/ in_events
    PROVE  GpuInv'
<1> USE TypesNow
<1>1. UNCHANGED <<gpu, screen, bufs, did, irq>> /\ "irq" \in Actors
  BY DEF Take, in_device, in_events, display, Actors
<1>2. pc["irq"] \notin InGpu /\ pc["irq"] # "idle"
  BY DEF Take, in_device, in_events, At, InGpu
<1>3. CASE Take("irq", "ring", "in_wait", "in_device")
  <2>1. Go("irq", "in_device") /\ UNCHANGED <<loc, mishap>>
    BY <1>3 DEF Take
  <2> QED BY <1>1, <1>2, <2>1, StaysOut DEF Labels, InGpu
<1>4. CASE in_device
  <2>1. \E l \in Labels \ InGpu : Go("irq", l)
    BY <1>4 DEF in_device, InGpu, Labels
  <2>2. \/ loc' = [loc EXCEPT !["irq"] = Local]
        \/ loc' = [loc EXCEPT !["irq"].i = loc["irq"].i + 1]
    BY <1>4 DEF in_device
  <2>3. /\ DOMAIN loc' = Actors /\ LocalType("irq", loc'["irq"])
        /\ \A b \in Actors \ {"irq"} : loc'[b] = loc[b]
    BY <2>2, <1>1, LocalIsLocal DEF LocalType
  <2>4. UNCHANGED mishap
    BY <1>4 DEF in_device
  <2> QED BY <1>1, <1>2, <2>1, <2>3, <2>4, StaysOut
<1>5. CASE in_events
  <2>1. UNCHANGED loc /\ mishap \subseteq mishap' /\ ("wild" \in mishap' => "wild" \in mishap)
    BY <1>5 DEF in_events, TornByPush
  <2>2. CASE Go("irq", "in_device")
    BY <1>1, <1>2, <2>1, <2>2, StaysOut DEF Labels, InGpu
  <2>3. CASE UNCHANGED pc
    <3>1. GpuTypes'
      BY <1>1, <2>1, <2>3 DEF GpuTypes, HandlerIdle
    <3> QED BY <1>1, <2>1, <2>3, <3>1, Elsewhere
  <2> QED BY <1>5, <2>2, <2>3 DEF in_events
<1> QED BY <1>3, <1>4, <1>5

\* A command or a system call that does not enter the gpu begins.
LEMMA BeginStep ==
    ASSUME GpuInv, NEW a \in {"con", "sys"}, NEW l \in Labels \ InGpu, NEW c,
           LocalType(a, c), Begin(a, l, c), UNCHANGED mishap
    PROVE  GpuInv'
<1> USE TypesNow
<1>1. /\ UNCHANGED <<gpu, screen, bufs, irq>> /\ a \in Actors /\ pc[a] \notin InGpu
      /\ Go(a, l) /\ loc' = [loc EXCEPT ![a] = c] /\ did' = [did EXCEPT ![a] = @ + 1]
  BY DEF Begin, At, display, Actors, InGpu
<1>2. did' \in DidType
  <2>1. CASE a = "con"
    BY <2>1, <1>1
  <2>2. CASE a = "sys"
    BY <2>2, <1>1
  <2> QED BY <2>1, <2>2
<1>3. /\ DOMAIN loc' = Actors /\ LocalType(a, loc'[a])
      /\ \A b \in Actors \ {a} : loc'[b] = loc[b]
  BY <1>1, NewLocal
<1> QED BY <1>1, <1>2, <1>3, StaysOut

LEMMA OtherCallStep ==
    ASSUME GpuInv,
           \/ console_inputring_pop \/ gpu_draw_from_cursor \/ gpu_regions_test
           \/ console_alloc \/ syscall_get_input
    PROVE  GpuInv'
<1>1. UNCHANGED mishap
  BY DEF console_inputring_pop, gpu_draw_from_cursor, gpu_regions_test, console_alloc,
         syscall_get_input
<1>2. \E a \in {"con", "sys"}, l \in {"pop", "alloc", "s_alloc"} : \E n, t :
         \/ Begin(a, l, Local)
         \/ Begin(a, l, [Local EXCEPT !.left = n, !.tracker = t])
         \/ Begin(a, l, [Local EXCEPT !.left = n])
  BY DEF console_inputring_pop, gpu_draw_from_cursor, gpu_regions_test, console_alloc,
         syscall_get_input
<1>3. ASSUME NEW a, NEW n, NEW t
      PROVE  /\ LocalType(a, Local) /\ LocalType(a, [Local EXCEPT !.left = n])
             /\ LocalType(a, [Local EXCEPT !.left = n, !.tracker = t])
  BY DEF LocalType, Local, Returns
<1>4. {"pop", "alloc", "s_alloc"} \subseteq Labels \ InGpu
  BY DEF Labels, InGpu, Allocating
<1> QED BY <1>1, <1>2, <1>3, <1>4, BeginStep

LEMMA DeviceStep ==
    ASSUME GpuInv, (\E k \in DOMAIN inputs : SendEvent(k)) \/ (\E z \in Sizes : Resize(z))
    PROVE  GpuInv'
<1> USE TypesNow
<1>1. UNCHANGED <<gpu, bufs, pc, loc, irq, mishap>>
  BY DEF SendEvent, Resize, display
<1>2. CASE \E k \in DOMAIN inputs : SendEvent(k)
  <2>1. UNCHANGED <<screen, did>>
    BY <1>2 DEF SendEvent, display
  <2>2. GpuTypes'
    BY <1>1, <2>1 DEF GpuTypes, HandlerIdle
  <2> QED BY <1>1, <2>1, <2>2, Elsewhere
<1>3. CASE \E z \in Sizes : Resize(z)
  <2>1. PICK z \in Sizes : /\ did' = [did EXCEPT !.resize = @ + 1]
                           /\ screen' = [screen EXCEPT !.display = z, !.event = TRUE, !.isr = TRUE]
    BY <1>3 DEF Resize
  <2>2. z \in Nat
    BY DevicesAssumption
  <2>3. /\ did' \in DidType
        /\ screen' \in ScreenType
        /\ screen'.res = screen.res /\ screen'.backing = screen.backing
    <3>1. did' \in DidType
      BY <2>1
    <3>2. screen' \in ScreenType
      BY <2>1, <2>2
    <3>3. screen'.res = screen.res /\ screen'.backing = screen.backing
      BY <2>1
    <3> QED BY <3>1, <3>2, <3>3
  <2>4. GpuTypes'
    BY <1>1, <2>3 DEF GpuTypes, HandlerIdle
  <2> QED BY <1>1, <2>3, <2>4, Elsewhere
<1> QED BY <1>2, <1>3
----------------------------------------------------------------------------
(* Steps into the gpu *)

\* A command or a system call enters the gpu.
LEMMA BeginGpuStep ==
    ASSUME GpuInv, NEW a \in {"con", "sys"}, NEW l \in {"init", "fill", "transfer"},
           Begin(a, l, Local), mishap \union Overlaps(a) \subseteq mishap',
           "wild" \in mishap' => "wild" \in mishap,
           l = "init" /\ ~Excused' => gpu.fb = 0
    PROVE  GpuInv'
<1> USE TypesNow
<1>1. /\ UNCHANGED <<gpu, screen, bufs, irq>> /\ a \in Actors /\ pc[a] \notin InGpu
      /\ Go(a, l) /\ loc' = [loc EXCEPT ![a] = Local] /\ did' = [did EXCEPT ![a] = @ + 1]
  BY DEF Begin, At, display, Actors, InGpu
<1>2. did' \in DidType
  <2>1. CASE a = "con"
    BY <2>1, <1>1
  <2>2. CASE a = "sys"
    BY <2>2, <1>1
  <2> QED BY <2>1, <2>2
<1>3. /\ DOMAIN loc' = Actors /\ \A b \in Actors : LocalType(b, loc'[b])
      /\ loc'[a] = Local
  BY <1>1, NewLocal, LocalIsLocal
<1>4. l \in Labels /\ l \in InGpu
  BY DEF Labels, InGpu
<1>5. /\ pc' \in [Actors -> Labels] /\ pc'[a] = l
      /\ \A b \in Actors \ {a} : pc'[b] = pc[b]
  BY <1>1, <1>4, GoTo
<1>6. HandlerIdle'
  BY <1>1, <1>5, HandlerKept
<1>7. GpuTypes'
  BY <1>1, <1>2, <1>3, <1>5, <1>6 DEF GpuTypes
<1>8. ASSUME ~Excused', AtRest PROVE GpuAt(a)'
  <2>1. loc'[a].ret # "unset"
    BY <1>3, LocalIsLocal
  <2>2. l = "init" => NoResource' /\ ~gpu'.active
    BY <1>1, <1>8 DEF AtRest, Shown, Allocated, Untouched, NoResource
  <2>3. Shown' \/ (Untouched' /\ ~gpu'.active)
    BY <1>1, <1>8 DEF AtRest, Shown, Allocated, Untouched
  <2> QED BY <2>1, <2>2, <2>3, <1>5 DEF GpuAt
<1> QED BY <1>1, <1>4, <1>5, <1>7, <1>8, EnterStep

LEMMA GpuCallStep ==
    ASSUME GpuInv, console_gpu_init \/ Draws("con") \/ console_gpu_flush \/ Draws("sys")
    PROVE  GpuInv'
<1>1. CASE console_gpu_init
  <2>1. /\ Begin("con", "init", Local)
        /\ mishap' = mishap \union Overlaps("con")
                        \union (IF gpu.fb # 0 THEN {"init again"} ELSE {})
    BY <1>1 DEF console_gpu_init
  <2>2. mishap \union Overlaps("con") \subseteq mishap' /\ ("wild" \in mishap' => "wild" \in mishap)
    BY <2>1 DEF Overlaps
  <2>3. ~Excused' => gpu.fb = 0
    BY <2>1 DEF Excused, Excuses
  <2> QED BY <2>1, <2>2, <2>3, BeginGpuStep
<1>2. ASSUME NEW a \in {"con", "sys"}, NEW l \in {"fill", "transfer"}, Begin(a, l, Local),
             mishap' = mishap \union Overlaps(a)
      PROVE  GpuInv'
  <2>1. mishap \union Overlaps(a) \subseteq mishap' /\ ("wild" \in mishap' => "wild" \in mishap)
    BY <1>2 DEF Overlaps
  <2> QED BY <1>2, <2>1, BeginGpuStep
<1> QED BY <1>1, <1>2 DEF Draws, console_gpu_flush

\* What the console makes of an event, and of all of them: it goes on, or draws.
LEMMA ConDrawStep ==
    ASSUME GpuInv, pc["con"] \in {"pop", "popped"}, Go("con", "fill"),
           NEW c, LocalType("con", c), loc' = [loc EXCEPT !["con"] = c],
           UNCHANGED <<gpu, screen, bufs, irq, did>>,
           mishap \union Overlaps("con") \subseteq mishap',
           "wild" \in mishap' => "wild" \in mishap
    PROVE  GpuInv'
<1> USE TypesNow
<1>1. "con" \in Actors /\ pc["con"] \notin InGpu /\ "fill" \in Labels /\ "fill" \in InGpu
  BY DEF Actors, InGpu, Labels
<1>2. /\ DOMAIN loc' = Actors /\ \A b \in Actors : LocalType(b, loc'[b])
      /\ loc'["con"] = c
  BY <1>1, NewLocal
<1>3. /\ pc' \in [Actors -> Labels] /\ pc'["con"] = "fill"
      /\ \A b \in Actors \ {"con"} : pc'[b] = pc[b]
  BY <1>1, GoTo
<1>4. HandlerIdle'
  BY <1>1, <1>3, HandlerKept
<1>5. GpuTypes'
  BY <1>2, <1>3, <1>4 DEF GpuTypes
<1>6. ASSUME AtRest PROVE GpuAt("con")'
  <2>1. loc'["con"].ret # "unset"
    BY <1>2 DEF LocalType, Returns
  <2>2. Shown' \/ (Untouched' /\ ~gpu'.active)
    BY <1>6 DEF AtRest, Shown, Allocated, Untouched
  <2> QED BY <2>1, <2>2, <1>3 DEF GpuAt
<1> QED BY <1>1, <1>3, <1>5, <1>6, EnterStep

LEMMA ConPoppedStep == ASSUME GpuInv, con_popped PROVE GpuInv'
<1> USE TypesNow
<1> DEFINE c == loc["con"]
           next == [c EXCEPT !.left = @ - 1, !.tmp = 0, !.ev = NoEvent]
           e == c.ev.type
           more == [next EXCEPT !.evs = Append(@, e)]
           track == [next EXCEPT !.tracker = Tracked(c.tracker, e),
                                 !.x = @ \/ (c.tracker = "default" /\ e = "x"),
                                 !.y = @ \/ (c.tracker = "xpos" /\ e = "y"),
                                 !.ret = IF Clicked(c.tracker, e) THEN "pop" ELSE @]
<1>1. UNCHANGED <<gpu, screen, bufs, irq, did>> /\ pc["con"] = "popped" /\ "con" \in Actors
  BY DEF con_popped, At, display, Actors
<1>2. LocalType("con", c)
  BY <1>1
<1>3. LocalType("con", next) /\ LocalType("con", more)
  BY <1>2 DEF LocalType
<1>4. LocalType("con", track)
  BY <1>2 DEF LocalType, Returns
<1>5. \/ Go("con", "pop") /\ UNCHANGED mishap
         /\ \/ loc' = [loc EXCEPT !["con"] = next] \/ loc' = [loc EXCEPT !["con"] = more]
            \/ loc' = [loc EXCEPT !["con"] = track]
      \/ /\ Go("con", "fill") /\ loc' = [loc EXCEPT !["con"] = track]
         /\ mishap' = mishap \union Overlaps("con")
               \union (IF c.x /\ c.y THEN {} ELSE {"no position"})
  BY DEF con_popped
<1> HIDE DEF c, next, e, more, track
<1>6. CASE Go("con", "fill") /\ loc' = [loc EXCEPT !["con"] = track]
             /\ mishap' = mishap \union Overlaps("con")
                   \union (IF c.x /\ c.y THEN {} ELSE {"no position"})
  <2>1. mishap \union Overlaps("con") \subseteq mishap' /\ ("wild" \in mishap' => "wild" \in mishap)
    BY <1>6 DEF Overlaps
  <2> QED BY <1>1, <1>4, <1>6, <2>1, ConDrawStep
<1>7. ASSUME NEW d, LocalType("con", d), loc' = [loc EXCEPT !["con"] = d], Go("con", "pop"),
             UNCHANGED mishap
      PROVE  GpuInv'
  <2>1. /\ DOMAIN loc' = Actors /\ LocalType("con", loc'["con"])
        /\ \A b \in Actors \ {"con"} : loc'[b] = loc[b]
    BY <1>1, <1>7, NewLocal
  <2>2. pc["con"] \notin InGpu /\ "pop" \in Labels \ InGpu
    BY <1>1 DEF InGpu, Labels
  <2> QED BY <1>1, <1>7, <2>1, <2>2, StaysOut
<1> QED BY <1>3, <1>4, <1>5, <1>6, <1>7

LEMMA ConPopsOverStep == ASSUME GpuInv, con_pops_over PROVE GpuInv'
<1> USE TypesNow
<1>1. /\ UNCHANGED <<gpu, screen, bufs, irq, did>> /\ pc["con"] = "pop" /\ "con" \in Actors
      /\ loc' = [loc EXCEPT !["con"] = Local]
  BY DEF con_pops_over, At, display, Actors
<1>2. CASE Go("con", "fill") /\ mishap' = mishap \union Overlaps("con")
  <2>1. mishap \union Overlaps("con") \subseteq mishap' /\ ("wild" \in mishap' => "wild" \in mishap)
    BY <1>2 DEF Overlaps
  <2> QED BY <1>1, <1>2, <2>1, LocalIsLocal, ConDrawStep
<1>3. CASE Go("con", "idle") /\ UNCHANGED mishap
  <2>1. /\ DOMAIN loc' = Actors /\ LocalType("con", loc'["con"])
        /\ \A b \in Actors \ {"con"} : loc'[b] = loc[b]
    BY <1>1, LocalIsLocal, NewLocal
  <2>2. pc["con"] \notin InGpu /\ "idle" \in Labels \ InGpu
    BY <1>1 DEF InGpu, Labels
  <2> QED BY <1>1, <1>3, <2>1, <2>2, StaysOut
<1> QED BY <1>2, <1>3 DEF con_pops_over

\* gpu_irq_handler: an acknowledgement, or the display has changed.
LEMMA GpuIsrStep == ASSUME GpuInv, gpu_isr PROVE GpuInv'
<1> USE TypesNow
<1> DEFINE r == IF ~screen.event THEN "idle" ELSE IF gpu.fb = 0 THEN "call" ELSE "unset"
           l == IF ~screen.event THEN "call" ELSE IF gpu.fb = 0 THEN "init" ELSE "set"
<1>1. /\ UNCHANGED <<gpu, bufs, irq, did>> /\ pc["irq"] = "gpu_isr" /\ "irq" \in Actors
      /\ screen' = [screen EXCEPT !.isr = FALSE, !.event = FALSE]
      /\ loc' = [loc EXCEPT !["irq"].ret = r] /\ Go("irq", l)
      /\ mishap' = mishap \union (IF screen.event THEN Overlaps("irq") ELSE {})
  BY DEF gpu_isr, At, display, Actors
<1>2. screen' \in ScreenType
  BY <1>1
<1>3. screen'.res = screen.res /\ screen'.backing = screen.backing
  BY <1>1
<1>4. /\ DOMAIN loc' = Actors /\ LocalType("irq", loc'["irq"])
      /\ \A b \in Actors \ {"irq"} : loc'[b] = loc[b]
  BY <1>1 DEF LocalType, Returns
<1>5. pc["irq"] \notin InGpu /\ l \in Labels
  BY <1>1 DEF InGpu, Labels
<1>6. "wild" \in mishap' => "wild" \in mishap
  BY <1>1 DEF Overlaps
<1>7. CASE ~screen.event
  <2>1. l = "call" /\ mishap' = mishap /\ "call" \in Labels \ InGpu
    BY <1>1, <1>7 DEF Labels, InGpu
  <2> HIDE DEF l, r
  <2> QED BY <1>1, <1>2, <1>3, <1>4, <1>5, <2>1, StaysOut
<1>8. CASE screen.event
  <2>1. l \in InGpu /\ mishap \union Overlaps("irq") \subseteq mishap'
    BY <1>1, <1>8 DEF InGpu
  <2>2. l = IF gpu.fb = 0 THEN "init" ELSE "set"
    BY <1>8
  <2> HIDE DEF l, r
  <2>3. /\ pc' \in [Actors -> Labels] /\ pc'["irq"] = l
        /\ \A b \in Actors \ {"irq"} : pc'[b] = pc[b]
    BY <1>1, <1>5, GoTo
  <2>4. HandlerIdle'
    BY <1>1, <2>3, HandlerKept
  <2>5. \A b \in Actors : LocalType(b, loc'[b])
    BY <1>4
  <2>6. GpuTypes'
    BY <1>1, <1>2, <1>4, <2>3, <2>4, <2>5 DEF GpuTypes
  <2>7. ASSUME AtRest PROVE GpuAt("irq")'
    <3>1. gpu.fb = 0 => NoResource' /\ ~gpu'.active
      BY <2>7, <1>1, <1>3 DEF AtRest, Shown, Allocated, Untouched, NoResource
    <3>2. gpu.fb # 0 => Shown'
      BY <2>7, <1>1, <1>3 DEF AtRest, Shown, Allocated, Untouched
    <3> QED BY <3>1, <3>2, <2>2, <2>3 DEF GpuAt
  <2> QED BY <1>1, <1>5, <1>6, <2>1, <2>3, <2>6, <2>7, EnterStep
<1> QED BY <1>7, <1>8
----------------------------------------------------------------------------
(* Steps inside the gpu *)

LEMMA InsideTypes ==
    ASSUME GpuInv, NEW a \in Actors, pc[a] \in InGpu, pc' \in [Actors -> Labels],
           \A b \in Actors \ {a} : pc'[b] = pc[b],
           DOMAIN loc' = Actors, \A b \in Actors : LocalType(b, loc'[b]),
           gpu' \in GpuType, screen' \in ScreenType,
           did' \in DidType, UNCHANGED irq
    PROVE  GpuTypes'
<1>1. GpuTypes /\ pc[a] # "idle"
  BY DEF GpuInv, InGpu
<1>2. HandlerIdle'
  BY <1>1, HandlerKept
<1> QED BY <1>2 DEF GpuTypes

\* The gpu's mutex is taken.
LEMMA TakeGpuStep ==
    ASSUME GpuInv, NEW a \in Actors,
           \/ Take(a, "gpu", "init", "init_test") \/ Take(a, "gpu", "done", "done_clear")
           \/ Take(a, "gpu", "set", "set_active") \/ Take(a, "gpu", "unset", "unset_clear")
    PROVE  GpuInv'
<1> USE TypesNow
<1>1. UNCHANGED <<gpu, screen, bufs, irq, did, loc, mishap>>
  BY DEF Take, display
<1>2. PICK l \in {"init_test", "done_clear", "set_active", "unset_clear"} :
         /\ Go(a, l)
         /\ pc[a] = IF l = "init_test" THEN "init" ELSE IF l = "done_clear" THEN "done"
                    ELSE IF l = "set_active" THEN "set" ELSE "unset"
  BY DEF Take, At
<1>3. l \in Labels /\ l \in InGpu /\ pc[a] \in InGpu
  BY <1>2 DEF Labels, InGpu
<1>4. /\ pc' \in [Actors -> Labels] /\ pc'[a] = l
      /\ \A b \in Actors \ {a} : pc'[b] = pc[b]
  BY <1>2, <1>3, GoTo
<1>5. GpuTypes'
  BY <1>1, <1>3, <1>4, InsideTypes DEF GpuTypes
<1>6. GpuAt(a) => GpuAt(a)'
  <2>1. (Shown' <=> Shown) /\ (NoResource' <=> NoResource)
    BY <1>1 DEF Shown, Allocated, NoResource
  <2> QED BY <1>1, <1>2, <1>4, <2>1 DEF GpuAt
<1> QED BY <1>1, <1>3, <1>4, <1>5, <1>6, InsideStep

LEMMA InitTestStep == ASSUME GpuInv, NEW a \in Actors, init_test(a) PROVE GpuInv'
<1> USE TypesNow
<1>1. UNCHANGED <<screen, bufs, irq, did, mishap>> /\ pc[a] = "init_test" /\ pc[a] \in InGpu
  BY DEF init_test, At, InGpu
<1>2. CASE gpu.active /\ Back(a) /\ UNCHANGED gpu
  <2>1. /\ pc' \in [Actors -> Labels] /\ \A b \in Actors \ {a} : pc'[b] = pc[b]
        /\ DOMAIN loc' = Actors /\ \A b \in Actors : LocalType(b, loc'[b])
    BY <1>2, BackTo
  <2>2. GpuTypes'
    BY <1>1, <1>2, <2>1, InsideTypes DEF GpuTypes
  <2>3. ~GpuAt(a)
    BY <1>1, <1>2 DEF GpuAt
  <2> QED BY <1>1, <2>1, <2>2, <2>3, InsideStep
<1>3. CASE ~gpu.active /\ gpu' = [gpu EXCEPT !.active = TRUE] /\ Go(a, "info") /\ UNCHANGED loc
  <2>1. "info" \in Labels /\ "info" \in InGpu
    BY DEF Labels, InGpu
  <2>2. /\ pc' \in [Actors -> Labels] /\ pc'[a] = "info"
        /\ \A b \in Actors \ {a} : pc'[b] = pc[b]
    BY <1>3, <2>1, GoTo
  <2>3. gpu' \in GpuType
    BY <1>3 DEF GpuTypes
  <2>4. GpuTypes'
    BY <1>1, <1>3, <2>2, <2>3, InsideTypes
  <2>5. GpuAt(a) => GpuAt(a)'
    BY <1>1, <2>2 DEF GpuAt, NoResource
  <2> QED BY <1>1, <2>1, <2>2, <2>4, <2>5, InsideStep
<1> QED BY <1>2, <1>3 DEF init_test

\* gpu_get_display_info: with the display off the init is over, which is excused.
LEMMA DisplayInfoStep == ASSUME GpuInv, NEW a \in Actors, gpu_get_display_info(a) PROVE GpuInv'
<1> USE TypesNow
<1>1. /\ UNCHANGED <<gpu, bufs, irq, did>> /\ pc[a] = "info" /\ pc[a] \in InGpu
      /\ screen' = [screen EXCEPT !.isr = TRUE]
  BY DEF gpu_get_display_info, InHeap, At, Asked, InGpu
<1>2. screen' \in ScreenType /\ screen'.res = screen.res /\ screen'.backing = screen.backing
  BY <1>1
<1>3. CASE screen.display = 0 /\ Back(a) /\ mishap' = mishap \union {"display off"}
  <2>1. /\ pc' \in [Actors -> Labels] /\ \A b \in Actors \ {a} : pc'[b] = pc[b]
        /\ DOMAIN loc' = Actors /\ \A b \in Actors : LocalType(b, loc'[b])
    BY <1>3, BackTo
  <2>2. GpuTypes'
    BY <1>1, <1>2, <2>1, InsideTypes DEF GpuTypes
  <2>3. Excused'
    BY <1>3 DEF Excused, Excuses
  <2> QED BY <2>2, <2>3 DEF GpuInv
<1>4. CASE /\ screen.display # 0 /\ Go(a, "fb") /\ UNCHANGED mishap
           /\ loc' = [loc EXCEPT ![a].info = screen.display]
  <2>1. "fb" \in Labels /\ "fb" \in InGpu
    BY DEF Labels, InGpu
  <2>2. /\ pc' \in [Actors -> Labels] /\ pc'[a] = "fb"
        /\ \A b \in Actors \ {a} : pc'[b] = pc[b]
    BY <1>4, <2>1, GoTo
  <2>3. /\ DOMAIN loc' = Actors /\ \A b \in Actors : LocalType(b, loc'[b])
        /\ loc'[a].info # 0
    BY <1>4 DEF LocalType
  <2>4. GpuTypes'
    BY <1>1, <1>2, <2>2, <2>3, InsideTypes DEF GpuTypes
  <2>5. GpuAt(a) => GpuAt(a)'
    BY <1>1, <1>2, <2>2, <2>3 DEF GpuAt, NoResource
  <2> QED BY <1>1, <1>4, <2>1, <2>2, <2>4, <2>5, InsideStep
<1> QED BY <1>3, <1>4 DEF gpu_get_display_info

\* The new frame buffer has an address no buffer has had.
LEMMA FrameBufferStep == ASSUME GpuInv, NEW a \in Actors, new_frame_buffer(a) PROVE GpuInv'
<1> USE TypesNow
<1>1. /\ UNCHANGED <<screen, irq, loc, mishap>> /\ pc[a] = "fb" /\ pc[a] \in InGpu
      /\ Go(a, "create") /\ "create" \in Labels /\ "create" \in InGpu
      /\ did' = [did EXCEPT !.buffers = @ + 1]
      /\ gpu' = [gpu EXCEPT !.fb = did.buffers + 1, !.size = loc[a].info]
      /\ bufs' = bufs \union {<<did.buffers + 1, loc[a].info>>}
  BY DEF new_frame_buffer, InHeap, At, InGpu, Labels
<1>2. did.buffers \in Nat /\ loc[a].info \in Nat
  BY DEF LocalType
<1>3. gpu' \in GpuType
  <2> DEFINE x == did.buffers + 1
             y == loc[a].info
  <2>1. gpu \in GpuType /\ x \in Nat /\ y \in Nat
    BY <1>2 DEF GpuTypes
  <2>2. gpu' = [gpu EXCEPT !.fb = x, !.size = y]
    BY <1>1
  <2> HIDE DEF x, y
  <2> HIDE TypesNow
  <2> QED BY <2>1, <2>2
<1>4. gpu'.fb = did.buffers + 1 /\ gpu'.size = loc[a].info
  BY <1>1 DEF GpuTypes
<1>5. did' \in DidType
  BY <1>1
<1>6. /\ pc' \in [Actors -> Labels] /\ pc'[a] = "create"
      /\ \A b \in Actors \ {a} : pc'[b] = pc[b]
  BY <1>1, GoTo
<1>7. GpuTypes'
  BY <1>1, <1>3, <1>5, <1>6, InsideTypes
<1>8. ASSUME GpuAt(a) PROVE GpuAt(a)'
  <2>1. NoResource' /\ loc[a].info # 0
    BY <1>1, <1>8 DEF GpuAt, NoResource
  <2>2. Allocated'
    BY <1>1, <1>2, <1>4, <2>1 DEF Allocated
  <2> QED BY <1>6, <2>1, <2>2 DEF GpuAt
<1> QED BY <1>1, <1>6, <1>7, <1>8, InsideStep

\* A command the device accepts goes on; one it refuses returns, and then the
\* gpu is untouched and the caller is not gpu_init of a resize.
LEMMA CommandStep ==
    ASSUME GpuInv, NEW a \in Actors, NEW accepted, NEW l \in InGpu, NEW then \in InGpu,
           NEW z \in ScreenType, Command(a, l, accepted, then, z),
           GpuAt(a) /\ ~accepted => Untouched /\ ~gpu.active /\ loc[a].ret # "unset",
           GpuAt(a) /\ accepted /\ UNCHANGED <<gpu, bufs, loc>> /\ pc'[a] = then
              /\ screen'.res = z.res /\ screen'.backing = z.backing => GpuAt(a)'
    PROVE  GpuInv'
<1> USE TypesNow
<1>1. UNCHANGED <<gpu, bufs, irq, did, mishap>> /\ pc[a] = l
  BY DEF Command, InHeap, At
<1>2. gpu \in GpuType
  BY DEF GpuTypes
<1>3. CASE accepted /\ Asked(z) /\ Go(a, then) /\ UNCHANGED loc
  <2>1. screen' \in ScreenType /\ screen'.res = z.res /\ screen'.backing = z.backing
    BY <1>3 DEF Asked
  <2>2. then \in Labels
    BY DEF Labels
  <2>3. /\ pc' \in [Actors -> Labels] /\ pc'[a] = then
        /\ \A b \in Actors \ {a} : pc'[b] = pc[b]
    BY <1>3, <2>2, GoTo
  <2>4. GpuTypes'
    BY <1>1, <1>2, <1>3, <2>1, <2>3, InsideTypes
  <2>5. GpuAt(a) => GpuAt(a)'
    BY <1>1, <1>3, <2>1, <2>3
  <2> QED BY <1>1, <2>3, <2>4, <2>5, InsideStep
<1>4. CASE ~accepted /\ Asked(screen) /\ Back(a)
  <2>1. screen' \in ScreenType /\ screen'.res = screen.res /\ screen'.backing = screen.backing
    BY <1>4 DEF Asked
  <2>2. /\ pc' \in [Actors -> Labels] /\ \A b \in Actors \ {a} : pc'[b] = pc[b]
        /\ DOMAIN loc' = Actors /\ \A b \in Actors : LocalType(b, loc'[b])
        /\ pc'[a] = loc[a].ret /\ loc[a].ret \in Returns(a)
    BY <1>4, BackTo
  <2>3. GpuTypes'
    BY <1>1, <1>2, <2>1, <2>2, InsideTypes
  <2>4. GpuAt(a) => AtRest' /\ pc'[a] \notin InGpu
    <3> SUFFICES ASSUME GpuAt(a) PROVE AtRest' /\ pc'[a] \notin InGpu
      OBVIOUS
    <3>1. Untouched /\ ~gpu.active /\ loc[a].ret # "unset"
      BY <1>4
    <3>2. pc'[a] \notin InGpu
      BY <2>2, <3>1 DEF Returns, InGpu
    <3> QED BY <1>1, <2>1, <3>1, <3>2 DEF AtRest, Untouched
  <2> QED BY <1>1, <2>2, <2>3, <2>4, InsideStep
<1> QED BY <1>3, <1>4 DEF Command

LEMMA CreateStep == ASSUME GpuInv, NEW a \in Actors, resource_create_2d(a) PROVE GpuInv'
<1> DEFINE z == [screen EXCEPT !.res = gpu.size]
           accepted == screen.res = 0
<1>1. Command(a, "create", accepted, "attach", z) /\ pc[a] = "create"
  BY DEF resource_create_2d, Command, InHeap, At
<1>2. screen \in ScreenType /\ gpu \in GpuType
  BY TypesNow DEF GpuTypes
<1>3. z \in ScreenType /\ z.res = gpu.size /\ z.backing = screen.backing
  BY <1>2
<1>4. GpuAt(a) => accepted
  BY <1>1 DEF GpuAt, NoResource
<1> HIDE DEF z, accepted
<1>5. GpuAt(a) /\ UNCHANGED <<gpu, bufs, loc>> /\ pc'[a] = "attach"
         /\ screen'.res = z.res /\ screen'.backing = z.backing => GpuAt(a)'
  BY <1>1, <1>3 DEF GpuAt, NoResource, Allocated
<1>6. "create" \in InGpu /\ "attach" \in InGpu
  BY DEF InGpu
<1> QED BY <1>1, <1>3, <1>4, <1>5, <1>6, CommandStep

LEMMA AttachStep == ASSUME GpuInv, NEW a \in Actors, attach_backing(a) PROVE GpuInv'
<1> DEFINE z == [screen EXCEPT !.backing = gpu.fb]
           accepted == screen.res # 0 /\ screen.backing = 0
<1>1. Command(a, "attach", accepted, "scanout", z) /\ pc[a] = "attach"
  BY DEF attach_backing, Command, InHeap, At
<1>2. screen \in ScreenType /\ gpu \in GpuType
  BY TypesNow DEF GpuTypes
<1>3. z \in ScreenType /\ z.res = screen.res /\ z.backing = gpu.fb
  BY <1>2
<1>4. GpuAt(a) => accepted
  BY <1>1 DEF GpuAt, Allocated
<1> HIDE DEF z, accepted
<1>5. GpuAt(a) /\ UNCHANGED <<gpu, bufs, loc>> /\ pc'[a] = "scanout"
         /\ screen'.res = z.res /\ screen'.backing = z.backing => GpuAt(a)'
  BY <1>1, <1>3 DEF GpuAt, Shown, Allocated
<1>6. "attach" \in InGpu /\ "scanout" \in InGpu
  BY DEF InGpu
<1> QED BY <1>1, <1>3, <1>4, <1>5, <1>6, CommandStep

LEMMA ScanoutStep == ASSUME GpuInv, NEW a \in Actors, set_scanout(a) PROVE GpuInv'
<1> DEFINE accepted == screen.res # 0 /\ gpu.size <= screen.res
<1>1. Command(a, "scanout", accepted, "fill", screen) /\ pc[a] = "scanout"
  BY DEF set_scanout, Command, InHeap, At
<1>2. screen \in ScreenType /\ gpu \in GpuType
  BY TypesNow DEF GpuTypes
<1>3. GpuAt(a) => accepted
  BY <1>1, <1>2 DEF GpuAt, Shown, Allocated
<1> HIDE DEF accepted
<1>4. GpuAt(a) /\ UNCHANGED <<gpu, bufs, loc>> /\ pc'[a] = "fill"
         /\ screen'.res = screen.res /\ screen'.backing = screen.backing => GpuAt(a)'
  BY <1>1 DEF GpuAt, Shown, Allocated
<1>5. "scanout" \in InGpu /\ "fill" \in InGpu
  BY DEF InGpu
<1> QED BY <1>1, <1>2, <1>3, <1>4, <1>5, CommandStep

\* gpu_transfer_and_flush_some is refused where there is nothing to show yet.
LEMMA TransferStep == ASSUME GpuInv, NEW a \in Actors, transfer_to_host_2d(a) PROVE GpuInv'
<1> DEFINE accepted == screen.backing # 0 /\ gpu.size <= screen.res
<1>1. Command(a, "transfer", accepted, "flush", screen) /\ pc[a] = "transfer"
  BY DEF transfer_to_host_2d, Command, InHeap, At
<1>2. screen \in ScreenType /\ gpu \in GpuType
  BY TypesNow DEF GpuTypes
<1>3. GpuAt(a) /\ ~accepted => Untouched /\ ~gpu.active /\ loc[a].ret # "unset"
  BY <1>1, <1>2 DEF GpuAt, Shown, Allocated
<1>4. accepted => ~Untouched
  BY DEF Untouched
<1> HIDE DEF accepted
<1>5. GpuAt(a) /\ accepted /\ UNCHANGED <<gpu, bufs, loc>> /\ pc'[a] = "flush"
         /\ screen'.res = screen.res /\ screen'.backing = screen.backing => GpuAt(a)'
  BY <1>1, <1>4 DEF GpuAt, Shown, Allocated
<1>6. "transfer" \in InGpu /\ "flush" \in InGpu
  BY DEF InGpu
<1> QED BY <1>1, <1>2, <1>3, <1>5, <1>6, CommandStep

LEMMA FlushStep == ASSUME GpuInv, NEW a \in Actors, resource_flush(a) PROVE GpuInv'
<1> DEFINE accepted == screen.res # 0
<1>1. Command(a, "flush", accepted, "done", screen) /\ pc[a] = "flush"
  BY DEF resource_flush, Command, InHeap, At
<1>2. screen \in ScreenType
  BY TypesNow
<1>3. GpuAt(a) => accepted
  BY <1>1 DEF GpuAt, Shown, Allocated
<1> HIDE DEF accepted
<1>4. GpuAt(a) /\ UNCHANGED <<gpu, bufs, loc>> /\ pc'[a] = "done"
         /\ screen'.res = screen.res /\ screen'.backing = screen.backing => GpuAt(a)'
  BY <1>1 DEF GpuAt, Shown, Allocated
<1>5. "flush" \in InGpu /\ "done" \in InGpu
  BY DEF InGpu
<1> QED BY <1>1, <1>2, <1>3, <1>4, <1>5, CommandStep

\* A fill writes to a frame buffer that is allocated; without one the actor is lost.
LEMMA FillStep == ASSUME GpuInv, NEW a \in Actors, fill(a) PROVE GpuInv'
<1> USE TypesNow
<1>1. UNCHANGED <<gpu, screen, bufs, irq, did, loc>> /\ pc[a] = "fill" /\ pc[a] \in InGpu
  BY DEF fill, InHeap, At, display, InGpu
<1>2. gpu \in GpuType /\ screen \in ScreenType
  BY DEF GpuTypes
<1>3. (Shown' <=> Shown) /\ (Untouched' <=> Untouched) /\ (AtRest' <=> AtRest)
  BY <1>1 DEF Shown, Untouched, Allocated, AtRest
<1>4. CASE gpu.fb = 0 /\ Go(a, "spin") /\ UNCHANGED mishap
  <2>1. "spin" \in Labels /\ "spin" \notin InGpu
    BY DEF Labels, InGpu
  <2>2. /\ pc' \in [Actors -> Labels] /\ pc'[a] = "spin"
        /\ \A b \in Actors \ {a} : pc'[b] = pc[b]
    BY <1>4, <2>1, GoTo
  <2>3. GpuTypes'
    BY <1>1, <1>2, <2>2, InsideTypes
  <2>4. GpuAt(a) => AtRest'
    BY <1>1, <1>3, <1>4 DEF GpuAt, AtRest, Shown, Allocated
  <2> QED BY <1>1, <1>4, <2>1, <2>2, <2>3, <2>4, InsideStep
<1>5. CASE /\ gpu.fb # 0 /\ Go(a, "transfer")
           /\ mishap' = mishap \union (IF Live(gpu.fb, gpu.size) THEN {} ELSE {"wild"})
  <2>1. "transfer" \in Labels /\ "transfer" \in InGpu
    BY DEF Labels, InGpu
  <2>2. /\ pc' \in [Actors -> Labels] /\ pc'[a] = "transfer"
        /\ \A b \in Actors \ {a} : pc'[b] = pc[b]
    BY <1>5, <2>1, GoTo
  <2>3. GpuTypes'
    BY <1>1, <1>2, <2>2, InsideTypes
  <2>4. GpuAt(a) => Shown
    BY <1>1, <1>5 DEF GpuAt, Untouched
  <2>5. Shown => Live(gpu.fb, gpu.size)
    <3>1. gpu.size <= gpu.size
      BY <1>2
    <3>2. <<gpu.fb, gpu.size>>[1] = gpu.fb /\ <<gpu.fb, gpu.size>>[2] = gpu.size
      OBVIOUS
    <3> QED BY <3>1, <3>2 DEF Shown, Allocated, Live
  <2>6. GpuAt(a) => GpuAt(a)' /\ mishap' = mishap
    BY <1>3, <1>5, <2>2, <2>4, <2>5 DEF GpuAt
  <2>7. mishap \subseteq mishap'
    BY <1>5
  <2> QED BY <1>1, <2>1, <2>2, <2>3, <2>6, <2>7, InsideStep
<1> QED BY <1>4, <1>5 DEF fill

\* active = 0 at the end of a draw, an init or the first half of a resize.
LEMMA DoneStep == ASSUME GpuInv, NEW a \in Actors, done_clear(a) PROVE GpuInv'
<1> USE TypesNow
<1>1. /\ UNCHANGED <<screen, bufs, irq, did, mishap>> /\ pc[a] = "done_clear" /\ pc[a] \in InGpu
      /\ gpu' = [gpu EXCEPT !.active = FALSE] /\ Back(a)
  BY DEF done_clear, At, InGpu
<1>2. gpu \in GpuType /\ screen \in ScreenType
  BY DEF GpuTypes
<1>3. gpu' \in GpuType
  BY <1>1, <1>2
<1>4. gpu'.fb = gpu.fb /\ gpu'.size = gpu.size /\ ~gpu'.active
  BY <1>1, <1>2
<1>5. /\ pc' \in [Actors -> Labels] /\ \A b \in Actors \ {a} : pc'[b] = pc[b]
      /\ DOMAIN loc' = Actors /\ \A b \in Actors : LocalType(b, loc'[b])
      /\ pc'[a] = loc[a].ret /\ loc[a].ret \in Returns(a) /\ loc'[a].info = 0
  BY <1>1, BackTo
<1>6. GpuTypes'
  BY <1>1, <1>2, <1>3, <1>5, InsideTypes
<1>7. GpuAt(a) => Shown'
  BY <1>1, <1>4 DEF GpuAt, Shown, Allocated
<1>8. Shown' => AtRest'
  BY <1>4 DEF AtRest
<1>9. pc'[a] \in InGpu => pc'[a] = "unset"
  BY <1>5 DEF Returns, InGpu
<1>10. Shown' /\ pc'[a] = "unset" => GpuAt(a)'
  BY <1>5 DEF GpuAt
<1> QED BY <1>1, <1>5, <1>6, <1>7, <1>8, <1>9, <1>10, InsideStep

\* The handler of a resize.
LEMMA SetActiveStep == ASSUME GpuInv, set_active PROVE GpuInv'
<1> USE TypesNow
<1>1. /\ UNCHANGED <<screen, bufs, irq, did, loc, mishap>>
      /\ pc["irq"] = "set_active" /\ pc["irq"] \in InGpu /\ "irq" \in Actors
      /\ gpu' = [gpu EXCEPT !.active = TRUE] /\ Go("irq", "unref")
      /\ "unref" \in InGpu /\ "unref" \in Labels
  BY DEF set_active, At, InGpu, Labels, Actors
<1>2. gpu \in GpuType /\ screen \in ScreenType
  BY DEF GpuTypes
<1>3. gpu' \in GpuType
  BY <1>1, <1>2
<1>4. gpu'.fb = gpu.fb /\ gpu'.size = gpu.size
  BY <1>1, <1>2
<1>5. /\ pc' \in [Actors -> Labels] /\ pc'["irq"] = "unref"
      /\ \A b \in Actors \ {"irq"} : pc'[b] = pc[b]
  BY <1>1, GoTo
<1>6. GpuTypes'
  BY <1>1, <1>2, <1>3, <1>5, InsideTypes
<1>7. GpuAt("irq") => GpuAt("irq")'
  BY <1>1, <1>4, <1>5 DEF GpuAt, Shown, Allocated
<1> QED BY <1>1, <1>5, <1>6, <1>7, InsideStep

LEMMA UnrefStep == ASSUME GpuInv, resource_unref PROVE GpuInv'
<1> USE TypesNow
<1>1. /\ UNCHANGED <<gpu, irq, did>>
      /\ pc["irq"] = "unref" /\ pc["irq"] \in InGpu /\ "irq" \in Actors
      /\ screen' = [Unreferenced EXCEPT !.isr = TRUE] /\ Go("irq", "unset")
      /\ "unset" \in InGpu /\ "unset" \in Labels
      /\ mishap' = mishap \union (IF \E b \in bufs : b[1] = gpu.fb THEN {} ELSE {"wild"})
      /\ loc' = [loc EXCEPT !["irq"].info = 1]
  BY DEF resource_unref, InHeap, Asked, At, InGpu, Labels, Actors
<1>2. gpu \in GpuType
  BY DEF GpuTypes
<1>3. screen' \in ScreenType
  BY <1>1 DEF Unreferenced
<1>4. screen'.res = 0 /\ screen'.backing = 0
  BY <1>1 DEF Unreferenced
<1>5. /\ pc' \in [Actors -> Labels] /\ pc'["irq"] = "unset"
      /\ \A b \in Actors \ {"irq"} : pc'[b] = pc[b]
  BY <1>1, GoTo
<1>6. /\ DOMAIN loc' = Actors /\ \A b \in Actors : LocalType(b, loc'[b])
      /\ loc'["irq"].info = 1
  BY <1>1 DEF LocalType
<1>7. GpuTypes'
  BY <1>1, <1>2, <1>3, <1>5, <1>6, InsideTypes
<1>8. GpuAt("irq")'
  BY <1>4, <1>5, <1>6 DEF GpuAt, NoResource
<1>9. GpuAt("irq") => mishap' = mishap
  <2>1. <<gpu.fb, gpu.size>>[1] = gpu.fb
    OBVIOUS
  <2>2. GpuAt("irq") => <<gpu.fb, gpu.size>> \in bufs
    BY <1>1 DEF GpuAt, Shown, Allocated
  <2> QED BY <1>1, <2>1, <2>2
<1>10. mishap \subseteq mishap'
  BY <1>1
<1> QED BY <1>1, <1>5, <1>7, <1>8, <1>9, <1>10, InsideStep

LEMMA UnsetStep == ASSUME GpuInv, unset_clear PROVE GpuInv'
<1> USE TypesNow
<1> DEFINE l == IF loc["irq"].info = 1 THEN "init" ELSE "call"
<1>1. /\ UNCHANGED <<screen, bufs, irq, did, mishap>>
      /\ pc["irq"] = "unset_clear" /\ pc["irq"] \in InGpu /\ "irq" \in Actors
      /\ gpu' = [gpu EXCEPT !.active = FALSE] /\ Go("irq", l)
      /\ loc' = [loc EXCEPT !["irq"].info = 0]
  BY DEF unset_clear, At, InGpu, Actors
<1>2. gpu \in GpuType /\ screen \in ScreenType
  BY DEF GpuTypes
<1>3. gpu' \in GpuType
  BY <1>1, <1>2
<1>4. gpu'.fb = gpu.fb /\ gpu'.size = gpu.size /\ ~gpu'.active
  BY <1>1, <1>2
<1>5. DOMAIN loc' = Actors /\ \A b \in Actors : LocalType(b, loc'[b])
  BY <1>1 DEF LocalType
<1>6. l \in Labels /\ (l = "init" \/ l \notin InGpu)
  BY DEF Labels, InGpu
<1>7. GpuAt("irq") => IF l = "init" THEN NoResource ELSE Shown
  BY <1>1 DEF GpuAt
<1> HIDE DEF l
<1>8. /\ pc' \in [Actors -> Labels] /\ pc'["irq"] = l
      /\ \A b \in Actors \ {"irq"} : pc'[b] = pc[b]
  BY <1>1, <1>6, GoTo
<1>9. GpuTypes'
  BY <1>1, <1>2, <1>3, <1>5, <1>8, InsideTypes
<1>10. NoResource /\ l = "init" => GpuAt("irq")'
  BY <1>1, <1>4, <1>8 DEF GpuAt, NoResource
<1>11. Shown => AtRest'
  BY <1>1, <1>4 DEF AtRest, Shown, Allocated
<1>12. "init" \in InGpu
  BY DEF InGpu
<1> QED BY <1>1, <1>6, <1>7, <1>8, <1>9, <1>10, <1>11, <1>12, InsideStep
----------------------------------------------------------------------------
LEMMA GpuInit == Init => GpuInv
<1> SUFFICES ASSUME Init PROVE GpuInv
  OBVIOUS
<1>1. \A a \in Actors : pc[a] = "idle" /\ loc[a] = Local
  BY DEF Init
<1>2. "idle" \in Labels /\ "idle" \notin InGpu
  BY DEF Labels, InGpu
<1>3. /\ gpu \in GpuType
      /\ screen \in ScreenType
      /\ did \in DidType
  BY DEF Init
<1>4. pc \in [Actors -> Labels] /\ DOMAIN loc = Actors
  BY <1>2 DEF Init
<1>5. HandlerIdle
  BY <1>1 DEF Init, HandlerIdle, Actors
<1>6. GpuTypes
  BY <1>1, <1>3, <1>4, <1>5, LocalIsLocal DEF GpuTypes
<1>7. AtRest
  BY DEF Init, AtRest, Untouched
<1>8. GpuGood
  BY <1>1, <1>2, <1>7 DEF Init, GpuGood, Alone
<1> QED BY <1>6, <1>8 DEF GpuInv

LEMMA GpuNext == GpuInv /\ [Next]_vars => GpuInv'
<1> SUFFICES ASSUME GpuInv, [Next]_vars PROVE GpuInv'
  OBVIOUS
<1>1. ASSUME NEW a \in Actors, Step(a) PROVE GpuInv'
  BY <1>1, EnterHeapStep, TakeGpuStep, InitTestStep, DisplayInfoStep, FrameBufferStep, CreateStep,
     AttachStep, ScanoutStep, FillStep, TransferStep, FlushStep, DoneStep
     DEF Step, gpu_init, gpu_transfer_and_flush_some
<1>2. CASE Console
  BY <1>1, <1>2, PopStep, ConPoppedStep, ConPopsOverStep, AllocatedStep DEF Console, Actors
<1>3. CASE Syscall
  BY <1>1, <1>3, AllocatedStep, PopStep, SysPoppedStep DEF Syscall, Actors
<1>4. CASE Interrupt
  BY <1>4, HandlerStep, InputStep, GpuIsrStep, TakeGpuStep, SetActiveStep, UnrefStep, UnsetStep
     DEF Interrupt, Actors
<1>5. CASE Call
  BY <1>5, GpuCallStep, OtherCallStep DEF Call
<1>6. CASE UNCHANGED vars
  <2>1. UNCHANGED <<gpu, screen, bufs, pc, loc, did, mishap, irq>>
    BY <1>6 DEF vars
  <2>2. GpuTypes'
    BY <2>1, TypesNow DEF GpuTypes, HandlerIdle
  <2> QED BY <2>1, <2>2, IdleStep
<1>7. CASE Step("irq")
  BY <1>1, <1>7 DEF Actors
<1> QED BY <1>2, <1>3, <1>4, <1>5, <1>6, <1>7, BootStep, DeviceStep DEF Next

\* Whatever the console, the trap handler and a process ask of the gpu, in
\* whatever order, for displays of every size: what it shows between the calls
\* is an allocated frame buffer of the resource's size or nothing, and no call
\* writes to or frees one that is gone, unless one of the three excuses of
\* GpuSound applies.
THEOREM GpuStaysSound == Spec => []GpuSound
<1>1. GpuInv => GpuSound
  BY DEF GpuInv, GpuGood, GpuSound, Excused, AtRest, Untouched, Shown, Allocated
<1> QED BY <1>1, GpuInit, GpuNext, PTL DEF Spec
----------------------------------------------------------------------------
(* Events: the invariant *)

\* The events on their way to a reader, oldest first: the one a pop has moved
\* start past, if there is one, then those in the ring.
Readers == {"con", "sys"}
Popping == \E a \in Readers : Advanced(a)
Taken == IF Advanced("con") THEN loc["con"].ev ELSE loc["sys"].ev
First == IF Popping THEN -1 ELSE 0
Count == IF Popping THEN ring.occupied - 1 ELSE ring.occupied
Slot(k) == (ring.start + k) % Capacity
Item(k) == IF k = -1 THEN Taken ELSE ring.elements[Slot(k)]

\* The events device d has written and its driver has not fetched.
Waiting(d) == inputs[d].ack .. inputs[d].used - 1
Written(d, k) == inputs[d].buf[k % Q]

RingType ==
    /\ {"start", "occupied", "elements"} \subseteq DOMAIN ring
    /\ ring.start \in 0 .. Capacity - 1 /\ ring.occupied \in 0 .. Capacity
    /\ DOMAIN ring.elements = 0 .. Capacity - 1

\* What a pop knows of the ring while it is the only one.
PopAt(a) ==
    /\ InPop(a) => ring.occupied # 0
    /\ pc[a] \in {"pop_start", "pop_advance"} => loc[a].ev = ring.elements[ring.start]
    /\ pc[a] = "pop_advance" => loc[a].tmp = ring.start
    /\ pc[a] = "pop_store" => loc[a].tmp = ring.occupied
Pops ==
    /\ \A a, b \in Readers : InPop(a) /\ InPop(b) => a = b
    /\ \A a \in Readers : PopAt(a)

InputType(d) ==
    /\ {"buf", "avail", "used", "ack", "sent", "isr"} \subseteq DOMAIN inputs[d]
    /\ inputs[d].ack \in Nat /\ inputs[d].used \in Nat /\ inputs[d].sent \in Nat
    /\ inputs[d].ack <= inputs[d].used /\ inputs[d].used <= inputs[d].avail
    /\ inputs[d].avail = inputs[d].ack + Q
    /\ DOMAIN inputs[d].buf = 0 .. Q - 1
    /\ got[d] \in Nat /\ got[d] <= inputs[d].sent

\* An event of device d that no reader has had.
Fresh(e, d) == e.dev = d /\ e.n \in Nat /\ got[d] < e.n /\ e.n <= inputs[d].sent

\* One event comes before another, as far as they are of one device.
Before(e, f) == e.dev = f.dev => e.n < f.n

Items ==
    /\ \A k \in First .. Count - 1 : Item(k).dev \in DOMAIN inputs /\ Fresh(Item(k), Item(k).dev)
    /\ \A k, m \in First .. Count - 1 : k < m => Before(Item(k), Item(m))

Queued(d) ==
    /\ \A k \in Waiting(d) : Fresh(Written(d, k), d)
    /\ \A k, m \in Waiting(d) : k < m => Written(d, k).n < Written(d, m).n
    /\ \A k \in First .. Count - 1, m \in Waiting(d) : Before(Item(k), Written(d, m))

EvGood ==
    /\ "disorder" \notin mishap
    /\ DOMAIN got = DOMAIN inputs
    /\ RingType /\ Pops /\ Items
    /\ \A d \in DOMAIN inputs : InputType(d) /\ Queued(d)

\* Before the boot there are no devices and no events.
EvStart == ~on => inputs = << >> /\ ring.occupied = 0 /\ pc = [a \in Actors |-> "idle"]
Fetching == pc["irq"] = "in_events" => loc["irq"].i \in DOMAIN inputs

EvInv == EvStart /\ Fetching /\ ("torn" \in mishap \/ EvGood)

\* The driver and the device go on as before.
SameInput(d) ==
    /\ DOMAIN inputs'[d] = DOMAIN inputs[d]
    /\ inputs'[d].buf = inputs[d].buf /\ inputs'[d].avail = inputs[d].avail
    /\ inputs'[d].used = inputs[d].used /\ inputs'[d].ack = inputs[d].ack
    /\ inputs'[d].sent = inputs[d].sent

PopLabels == {"pop_element", "pop_start", "pop_advance", "pop_load", "pop_store"}
USE DEF PopLabels

\* A pop stands still, or there is none.
SamePop(a) ==
    /\ InPop(a)' <=> InPop(a)
    /\ InPop(a) => pc'[a] = pc[a] /\ loc'[a] = loc[a]

LEMMA PopsKept ==
    ASSUME Pops, UNCHANGED ring, \A a \in Readers : SamePop(a)
    PROVE  /\ Pops'
           /\ \A a \in Readers : /\ Advanced(a)' <=> Advanced(a)
                                 /\ Advanced(a) => loc'[a].ev = loc[a].ev
<1>1. ASSUME NEW a \in Readers
      PROVE  PopAt(a)' /\ (Advanced(a)' <=> Advanced(a)) /\ (Advanced(a) => loc'[a].ev = loc[a].ev)
  <2>1. PopAt(a) /\ SamePop(a)
    BY DEF Pops
  <2>2. CASE InPop(a)
    BY <2>1, <2>2 DEF PopAt, SamePop, InPop, Advanced
  <2>3. CASE ~InPop(a)
    BY <2>1, <2>3 DEF PopAt, SamePop, InPop, Advanced
  <2> QED BY <2>2, <2>3
<1>2. \A a, b \in Readers : InPop(a)' /\ InPop(b)' => a = b
  BY DEF Pops, SamePop
<1> QED BY <1>1, <1>2 DEF Pops

LEMMA EvKept ==
    ASSUME EvGood, UNCHANGED <<ring, got>>, Pops',
           \A a \in Readers : /\ Advanced(a)' <=> Advanced(a)
                              /\ Advanced(a) => loc'[a].ev = loc[a].ev,
           DOMAIN inputs' = DOMAIN inputs, \A d \in DOMAIN inputs : SameInput(d),
           "disorder" \in mishap' => "disorder" \in mishap
    PROVE  EvGood'
<1>1. ring' = ring /\ got' = got /\ DOMAIN inputs' = DOMAIN inputs
  OBVIOUS
<1>2. First' = First /\ Count' = Count
  <2>1. Popping' <=> Popping
    BY DEF Popping
  <2> QED BY <1>1, <2>1 DEF First, Count
<1>3. \A k \in First .. Count - 1 : Item(k)' = Item(k)
  <2>1. \A k \in First .. Count - 1 : k = -1 => Popping
    BY DEF First
  <2>2. Popping => Taken' = Taken
    BY DEF Popping, Taken, Readers
  <2> QED BY <1>1, <2>1, <2>2 DEF Item, Slot
<1>4. RingType'
  BY <1>1 DEF EvGood, RingType
<1>5. Items'
  <2>1. Items
    BY DEF EvGood
  <2>2. ASSUME NEW k \in First .. Count - 1
        PROVE  Item(k)'.dev \in DOMAIN inputs' /\ Fresh(Item(k), Item(k).dev)'
    <3>1. Item(k).dev \in DOMAIN inputs /\ Fresh(Item(k), Item(k).dev) /\ Item(k)' = Item(k)
      BY <1>3, <2>1 DEF Items
    <3>2. SameInput(Item(k).dev)
      BY <3>1
    <3> QED BY <1>1, <3>1, <3>2 DEF Fresh, SameInput
  <2>3. \A k, m \in First .. Count - 1 : k < m => Before(Item(k), Item(m))'
    BY <1>3, <2>1 DEF Items, Before
  <2> QED BY <1>2, <2>2, <2>3 DEF Items
<1>6. ASSUME NEW d \in DOMAIN inputs PROVE InputType(d)' /\ Queued(d)'
  <2>1. InputType(d) /\ Queued(d) /\ SameInput(d)
    BY DEF EvGood
  <2>2. InputType(d)'
    BY <1>1, <2>1 DEF InputType, SameInput
  <2>3. Waiting(d)' = Waiting(d) /\ \A k : Written(d, k)' = Written(d, k)
    BY <2>1 DEF Waiting, Written, SameInput
  <2>4. inputs'[d].sent = inputs[d].sent
    BY <2>1 DEF SameInput
  <2> QED BY <1>1, <1>2, <1>3, <2>1, <2>2, <2>3, <2>4 DEF Queued, Fresh, Before
<1> QED BY <1>1, <1>4, <1>5, <1>6 DEF EvGood

\* What goes wrong in a step is not about events.
Harmless ==
    /\ "torn" \in mishap => "torn" \in mishap'
    /\ "disorder" \in mishap' => "disorder" \in mishap

LEMMA NothingWrong == UNCHANGED mishap => Harmless
BY DEF Harmless

\* A step of actor a that has nothing to do with events.
LEMMA QuietStep ==
    ASSUME GpuInv, EvInv, NEW a \in Actors, NEW l, Go(a, l), on, UNCHANGED <<on, events>>,
           a # "irq" => ~InPop(a), l \notin PopLabels \union {"in_events"},
           \A b \in Actors \ {a} : loc'[b] = loc[b],
           Harmless
    PROVE  EvInv'
<1>1. pc'[a] = l /\ \A b \in Actors \ {a} : pc'[b] = pc[b]
  BY TypesNow DEF Go
<1>2. EvStart'
  BY DEF EvStart
<1>3. Fetching'
  <2>1. inputs' = inputs
    BY DEF events
  <2> QED BY <1>1, <2>1 DEF Fetching, EvInv, Actors
<1>4. \A b \in Readers : SamePop(b)
  BY <1>1 DEF SamePop, InPop, PopLabels, Readers, Actors
<1>5. UNCHANGED <<inputs, ring, got>> /\ \A d \in DOMAIN inputs : SameInput(d)
  BY DEF events, SameInput
<1>6. EvGood => EvGood'
  <2> SUFFICES ASSUME EvGood PROVE EvGood'
    OBVIOUS
  <2>1. Pops' /\ \A b \in Readers : /\ Advanced(b)' <=> Advanced(b)
                                    /\ Advanced(b) => loc'[b].ev = loc[b].ev
    <3>1. Pops /\ ring' = ring
      BY <1>4, <1>5 DEF EvGood
    <3> QED BY <1>4, <1>5, <3>1, PopsKept, Zenon
  <2> QED BY <1>5, <2>1, EvKept DEF Harmless
<1> QED BY <1>2, <1>3, <1>6 DEF EvInv, Harmless

\* A step that leaves everybody where they are.
LEMMA EvSame ==
    ASSUME EvInv, UNCHANGED <<on, inputs, ring, got, pc, loc, mishap>>
    PROVE  EvInv'
<1>1. EvStart' /\ Fetching'
  BY DEF EvInv, EvStart, Fetching
<1>2. \A a \in Readers : SamePop(a)
  BY DEF SamePop, InPop
<1>3. \A d \in DOMAIN inputs : SameInput(d)
  BY DEF SameInput
<1>4. EvGood => EvGood'
  <2> SUFFICES ASSUME EvGood PROVE EvGood'
    OBVIOUS
  <2>1. Pops' /\ \A b \in Readers : /\ Advanced(b)' <=> Advanced(b)
                                    /\ Advanced(b) => loc'[b].ev = loc[b].ev
    <3>1. Pops /\ ring' = ring
      BY <1>2 DEF EvGood
    <3> QED BY <1>2, <3>1, PopsKept, Zenon
  <2> QED BY <1>3, <2>1, EvKept
<1> QED BY <1>1, <1>4 DEF EvInv

\* The end of a call has nothing to do with events either.
LEMMA BackQuiet ==
    ASSUME GpuInv, EvInv, NEW a \in Actors, Back(a), on, UNCHANGED <<on, events>>,
           ~InPop(a),
           Harmless
    PROVE  EvInv'
<1>1. Go(a, loc[a].ret) /\ loc[a].ret \in Returns(a) /\ \A b \in Actors \ {a} : loc'[b] = loc[b]
  BY TypesNow, BackTo DEF Back
<1>2. loc[a].ret \notin PopLabels \union {"in_events"}
  BY <1>1 DEF Returns, PopLabels
<1> QED BY <1>1, <1>2, QuietStep
----------------------------------------------------------------------------
(* Steps without events *)

LEMMA QuietTake ==
    ASSUME GpuInv, EvInv, NEW a \in Actors, NEW k, NEW l, NEW m, Take(a, k, l, m),
           l \notin PopLabels, m \notin PopLabels \union {"in_events"}
    PROVE  EvInv'
<1>1. /\ Go(a, m) /\ on /\ UNCHANGED <<on, events>> /\ ~InPop(a)
      /\ UNCHANGED <<loc, mishap>>
  BY DEF Take, At, world, InPop, PopLabels
<1> QED BY <1>1, QuietStep, NothingWrong

LEMMA QuietCommand ==
    ASSUME GpuInv, EvInv, NEW a \in Actors, NEW l, NEW ok, NEW m, NEW s,
           Command(a, l, ok, m, s), l \notin PopLabels,
           m \notin PopLabels \union {"in_events"}
    PROVE  EvInv'
<1>1. /\ on /\ UNCHANGED <<on, events, mishap>> /\ ~InPop(a)
      /\ Back(a) \/ (Go(a, m) /\ UNCHANGED loc)
  BY DEF Command, InHeap, At, world, InPop, PopLabels
<1>2. CASE Back(a)
  BY <1>1, <1>2, BackQuiet, NothingWrong
<1>3. CASE Go(a, m) /\ UNCHANGED loc
  BY <1>1, <1>3, QuietStep, NothingWrong
<1> QED BY <1>1, <1>2, <1>3

\* What every step of actor a from label l has in common, if it leaves the
\* events alone.
LEMMA QuietGo ==
    ASSUME GpuInv, EvInv, NEW a \in Actors, NEW l, At(a, l), NEW m, Go(a, m),
           l \notin PopLabels, m \notin PopLabels \union {"in_events"},
           UNCHANGED <<world, events>>, \A b \in Actors \ {a} : loc'[b] = loc[b],
           Harmless
    PROVE  EvInv'
<1>1. on /\ UNCHANGED <<on, events>> /\ ~InPop(a)
  BY DEF At, world, InPop, PopLabels
<1> QED BY <1>1, QuietStep, NothingWrong

LEMMA QuietBack ==
    ASSUME GpuInv, EvInv, NEW a \in Actors, NEW l, At(a, l), Back(a),
           l \notin PopLabels, UNCHANGED <<world, events>>,
           Harmless
    PROVE  EvInv'
<1>1. on /\ UNCHANGED <<on, events>> /\ ~InPop(a)
  BY DEF At, world, InPop, PopLabels
<1> QED BY <1>1, BackQuiet, NothingWrong

LEMMA QuietGpu ==
    ASSUME GpuInv, EvInv, NEW a \in Actors, Step(a)
    PROVE  EvInv'
<1> USE TypesNow
<1>1. CASE EnterHeap(a)
  <2>1. UNCHANGED <<on, inputs, ring, got, loc, mishap>>
    BY <1>1 DEF EnterHeap, Take, world, events
  <2>2. UNCHANGED pc
    BY <1>1 DEF EnterHeap, Take, At, Go
  <2> QED BY <2>1, <2>2, EvSame
<1>2. CASE Take(a, "gpu", "init", "init_test") \/ Take(a, "gpu", "done", "done_clear")
  BY <1>2, QuietTake
<1>3. CASE init_test(a)
  <2>1. /\ At(a, "init_test") /\ UNCHANGED <<world, events>> /\ UNCHANGED mishap
        /\ Back(a) \/ (Go(a, "info") /\ UNCHANGED loc)
    BY <1>3 DEF init_test
  <2> QED BY <2>1, QuietGo, QuietBack, NothingWrong
<1>4. CASE gpu_get_display_info(a)
  <2>1. /\ At(a, "info") /\ UNCHANGED <<world, events>>
        /\ \/ Back(a) /\ Harmless
           \/ /\ Go(a, "fb") /\ UNCHANGED mishap
              /\ \A b \in Actors \ {a} : loc'[b] = loc[b]
    BY <1>4 DEF gpu_get_display_info, InHeap, Harmless
  <2> QED BY <2>1, QuietGo, QuietBack, NothingWrong
<1>5. CASE new_frame_buffer(a)
  <2>1. /\ At(a, "fb") /\ UNCHANGED <<world, events, loc>> /\ Go(a, "create")
        /\ UNCHANGED mishap
    BY <1>5 DEF new_frame_buffer, InHeap
  <2> QED BY <2>1, QuietGo, NothingWrong
<1>6. CASE resource_create_2d(a)
  BY <1>6, QuietCommand DEF resource_create_2d
<1>7. CASE attach_backing(a)
  BY <1>7, QuietCommand DEF attach_backing
<1>8. CASE set_scanout(a)
  BY <1>8, QuietCommand DEF set_scanout
<1>9. CASE transfer_to_host_2d(a)
  BY <1>9, QuietCommand DEF transfer_to_host_2d
<1>10. CASE resource_flush(a)
  BY <1>10, QuietCommand DEF resource_flush
<1>11. CASE fill(a)
  <2>1. PICK m \in {"spin", "transfer"} :
           /\ At(a, "fill") /\ UNCHANGED <<world, events, loc>> /\ Go(a, m)
           /\ Harmless
    BY <1>11 DEF fill, InHeap, Harmless
  <2> QED BY <2>1, QuietGo, NothingWrong
<1>12. CASE done_clear(a)
  <2>1. /\ At(a, "done_clear") /\ UNCHANGED <<world, events>> /\ UNCHANGED mishap
        /\ Back(a)
    BY <1>12 DEF done_clear
  <2> QED BY <2>1, QuietBack, NothingWrong
<1> QED BY <1>1, <1>2, <1>3, <1>4, <1>5, <1>6, <1>7, <1>8, <1>9, <1>10, <1>11, <1>12
        DEF Step, gpu_init, gpu_transfer_and_flush_some

LEMMA QuietCalls == ASSUME GpuInv, EvInv, Call PROVE EvInv'
<1>1. PICK a \in {"con", "sys"}, l \in {"init", "fill", "transfer", "pop", "alloc", "s_alloc"} :
         \E c : Begin(a, l, c)
  BY DEF Call, console_gpu_init, Draws, console_gpu_flush, console_inputring_pop,
         gpu_draw_from_cursor, gpu_regions_test, console_alloc, syscall_get_input
<1>2. Harmless
  BY DEF Call, console_gpu_init, Draws, console_gpu_flush, console_inputring_pop,
         gpu_draw_from_cursor, gpu_regions_test, console_alloc, syscall_get_input, Overlaps,
         Harmless
<1>3. PICK c : Begin(a, l, c)
  BY <1>1
<1>4. /\ a \in Actors /\ At(a, "idle") /\ Go(a, l) /\ UNCHANGED <<world, events>>
      /\ \A b \in Actors \ {a} : loc'[b] = loc[b]
  BY <1>3, TypesNow DEF Begin, Actors
<1>5. l \notin PopLabels \union {"in_events"}
  BY DEF PopLabels
<1>6. on /\ UNCHANGED <<on, events>> /\ ~InPop(a)
  BY <1>4 DEF At, world, InPop, PopLabels
<1> QED BY <1>2, <1>4, <1>5, <1>6, QuietStep

LEMMA QuietHandler ==
    ASSUME GpuInv, EvInv,
           \/ \E line \in Pending : plic_claim(line)
           \/ call_handler \/ plic_complete \/ Take("irq", "ring", "in_wait", "in_device")
           \/ gpu_isr \/ Take("irq", "gpu", "set", "set_active") \/ set_active \/ resource_unref
           \/ Take("irq", "gpu", "unset", "unset_clear") \/ unset_clear
    PROVE  EvInv'
<1> USE TypesNow
<1>0. "irq" \in Actors
  BY DEF Actors
<1>1. CASE \E line \in Pending : plic_claim(line)
  <2>1. Go("irq", "call") /\ UNCHANGED <<world, events, loc, mishap>> /\ on
    BY <1>1 DEF plic_claim
  <2> QED BY <1>0, <2>1, QuietStep, NothingWrong DEF world
<1>2. CASE call_handler \/ plic_complete
  <2>1. PICK m \in {"gpu_isr", "in_wait", "call", "idle"} : Go("irq", m)
    BY <1>2 DEF call_handler, plic_complete
  <2>2. At("irq", "call") /\ UNCHANGED <<world, events, loc>> /\ UNCHANGED mishap
    BY <1>2 DEF call_handler, plic_complete
  <2> QED BY <1>0, <2>1, <2>2, QuietGo, NothingWrong
<1>3. CASE \/ Take("irq", "ring", "in_wait", "in_device") \/ Take("irq", "gpu", "set", "set_active")
           \/ Take("irq", "gpu", "unset", "unset_clear")
  BY <1>0, <1>3, QuietTake
<1>4. CASE gpu_isr
  <2>1. PICK m \in {"call", "init", "set"} : Go("irq", m)
    BY <1>4 DEF gpu_isr
  <2>2. Harmless
    BY <1>4 DEF gpu_isr, Overlaps, Harmless
  <2>3. /\ At("irq", "gpu_isr") /\ UNCHANGED <<world, events>>
        /\ \A b \in Actors \ {"irq"} : loc'[b] = loc[b]
    BY <1>4 DEF gpu_isr
  <2> QED BY <1>0, <2>1, <2>2, <2>3, QuietGo, NothingWrong
<1>5. CASE set_active
  <2>1. /\ At("irq", "set_active") /\ UNCHANGED <<world, events, loc>> /\ Go("irq", "unref")
        /\ UNCHANGED mishap
    BY <1>5 DEF set_active
  <2> QED BY <1>0, <2>1, QuietGo, NothingWrong
<1>6. CASE resource_unref
  <2>1. Harmless
    BY <1>6 DEF resource_unref, Overlaps, Harmless
  <2>2. /\ At("irq", "unref") /\ UNCHANGED <<world, events>> /\ Go("irq", "unset")
        /\ \A b \in Actors \ {"irq"} : loc'[b] = loc[b]
    BY <1>6 DEF resource_unref, InHeap
  <2> QED BY <1>0, <2>1, <2>2, QuietGo, NothingWrong
<1>7. CASE unset_clear
  <2>1. PICK m \in {"init", "call"} : Go("irq", m)
    BY <1>7 DEF unset_clear
  <2>2. /\ At("irq", "unset_clear") /\ UNCHANGED <<world, events>> /\ UNCHANGED mishap
        /\ \A b \in Actors \ {"irq"} : loc'[b] = loc[b]
    BY <1>7 DEF unset_clear
  <2> QED BY <1>0, <2>1, <2>2, QuietGo, NothingWrong
<1> QED BY <1>1, <1>2, <1>3, <1>4, <1>5, <1>6, <1>7

LEMMA QuietConsole ==
    ASSUME GpuInv, EvInv,
           \/ con_popped \/ con_pops_over \/ console_allocated
           \/ sys_allocated \/ Take("sys", "ring", "s_wait", "pop")
           \/ sys_popped \/ sys_pops_over
    PROVE  EvInv'
<1> USE TypesNow
<1>0. "con" \in Actors /\ "sys" \in Actors
  BY DEF Actors
<1>1. CASE con_popped
  <2>1. /\ At("con", "popped") /\ UNCHANGED <<world, events>>
        /\ \A b \in Actors \ {"con"} : loc'[b] = loc[b]
    BY <1>1 DEF con_popped
  <2>2. PICK m \in {"pop", "fill"} : Go("con", m)
    BY <1>1 DEF con_popped
  <2>3. Harmless
    <3>1. \/ UNCHANGED mishap
          \/ \E new \in {{}, {"no position"}} : mishap' = mishap \union Overlaps("con") \union new
      BY <1>1 DEF con_popped
    <3>2. "disorder" \notin Overlaps("con")
      BY DEF Overlaps
    <3> QED BY <3>1, <3>2 DEF Harmless
  <2> QED BY <1>0, <2>1, <2>2, <2>3, QuietGo, NothingWrong
<1>2. CASE con_pops_over
  <2>1. /\ At("con", "pop") /\ UNCHANGED <<world, events>>
        /\ \A b \in Actors \ {"con"} : loc'[b] = loc[b]
    BY <1>2 DEF con_pops_over
  <2>2. PICK m \in {"idle", "fill"} : Go("con", m)
    BY <1>2 DEF con_pops_over
  <2>3. Harmless
    BY <1>2 DEF con_pops_over, Overlaps, Harmless
  <2> QED BY <1>0, <2>1, <2>2, <2>3, QuietGo, NothingWrong
<1>3. CASE console_allocated
  <2>1. /\ At("con", "alloc") /\ UNCHANGED <<world, events, loc>> /\ Go("con", "idle")
        /\ UNCHANGED mishap
    BY <1>3 DEF console_allocated, InHeap
  <2> QED BY <1>0, <2>1, QuietGo, NothingWrong
<1>4. CASE sys_allocated
  <2>1. /\ At("sys", "s_alloc") /\ UNCHANGED <<world, events, loc>> /\ Go("sys", "s_wait")
        /\ UNCHANGED mishap
    BY <1>4 DEF sys_allocated, InHeap
  <2> QED BY <1>0, <2>1, QuietGo, NothingWrong
<1>5. CASE Take("sys", "ring", "s_wait", "pop")
  BY <1>0, <1>5, QuietTake
<1>6. CASE sys_popped
  <2>1. /\ At("sys", "popped") /\ UNCHANGED <<world, events>> /\ Go("sys", "pop")
        /\ UNCHANGED mishap /\ \A b \in Actors \ {"sys"} : loc'[b] = loc[b]
    BY <1>6 DEF sys_popped
  <2> QED BY <1>0, <2>1, QuietGo, NothingWrong
<1>7. CASE sys_pops_over
  <2>1. At("sys", "pop") /\ UNCHANGED <<world, events>> /\ Back("sys") /\ UNCHANGED mishap
    BY <1>7 DEF sys_pops_over
  <2> QED BY <1>0, <2>1, QuietBack, NothingWrong
<1> QED BY <1>1, <1>2, <1>3, <1>4, <1>5, <1>6, <1>7
----------------------------------------------------------------------------
(* The ring's lock *)

\* Where a system call and the handler hold ie_ring_mutex.
SysPops == {"pop", "popped"} \union PopLabels
Pushing == {"in_device", "in_events"}
LockInv ==
    /\ DOMAIN lock = Locks
    /\ pc["sys"] \in SysPops => lock["ring"] = "sys"
    /\ pc["irq"] \in Pushing => lock["ring"] = "irq"

\* A step of an actor that is not on its way into the ring.
LEMMA LockGo ==
    ASSUME GpuInv, LockInv, NEW a \in Actors, NEW m, Go(a, m),
           DOMAIN lock' = Locks, lock'["ring"] = lock["ring"],
           a = "sys" => m \notin SysPops \/ pc[a] \in SysPops,
           a = "irq" => m \notin Pushing \/ pc[a] \in Pushing
    PROVE  LockInv'
<1>1. pc'[a] = m /\ \A b \in Actors \ {a} : pc'[b] = pc[b]
  BY TypesNow DEF Go
<1> QED BY <1>1 DEF LockInv, Actors

LEMMA LockBack ==
    ASSUME GpuInv, LockInv, NEW a \in Actors, Back(a),
           DOMAIN lock' = Locks, lock'["ring"] = lock["ring"]
    PROVE  LockInv'
<1>1. Go(a, loc[a].ret) /\ loc[a].ret \in Returns(a)
  BY TypesNow, BackTo DEF Back
<1>2. /\ a = "sys" => loc[a].ret \notin SysPops
      /\ a = "irq" => loc[a].ret \notin Pushing
  BY <1>1 DEF Returns, SysPops, Pushing
<1> QED BY <1>1, <1>2, LockGo

\* The other locks are taken and given back.
LEMMA OtherLock ==
    ASSUME LockInv
    PROVE  /\ UNCHANGED lock => DOMAIN lock' = Locks /\ lock'["ring"] = lock["ring"]
           /\ \A l \in {"heap", "gpu"} : Free(l) => DOMAIN lock' = Locks /\ lock'["ring"] = lock["ring"]
           /\ \A l \in {"heap", "gpu"} : \A a, f, t : Take(a, l, f, t) =>
                 DOMAIN lock' = Locks /\ lock'["ring"] = lock["ring"]
<1>1. ASSUME NEW l \in {"heap", "gpu"}, NEW v, lock' = [lock EXCEPT ![l] = v]
      PROVE  DOMAIN lock' = Locks /\ lock'["ring"] = lock["ring"]
  BY <1>1 DEF LockInv, Locks
<1>2. ASSUME UNCHANGED lock PROVE DOMAIN lock' = Locks /\ lock'["ring"] = lock["ring"]
  BY <1>2 DEF LockInv
<1>3. ASSUME NEW l \in {"heap", "gpu"}, Free(l)
      PROVE  DOMAIN lock' = Locks /\ lock'["ring"] = lock["ring"]
  BY <1>1, <1>3 DEF Free
<1>4. ASSUME NEW l \in {"heap", "gpu"}, NEW a, NEW f, NEW t, Take(a, l, f, t)
      PROVE  DOMAIN lock' = Locks /\ lock'["ring"] = lock["ring"]
  BY <1>1, <1>4 DEF Take
<1> QED BY <1>2, <1>3, <1>4, Zenon

LEMMA LockGpu ==
    ASSUME GpuInv, LockInv, NEW a \in Actors, Step(a)
    PROVE  LockInv'
<1> DEFINE Same == DOMAIN lock' = Locks /\ lock'["ring"] = lock["ring"]
           Rest == (InGpu \union {"spin"}) \ {"set", "unset"}
<1>0. \A m \in InGpu \union {"spin"} : m \notin SysPops /\ m \notin Pushing
  BY DEF InGpu, SysPops, Pushing
<1>1. CASE EnterHeap(a)
  <2>1. PICK l \in Allocating : Take(a, "heap", l, l)
    BY <1>1 DEF EnterHeap
  <2>2. Go(a, l) /\ pc[a] = l /\ Same
    BY <2>1, OtherLock DEF Take, At
  <2> QED BY <2>2, LockGo
<1>2. CASE Take(a, "gpu", "init", "init_test") \/ Take(a, "gpu", "done", "done_clear")
  <2>1. Same /\ \E m \in {"init_test", "done_clear"} : Go(a, m)
    BY <1>2, OtherLock DEF Take
  <2> QED BY <1>0, <2>1, LockGo DEF InGpu
<1>3. CASE init_test(a) \/ done_clear(a)
  <2>1. Same /\ (Back(a) \/ Go(a, "info"))
    BY <1>3, OtherLock DEF init_test, done_clear
  <2> QED BY <1>0, <2>1, LockGo, LockBack DEF InGpu
<1>4. CASE \/ gpu_get_display_info(a) \/ new_frame_buffer(a) \/ resource_create_2d(a)
           \/ attach_backing(a) \/ set_scanout(a) \/ fill(a) \/ transfer_to_host_2d(a)
           \/ resource_flush(a)
  <2>1. Free("heap")
    BY <1>4 DEF gpu_get_display_info, new_frame_buffer, resource_create_2d, attach_backing,
                set_scanout, fill, transfer_to_host_2d, resource_flush, Command, InHeap
  <2>2. Back(a) \/ \E m \in InGpu \union {"spin"} : Go(a, m)
    BY <1>4 DEF gpu_get_display_info, new_frame_buffer, resource_create_2d, attach_backing,
                set_scanout, fill, transfer_to_host_2d, resource_flush, Command, InGpu
  <2>3. Same
    BY <2>1, OtherLock
  <2> QED BY <1>0, <2>2, <2>3, LockGo, LockBack
<1> QED BY <1>1, <1>2, <1>3, <1>4 DEF Step, gpu_init, gpu_transfer_and_flush_some

LEMMA LockPop == ASSUME GpuInv, LockInv, NEW a \in Readers, ie_ring_buffer_pop(a) PROVE LockInv'
<1>1. a \in Actors /\ UNCHANGED lock /\ \E m : Go(a, m)
  BY DEF Readers, Actors, ie_ring_buffer_pop, pop_test, pop_element, pop_start, pop_load, PopLoad,
         pop_advance, pop_store
<1>2. pc[a] \in SysPops
  BY DEF ie_ring_buffer_pop, pop_test, pop_element, pop_start, pop_load, PopLoad, pop_advance,
         pop_store, At, SysPops
<1>3. a # "irq"
  BY DEF Readers
<1> QED BY <1>1, <1>2, <1>3, OtherLock, LockGo

LEMMA LockConsole ==
    ASSUME GpuInv, LockInv, con_popped \/ con_pops_over \/ console_allocated
    PROVE  LockInv'
<1>1. "con" \in Actors /\ \E m : Go("con", m)
  BY DEF Actors, con_popped, con_pops_over, console_allocated
<1>2. DOMAIN lock' = Locks /\ lock'["ring"] = lock["ring"]
  BY OtherLock DEF con_popped, con_pops_over, console_allocated, InHeap
<1> QED BY <1>1, <1>2, LockGo

LEMMA LockSyscall ==
    ASSUME GpuInv, LockInv,
           \/ sys_allocated \/ Take("sys", "ring", "s_wait", "pop") \/ sys_popped
           \/ sys_pops_over
    PROVE  LockInv'
<1> USE TypesNow
<1>0. "sys" \in Actors /\ "irq" \in Actors /\ "ring" \in Locks
  BY DEF Actors, Locks
<1>1. CASE sys_allocated
  <2>1. Go("sys", "s_wait") /\ DOMAIN lock' = Locks /\ lock'["ring"] = lock["ring"]
    BY <1>1, OtherLock DEF sys_allocated, InHeap
  <2> QED BY <1>0, <2>1, LockGo DEF SysPops
<1>2. CASE Take("sys", "ring", "s_wait", "pop")
  <2>1. Go("sys", "pop") /\ lock["ring"] = "free" /\ lock' = [lock EXCEPT !["ring"] = "sys"]
    BY <1>2 DEF Take
  <2>2. DOMAIN lock' = Locks /\ lock'["ring"] = "sys"
    BY <1>0, <2>1 DEF LockInv
  <2>3. pc'["irq"] = pc["irq"] /\ pc["irq"] \notin Pushing
    BY <2>1 DEF Go, LockInv
  <2> QED BY <2>2, <2>3 DEF LockInv
<1>3. CASE sys_popped
  <2>1. Go("sys", "pop") /\ pc["sys"] \in SysPops /\ UNCHANGED lock
    BY <1>3 DEF sys_popped, At, SysPops
  <2> QED BY <1>0, <2>1, OtherLock, LockGo
<1>4. CASE sys_pops_over
  <2>1. Back("sys") /\ Free("ring") /\ pc["sys"] \in SysPops
    BY <1>4 DEF sys_pops_over, At, SysPops
  <2>2. DOMAIN lock' = Locks
    BY <2>1 DEF Free, LockInv
  <2>3. pc'["sys"] \in {"idle"} /\ pc'["irq"] = pc["irq"]
    BY <1>0, <2>1, BackTo DEF Returns
  <2>4. pc["irq"] \notin Pushing
    BY <2>1 DEF LockInv
  <2> QED BY <2>2, <2>3, <2>4 DEF LockInv, SysPops
<1> QED BY <1>1, <1>2, <1>3, <1>4

LEMMA LockInterrupt == ASSUME GpuInv, LockInv, Interrupt PROVE LockInv'
<1> USE TypesNow
<1> DEFINE Same == DOMAIN lock' = Locks /\ lock'["ring"] = lock["ring"]
<1>0. "sys" \in Actors /\ "irq" \in Actors /\ "ring" \in Locks
  BY DEF Actors, Locks
<1>1. CASE \/ \E line \in Pending : plic_claim(line)
           \/ call_handler \/ plic_complete \/ gpu_isr
           \/ Take("irq", "gpu", "set", "set_active") \/ set_active \/ resource_unref
           \/ Take("irq", "gpu", "unset", "unset_clear") \/ unset_clear
  <2>1. PICK m \in {"call", "gpu_isr", "in_wait", "idle", "init", "set", "set_active", "unref",
                     "unset", "unset_clear"} : Go("irq", m)
    BY <1>1 DEF plic_claim, call_handler, plic_complete, gpu_isr, Take, set_active,
                resource_unref, unset_clear
  <2>2. Same
    BY <1>1, OtherLock DEF plic_claim, call_handler, plic_complete, gpu_isr, set_active,
                           resource_unref, unset_clear, InHeap
  <2> QED BY <1>0, <2>1, <2>2, LockGo DEF Pushing
<1>2. CASE Take("irq", "ring", "in_wait", "in_device")
  <2>1. Go("irq", "in_device") /\ lock["ring"] = "free" /\ lock' = [lock EXCEPT !["ring"] = "irq"]
    BY <1>2 DEF Take
  <2>2. DOMAIN lock' = Locks /\ lock'["ring"] = "irq"
    BY <1>0, <2>1 DEF LockInv
  <2>3. pc'["sys"] = pc["sys"] /\ pc["sys"] \notin SysPops
    BY <2>1 DEF Go, LockInv
  <2> QED BY <2>2, <2>3 DEF LockInv
<1>3. CASE in_device
  <2>1. CASE PostRing /\ Go("irq", "call")
    <3>1. DOMAIN lock' = Locks /\ pc["irq"] \in Pushing
      BY <1>3, <2>1 DEF in_device, At, PostRing, Free, LockInv, Pushing
    <3>2. pc'["irq"] = "call" /\ pc'["sys"] = pc["sys"] /\ pc["sys"] \notin SysPops
      BY <1>0, <2>1, <3>1 DEF Go, LockInv
    <3> QED BY <3>1, <3>2 DEF LockInv, Pushing
  <2>2. CASE UNCHANGED lock /\ \E m : Go("irq", m)
    <3>1. pc["irq"] \in Pushing
      BY <1>3 DEF in_device, At, Pushing
    <3> QED BY <1>0, <2>2, <3>1, OtherLock, LockGo
  <2> QED BY <1>3, <2>1, <2>2 DEF in_device
<1>4. CASE in_events
  <2>1. UNCHANGED lock /\ pc["irq"] \in Pushing /\ (UNCHANGED pc \/ Go("irq", "in_device"))
    BY <1>4 DEF in_events, At, Pushing
  <2>2. CASE UNCHANGED pc
    BY <2>1, <2>2 DEF LockInv
  <2> QED BY <1>0, <2>1, <2>2, OtherLock, LockGo
<1> QED BY <1>1, <1>2, <1>3, <1>4 DEF Interrupt

LEMMA LockCalls == ASSUME GpuInv, LockInv, Call PROVE LockInv'
<1>1. PICK a \in {"con", "sys"}, l \in {"init", "fill", "transfer", "pop", "alloc", "s_alloc"} :
         (\E c : Begin(a, l, c)) /\ (a = "sys" => l # "pop")
  BY DEF Call, console_gpu_init, Draws, console_gpu_flush, console_inputring_pop,
         gpu_draw_from_cursor, gpu_regions_test, console_alloc, syscall_get_input
<1>2. Go(a, l) /\ UNCHANGED lock /\ a \in Actors
  BY <1>1 DEF Begin, Actors
<1>3. a = "sys" => l \notin SysPops
  BY <1>1 DEF SysPops
<1> QED BY <1>1, <1>2, <1>3, OtherLock, LockGo

LEMMA LockInit == Init => LockInv
<1> SUFFICES ASSUME Init PROVE LockInv
  OBVIOUS
<1>1. pc["sys"] = "idle" /\ pc["irq"] = "idle" /\ DOMAIN lock = Locks
  BY DEF Init, Actors
<1> QED BY <1>1 DEF LockInv, SysPops, Pushing

\* Before the boot nobody does anything.
LEMMA LockNext == GpuInv /\ LockInv /\ EvInv /\ [Next]_vars => LockInv'
<1> SUFFICES ASSUME GpuInv, LockInv, EvInv, [Next]_vars PROVE LockInv'
  OBVIOUS
<1>1. CASE Boot
  <2>1. pc' = [a \in Actors |-> "idle"] /\ DOMAIN lock' = Locks
    BY <1>1 DEF Boot, EvInv, EvStart, LockInv
  <2>2. pc'["sys"] = "idle" /\ pc'["irq"] = "idle"
    BY <2>1 DEF Actors
  <2> QED BY <2>1, <2>2 DEF LockInv, SysPops, Pushing
<1>2. CASE Console
  BY <1>2, LockGpu, LockPop, LockConsole DEF Console, Actors, Readers
<1>3. CASE Syscall
  BY <1>3, LockGpu, LockPop, LockSyscall DEF Syscall, Actors, Readers
<1>4. CASE Interrupt \/ Step("irq") \/ Call
  BY <1>4, LockInterrupt, LockGpu, LockCalls DEF Actors
<1>5. CASE UNCHANGED vars \/ (\E z \in Sizes : Resize(z)) \/ (\E i \in DOMAIN inputs : SendEvent(i))
  <2>1. UNCHANGED <<pc, lock>>
    BY <1>5 DEF vars, Resize, SendEvent
  <2> QED BY <2>1 DEF LockInv
<1> QED BY <1>1, <1>2, <1>3, <1>4, <1>5 DEF Next
----------------------------------------------------------------------------
(* Slots *)

\* Numbers less than n apart have different slots in a ring of n.
LEMMA SlotsApart ==
    ASSUME NEW n \in Nat \ {0}, NEW k \in Int, NEW m \in Int, k < m, m - k < n
    PROVE  k % n # m % n
<1> DEFINE p == k \div n
           q == m \div n
<1>1. p \in Int /\ q \in Int /\ k % n \in Int
  OBVIOUS
<1>2. k = n * p + (k % n) /\ m = n * q + (m % n)
  OBVIOUS
<1> HIDE DEF p, q
<1> SUFFICES ASSUME k % n = m % n PROVE FALSE
  OBVIOUS
<1>3. n * q - n * p = n * (q - p) /\ q - p \in Int
  BY <1>1
<1>4. m - k = n * (q - p)
  BY <1>1, <1>2, <1>3
<1>5. q - p > 0 => n * (q - p) >= n
  BY <1>1
<1>6. q - p <= 0 => n * (q - p) <= 0
  BY <1>1
<1> QED BY <1>3, <1>4, <1>5, <1>6

\* Counting from the wrapped start is counting from the start.
LEMMA NextSlot ==
    ASSUME NEW n \in Nat \ {0}, NEW s \in 0 .. n - 1, NEW k \in Int
    PROVE  (((s + 1) % n) + k) % n = (s + (k + 1)) % n
<1>1. CASE s + 1 < n
  <2>1. (s + 1) % n = s + 1
    BY <1>1
  <2> QED BY <2>1
<1>2. CASE s + 1 = n
  <2>1. (s + 1) % n = 0
    BY <1>2
  <2>2. (k + n) % n = k % n
    <3> DEFINE q == k \div n
               r == k % n
    <3>1. q \in Int /\ r \in 0 .. n - 1 /\ k = n * q + r
      OBVIOUS
    <3> HIDE DEF q, r
    <3>2. n * q + n = n * (q + 1)
      BY <3>1
    <3>3. k + n = n * (q + 1) + r /\ q + 1 \in Int
      BY <3>1, <3>2
    <3>4. (k + n) % n = r
      BY <3>1, <3>3
    <3> QED BY <3>4 DEF r
  <2>3. s + (k + 1) = k + n
    BY <1>2
  <2> QED BY <2>1, <2>2, <2>3
<1> QED BY <1>1, <1>2
----------------------------------------------------------------------------
(* Readers *)

\* The events on their way are those that were, from the same one or the next.
LEMMA Shifted ==
    ASSUME EvGood, UNCHANGED inputs, DOMAIN got' = DOMAIN got, NEW s \in {0, 1},
           First' \in Int, Count' \in Int,
           \A k \in First' .. Count' - 1 :
              /\ k + s \in First .. Count - 1 /\ Item(k)' = Item(k + s)
              /\ got'[Item(k + s).dev] < Item(k + s).n,
           \A d \in DOMAIN inputs :
              /\ got'[d] \in Nat /\ got'[d] <= inputs[d].sent
              /\ \A m \in Waiting(d) : got'[d] < Written(d, m).n
    PROVE  /\ Items' /\ DOMAIN got' = DOMAIN inputs'
           /\ \A d \in DOMAIN inputs' : InputType(d)' /\ Queued(d)'
<1>1. Items /\ DOMAIN got = DOMAIN inputs /\ \A d \in DOMAIN inputs : InputType(d) /\ Queued(d)
  BY DEF EvGood
<1>3. ASSUME NEW k \in First' .. Count' - 1
      PROVE  Item(k)'.dev \in DOMAIN inputs' /\ Fresh(Item(k), Item(k).dev)'
  <2>1. /\ k + s \in First .. Count - 1 /\ Item(k)' = Item(k + s)
        /\ got'[Item(k + s).dev] < Item(k + s).n
    OBVIOUS
  <2>2. Item(k + s).dev \in DOMAIN inputs /\ Fresh(Item(k + s), Item(k + s).dev)
    BY <1>1, <2>1 DEF Items
  <2> QED BY <2>1, <2>2 DEF Fresh
<1>4. ASSUME NEW k \in First' .. Count' - 1, NEW m \in First' .. Count' - 1, k < m
      PROVE  Before(Item(k), Item(m))'
  <2>1. /\ k + s \in First .. Count - 1 /\ Item(k)' = Item(k + s)
        /\ m + s \in First .. Count - 1 /\ Item(m)' = Item(m + s)
    OBVIOUS
  <2>2. k + s < m + s
    BY <1>4
  <2> QED BY <1>1, <2>1, <2>2 DEF Items, Before
<1>5. ASSUME NEW d \in DOMAIN inputs PROVE InputType(d)' /\ Queued(d)'
  <2>1. InputType(d) /\ Queued(d)
    BY <1>1
  <2>2. Waiting(d)' = Waiting(d) /\ \A k : Written(d, k)' = Written(d, k)
    BY DEF Waiting, Written
  <2>3. \A k \in Waiting(d) : Fresh(Written(d, k), d)'
    BY <2>1, <2>2 DEF Queued, Fresh
  <2>4. \A k, m \in Waiting(d) : k < m => Written(d, k)'.n < Written(d, m)'.n
    BY <2>1, <2>2 DEF Queued
  <2>5. ASSUME NEW k \in First' .. Count' - 1, NEW m \in Waiting(d)
        PROVE  Before(Item(k), Written(d, m))'
    <3>1. k + s \in First .. Count - 1 /\ Item(k)' = Item(k + s)
      OBVIOUS
    <3>2. Before(Item(k + s), Written(d, m))
      BY <2>1, <3>1 DEF Queued
    <3> QED BY <2>2, <3>1, <3>2 DEF Before
  <2>6. InputType(d)'
    BY <2>1 DEF InputType
  <2> QED BY <2>2, <2>3, <2>4, <2>5, <2>6 DEF Queued
<1> QED BY <1>1, <1>3, <1>4, <1>5 DEF Items

\* The event a reader takes, the oldest, is in order; the others come after it.
LEMMA Took ==
    ASSUME EvGood, NEW e, e = Item(First), First <= Count - 1, TookEvent(e)
    PROVE  /\ UNCHANGED mishap /\ DOMAIN got' = DOMAIN got
           /\ \A k \in First + 1 .. Count - 1 : got'[Item(k).dev] < Item(k).n
           /\ \A d \in DOMAIN inputs :
                 /\ got'[d] \in Nat /\ got'[d] <= inputs[d].sent
                 /\ \A m \in Waiting(d) : got'[d] < Written(d, m).n
<1>1. Items /\ DOMAIN got = DOMAIN inputs /\ \A d \in DOMAIN inputs : InputType(d) /\ Queued(d)
  BY DEF EvGood
<1>2. First \in Int /\ Count \in Int
  BY DEF EvGood, RingType, First, Count
<1>3. e.dev \in DOMAIN inputs /\ Fresh(e, e.dev)
  BY <1>1, <1>2 DEF Items
<1>4. got[e.dev] \in Nat /\ e.n \in Nat /\ got[e.dev] < e.n /\ e.n <= inputs[e.dev].sent
  BY <1>1, <1>3 DEF InputType, Fresh
<1>5. e # NoEvent
  BY <1>4 DEF NoEvent
<1>6. got' = [got EXCEPT ![e.dev] = e.n] /\ mishap' = mishap
  BY <1>4, <1>5 DEF TookEvent
<1>7. ASSUME NEW k \in First + 1 .. Count - 1 PROVE got'[Item(k).dev] < Item(k).n
  <2>1. Item(k).dev \in DOMAIN inputs /\ Fresh(Item(k), Item(k).dev) /\ Before(e, Item(k))
    BY <1>1, <1>2 DEF Items
  <2> QED BY <1>1, <1>6, <2>1 DEF Fresh, Before
<1>8. ASSUME NEW d \in DOMAIN inputs
      PROVE  /\ got'[d] \in Nat /\ got'[d] <= inputs[d].sent
             /\ \A m \in Waiting(d) : got'[d] < Written(d, m).n
  <2>1. InputType(d) /\ Queued(d)
    BY <1>1
  <2>2. \A m \in Waiting(d) : Fresh(Written(d, m), d) /\ Before(e, Written(d, m))
    BY <1>2, <2>1 DEF Queued
  <2> QED BY <1>1, <1>4, <1>6, <2>1, <2>2 DEF InputType, Fresh, Before
<1> QED BY <1>1, <1>6, <1>7, <1>8

\* A step within a pop that leaves the ring alone.
LEMMA PopLooks ==
    ASSUME GpuInv, EvInv, NEW a \in Readers, NEW l \in PopLabels, on, Go(a, l),
           UNCHANGED <<on, inputs, ring, got>>, \A b \in Actors \ {a} : loc'[b] = loc[b],
           Advanced(a) <=> l \in {"pop_load", "pop_store"},
           Advanced(a) => loc'[a].ev = loc[a].ev,
           Harmless,
           EvGood /\ "torn" \notin mishap' =>
              PopAt(a)' /\ \A b \in Readers \ {a} : ~InPop(b)
    PROVE  EvInv'
<1> USE TypesNow
<1>1. /\ pc'[a] = l /\ (\A b \in Actors \ {a} : pc'[b] = pc[b])
      /\ a \in Actors /\ a # "irq" /\ Readers \subseteq Actors
  BY DEF Go, Readers, Actors
<1>2. pc'["irq"] = pc["irq"] /\ loc'["irq"] = loc["irq"]
  BY <1>1 DEF Actors
<1>3. EvStart' /\ Fetching'
  BY <1>2 DEF EvInv, EvStart, Fetching
<1>4. ASSUME EvGood, "torn" \notin mishap' PROVE EvGood'
  <2>1. \A b \in Readers \ {a} : ~InPop(b) /\ ~InPop(b)' /\ ~Advanced(b) /\ ~Advanced(b)'
    BY <1>1, <1>4 DEF InPop, Advanced
  <2>2. Advanced(a)' <=> Advanced(a)
    BY <1>1 DEF Advanced
  <2>3. \A b \in Readers \ {a} : PopAt(b)'
    BY <2>1 DEF PopAt, InPop
  <2>4. Pops'
    BY <1>4, <2>1, <2>3 DEF Pops
  <2>5. \A d \in DOMAIN inputs : SameInput(d)
    BY DEF SameInput
  <2>6. \A b \in Readers : /\ Advanced(b)' <=> Advanced(b)
                           /\ Advanced(b) => loc'[b].ev = loc[b].ev
    BY <2>1, <2>2
  <2> QED BY <1>4, <2>4, <2>5, <2>6, EvKept DEF Harmless
<1> QED BY <1>3, <1>4 DEF EvInv, Harmless

\* The only pop, once it has found an event.
LEMMA OnlyPop ==
    ASSUME EvGood, NEW a \in Readers, InPop(a)
    PROVE  PopAt(a) /\ ring.occupied # 0 /\ \A b \in Readers \ {a} : ~InPop(b) /\ ~Advanced(b)
<1>1. PopAt(a) /\ \A b \in Readers \ {a} : ~InPop(b)
  BY DEF EvGood, Pops
<1> QED BY <1>1 DEF PopAt, InPop, Advanced

LEMMA TestStep == ASSUME GpuInv, EvInv, NEW a \in Readers, pop_test(a) PROVE EvInv'
<1> USE TypesNow
<1>1. /\ At(a, "pop") /\ UNCHANGED <<world, events>> /\ a \in Actors /\ on /\ UNCHANGED on
      /\ pc[a] = "pop"
  BY DEF pop_test, Actors, Readers, At, world
<1>2. CASE ring.occupied = 0
  <2>1. Go(a, "popped") /\ UNCHANGED mishap /\ \A b \in Actors \ {a} : loc'[b] = loc[b]
    BY <1>2 DEF pop_test
  <2> QED BY <1>1, <2>1, QuietGo, NothingWrong
<1>3. CASE ring.occupied # 0
  <2>1. Go(a, "pop_element") /\ mishap' = mishap \union TornByPop(a) /\ UNCHANGED loc
    BY <1>3 DEF pop_test
  <2>2. Harmless
    BY <2>1 DEF Harmless, TornByPop
  <2>3. ~Advanced(a) /\ pc'[a] = "pop_element" /\ UNCHANGED <<inputs, ring, got>>
    BY <1>1, <2>1 DEF Advanced, Go, events
  <2>4. PopAt(a)'
    BY <1>3, <2>3 DEF PopAt
  <2>5. "torn" \notin mishap' => \A b \in Readers \ {a} : ~InPop(b)
    BY <2>1 DEF TornByPop, Readers
  <2> QED BY <1>1, <2>1, <2>2, <2>3, <2>4, <2>5, PopLooks
<1> QED BY <1>2, <1>3

\* The loads of a pop.
LEMMA LoadStep ==
    ASSUME GpuInv, EvInv, NEW a \in Readers, pop_element(a) \/ pop_start(a) \/ pop_load(a)
    PROVE  EvInv'
<1> USE TypesNow
<1>1. /\ a \in Actors /\ on /\ UNCHANGED on /\ UNCHANGED <<inputs, ring, got, mishap>>
      /\ LocalType(a, loc[a])
  BY DEF pop_element, pop_start, pop_load, PopLoad, Actors, Readers, At, world, events
<1>2. Harmless
  BY <1>1, NothingWrong
<1>3. CASE pop_element(a)
  <2>1. /\ pc[a] = "pop_element" /\ Go(a, "pop_start")
        /\ loc' = [loc EXCEPT ![a] = [loc[a] EXCEPT !.ev = ring.elements[ring.start]]]
    BY <1>3 DEF pop_element, PopLoad, At
  <2>2. /\ pc'[a] = "pop_start" /\ loc'[a].ev = ring.elements[ring.start]
        /\ \A b \in Actors \ {a} : loc'[b] = loc[b]
    BY <1>1, <2>1 DEF Go, LocalType
  <2>3. InPop(a) /\ ~Advanced(a)
    BY <2>1 DEF InPop, Advanced
  <2>4. EvGood => PopAt(a)' /\ \A b \in Readers \ {a} : ~InPop(b)
    BY <1>1, <2>2, <2>3, OnlyPop DEF PopAt
  <2> QED BY <1>1, <1>2, <2>1, <2>2, <2>3, <2>4, PopLooks
<1>4. CASE pop_start(a)
  <2>1. /\ pc[a] = "pop_start" /\ Go(a, "pop_advance")
        /\ loc' = [loc EXCEPT ![a] = [loc[a] EXCEPT !.tmp = ring.start]]
    BY <1>4 DEF pop_start, PopLoad, At
  <2>2. /\ pc'[a] = "pop_advance" /\ loc'[a].ev = loc[a].ev /\ loc'[a].tmp = ring.start
        /\ \A b \in Actors \ {a} : loc'[b] = loc[b]
    BY <1>1, <2>1 DEF Go, LocalType
  <2>3. InPop(a) /\ ~Advanced(a)
    BY <2>1 DEF InPop, Advanced
  <2>4. EvGood => PopAt(a)' /\ \A b \in Readers \ {a} : ~InPop(b)
    BY <1>1, <2>1, <2>2, <2>3, OnlyPop DEF PopAt
  <2> QED BY <1>1, <1>2, <2>1, <2>2, <2>3, <2>4, PopLooks
<1>5. CASE pop_load(a)
  <2>1. /\ pc[a] = "pop_load" /\ Go(a, "pop_store")
        /\ loc' = [loc EXCEPT ![a] = [loc[a] EXCEPT !.tmp = ring.occupied]]
    BY <1>5 DEF pop_load, PopLoad, At
  <2>2. /\ pc'[a] = "pop_store" /\ loc'[a].ev = loc[a].ev /\ loc'[a].tmp = ring.occupied
        /\ \A b \in Actors \ {a} : loc'[b] = loc[b]
    BY <1>1, <2>1 DEF Go, LocalType
  <2>3. InPop(a) /\ Advanced(a)
    BY <2>1 DEF InPop, Advanced
  <2>4. EvGood => PopAt(a)' /\ \A b \in Readers \ {a} : ~InPop(b)
    BY <1>1, <2>2, <2>3, OnlyPop DEF PopAt
  <2> QED BY <1>1, <1>2, <2>1, <2>2, <2>3, <2>4, PopLooks
<1> QED BY <1>3, <1>4, <1>5

LEMMA AdvanceStep == ASSUME GpuInv, EvInv, NEW a \in Readers, pop_advance(a) PROVE EvInv'
<1> USE TypesNow
<1>1. /\ pc[a] = "pop_advance" /\ Go(a, "pop_load") /\ on /\ UNCHANGED <<world, inputs, got, loc, mishap>>
      /\ ring' = [ring EXCEPT !.start = (loc[a].tmp + 1) % Capacity] /\ a \in Actors
  BY DEF pop_advance, At, Actors, Readers
<1>2. pc'[a] = "pop_load" /\ \A b \in Actors \ {a} : pc'[b] = pc[b]
  BY <1>1 DEF Go
<1>3. pc'["irq"] = pc["irq"]
  BY <1>2 DEF Actors, Readers
<1>4. EvStart' /\ Fetching'
  BY <1>1, <1>3 DEF EvInv, EvStart, Fetching, world
<1>5. ASSUME EvGood PROVE EvGood'
  <2>1. RingType /\ Capacity \in Nat \ {0}
    BY <1>5, DevicesAssumption DEF EvGood
  <2>2. InPop(a) /\ ~Advanced(a) /\ Advanced(a)'
    BY <1>1, <1>2 DEF InPop, Advanced
  <2>3. /\ loc[a].ev = ring.elements[ring.start] /\ loc[a].tmp = ring.start /\ ring.occupied # 0
        /\ \A b \in Readers \ {a} : ~InPop(b) /\ ~Advanced(b)
    BY <1>1, <1>5, <2>2, OnlyPop DEF PopAt
  <2>4. \A b \in Readers \ {a} : ~InPop(b)' /\ ~Advanced(b)'
    BY <1>2, <2>3 DEF InPop, Advanced, Readers, Actors
  <2>5. /\ ring'.start = (ring.start + 1) % Capacity /\ ring'.occupied = ring.occupied
        /\ ring'.elements = ring.elements /\ DOMAIN ring' = DOMAIN ring
    BY <1>1, <2>1, <2>3 DEF RingType
  <2>6. ~Popping /\ Popping'
    BY <2>2, <2>3 DEF Popping
  <2>7. First = 0 /\ Count = ring.occupied /\ First' = -1 /\ Count' = ring.occupied - 1
    BY <2>5, <2>6 DEF First, Count
  <2>8. Taken' = ring.elements[ring.start]
    <3>1. Taken' = loc'[a].ev
      BY <2>2, <2>4 DEF Taken, Readers
    <3> QED BY <1>1, <2>3, <3>1
  <2>9. ring.occupied \in Nat /\ ring.occupied # 0 /\ ring.start \in 0 .. Capacity - 1
    BY <2>1, <2>3 DEF RingType
  <2>10. RingType'
    <3>1. (ring.start + 1) % Capacity \in 0 .. Capacity - 1
      BY <2>1, <2>9
    <3> QED BY <2>1, <2>5, <2>9, <3>1 DEF RingType
  <2>11. Pops'
    <3>1. PopAt(a)'
      BY <1>2, <2>3, <2>5 DEF PopAt
    <3>2. \A b \in Readers \ {a} : PopAt(b)'
      BY <2>4 DEF PopAt, InPop
    <3> QED BY <2>4, <3>1, <3>2 DEF Pops
  <2>12. ASSUME NEW k \in -1 .. ring.occupied - 2
         PROVE  k + 1 \in First .. Count - 1 /\ Item(k)' = Item(k + 1)
    <3>1. k + 1 \in First .. Count - 1
      BY <2>7, <2>9
    <3>2. CASE k = -1
      <4>1. Slot(0) = ring.start
        BY <2>1, <2>9 DEF Slot
      <4> QED BY <2>8, <3>1, <3>2, <4>1 DEF Item
    <3>3. CASE k # -1
      <4>1. Slot(k)' = Slot(k + 1)
        <5>1. k \in Int
          OBVIOUS
        <5>2. (((ring.start + 1) % Capacity) + k) % Capacity = (ring.start + (k + 1)) % Capacity
          BY <2>1, <2>9, <5>1, NextSlot
        <5> QED BY <2>5, <5>2 DEF Slot
      <4> QED BY <2>5, <3>1, <3>3, <4>1 DEF Item
    <3> QED BY <3>1, <3>2, <3>3
  <2>13. ASSUME NEW k \in First' .. Count' - 1
         PROVE  /\ k + 1 \in First .. Count - 1 /\ Item(k)' = Item(k + 1)
                /\ got'[Item(k + 1).dev] < Item(k + 1).n
    <3>1. k \in -1 .. ring.occupied - 2
      BY <2>7, <2>9
    <3>2. k + 1 \in First .. Count - 1 /\ Item(k)' = Item(k + 1)
      BY <2>12, <3>1
    <3>3. Fresh(Item(k + 1), Item(k + 1).dev)
      BY <1>5, <3>2 DEF EvGood, Items
    <3> QED BY <1>1, <3>2, <3>3 DEF Fresh
  <2>14. ASSUME NEW d \in DOMAIN inputs
         PROVE  /\ got'[d] \in Nat /\ got'[d] <= inputs[d].sent
                /\ \A m \in Waiting(d) : got'[d] < Written(d, m).n
    <3>1. InputType(d) /\ Queued(d)
      BY <1>5 DEF EvGood
    <3> QED BY <1>1, <3>1 DEF InputType, Queued, Fresh
  <2>15. /\ Items' /\ DOMAIN got' = DOMAIN inputs'
         /\ \A d \in DOMAIN inputs' : InputType(d)' /\ Queued(d)'
    BY <1>1, <1>5, <2>7, <2>9, <2>13, <2>14, Shifted
  <2> QED BY <1>1, <1>5, <2>10, <2>11, <2>15 DEF EvGood
<1> QED BY <1>1, <1>4, <1>5 DEF EvInv

LEMMA StoreStep == ASSUME GpuInv, EvInv, NEW a \in Readers, pop_store(a) PROVE EvInv'
<1> USE TypesNow
<1>1. /\ pc[a] = "pop_store" /\ Go(a, "popped") /\ on /\ UNCHANGED <<world, inputs, loc>>
      /\ TookEvent(loc[a].ev) /\ ring' = [ring EXCEPT !.occupied = loc[a].tmp - 1] /\ a \in Actors
  BY DEF pop_store, At, Actors, Readers
<1>2. pc'[a] = "popped" /\ \A b \in Actors \ {a} : pc'[b] = pc[b]
  BY <1>1 DEF Go
<1>3. EvStart' /\ Fetching' /\ mishap \subseteq mishap'
  <2>1. pc'["irq"] = pc["irq"]
    BY <1>2 DEF Actors, Readers
  <2> QED BY <1>1, <2>1 DEF EvInv, EvStart, Fetching, world, TookEvent
<1>4. ASSUME EvGood PROVE EvGood'
  <2>1. RingType
    BY <1>4 DEF EvGood
  <2>2. InPop(a) /\ Advanced(a) /\ ~InPop(a)' /\ ~Advanced(a)'
    BY <1>1, <1>2 DEF InPop, Advanced
  <2>3. \A b \in Readers \ {a} : ~InPop(b) /\ ~Advanced(b)
    BY <1>4, <2>2, OnlyPop
  <2>4. \A b \in Readers : ~InPop(b)' /\ ~Advanced(b)'
    BY <1>2, <2>2, <2>3 DEF InPop, Advanced, Readers, Actors
  <2>5. Popping /\ ~Popping' /\ Taken = loc[a].ev
    BY <2>2, <2>3, <2>4 DEF Popping, Taken, Readers
  <2>6. ring.occupied \in Nat \ {0} /\ loc[a].tmp = ring.occupied
    BY <1>1, <1>4, <2>1, <2>2, OnlyPop DEF RingType, PopAt
  <2>7. /\ ring'.start = ring.start /\ ring'.occupied = ring.occupied - 1
        /\ ring'.elements = ring.elements /\ DOMAIN ring' = DOMAIN ring
    BY <1>1, <2>1, <2>6 DEF RingType
  <2>8. First = -1 /\ Count = ring.occupied - 1 /\ First' = 0 /\ Count' = ring.occupied - 1
    BY <2>5, <2>7 DEF First, Count
  <2>9. RingType' /\ Pops'
    <3>1. Capacity \in Nat
      BY DevicesAssumption
    <3>2. RingType'
      BY <2>1, <2>6, <2>7, <3>1 DEF RingType
    <3>3. Pops'
      BY <2>4 DEF Pops, PopAt, InPop
    <3> QED BY <3>2, <3>3
  <2>10. loc[a].ev = Item(First) /\ First <= Count - 1
    BY <2>5, <2>6, <2>8 DEF Item
  <2>11. /\ UNCHANGED mishap /\ DOMAIN got' = DOMAIN got
         /\ \A k \in First + 1 .. Count - 1 : got'[Item(k).dev] < Item(k).n
         /\ \A d \in DOMAIN inputs :
               /\ got'[d] \in Nat /\ got'[d] <= inputs[d].sent
               /\ \A m \in Waiting(d) : got'[d] < Written(d, m).n
    BY <1>1, <1>4, <2>10, Took
  <2>12. ASSUME NEW k \in First' .. Count' - 1
         PROVE  /\ k + 0 \in First .. Count - 1 /\ Item(k)' = Item(k + 0)
                /\ got'[Item(k + 0).dev] < Item(k + 0).n
    <3>1. k \in Int /\ k + 0 = k /\ k # -1 /\ k \in First + 1 .. Count - 1 /\ k \in First .. Count - 1
      BY <2>6, <2>8
    <3>2. Item(k)' = Item(k)
      BY <2>7, <3>1 DEF Item, Slot
    <3> QED BY <2>11, <3>1, <3>2
  <2>13. /\ Items' /\ DOMAIN got' = DOMAIN inputs'
         /\ \A d \in DOMAIN inputs' : InputType(d)' /\ Queued(d)'
    BY <1>1, <1>4, <2>6, <2>8, <2>11, <2>12, Shifted
  <2> QED BY <1>4, <2>9, <2>11, <2>13 DEF EvGood
<1> QED BY <1>3, <1>4 DEF EvInv

LEMMA PopEvents == ASSUME GpuInv, EvInv, NEW a \in Readers, ie_ring_buffer_pop(a) PROVE EvInv'
BY TestStep, LoadStep, AdvanceStep, StoreStep DEF ie_ring_buffer_pop

LEMMA InDeviceStep == ASSUME GpuInv, EvInv, in_device PROVE EvInv'
<1> USE TypesNow
<1> DEFINE i == loc["irq"].i + 1
<1>1. /\ At("irq", "in_device") /\ on /\ UNCHANGED <<world, ring, got, mishap>> /\ "irq" \in Actors
      /\ \A b \in Actors \ {"irq"} : loc'[b] = loc[b]
  BY DEF in_device, At, Actors
<1>2. CASE i \notin DOMAIN inputs
  <2>1. Go("irq", "call") /\ UNCHANGED events
    BY <1>1, <1>2 DEF in_device, events
  <2> QED BY <1>1, <2>1, QuietGo, NothingWrong
<1>3. CASE i \in DOMAIN inputs
  <2>1. /\ \E l : Go("irq", l) /\ loc' = [loc EXCEPT !["irq"].i = i]
        /\ inputs' = [inputs EXCEPT ![i].isr = FALSE]
    BY <1>3 DEF in_device
  <2> HIDE DEF i
  <2>2. /\ pc'["con"] = pc["con"] /\ loc'["con"] = loc["con"] /\ loc'["irq"].i = i
        /\ pc'["sys"] = pc["sys"] /\ loc'["sys"] = loc["sys"]
    BY <1>1, <2>1 DEF Go, Actors, LocalType
  <2>3. DOMAIN inputs' = DOMAIN inputs
    BY <2>1
  <2>4. EvStart' /\ Fetching'
    BY <1>1, <1>3, <2>2, <2>3 DEF EvInv, EvStart, Fetching, world
  <2>5. \A d \in DOMAIN inputs : SameInput(d)
    BY <2>1 DEF SameInput
  <2>6. \A b \in Readers : SamePop(b)
    BY <2>2 DEF SamePop, InPop, Readers
  <2>7. EvGood => EvGood'
    <3> SUFFICES ASSUME EvGood PROVE EvGood'
      OBVIOUS
    <3>1. Pops' /\ \A b \in Readers : /\ Advanced(b)' <=> Advanced(b)
                                      /\ Advanced(b) => loc'[b].ev = loc[b].ev
      <4>1. Pops /\ ring' = ring
        BY <1>1 DEF EvGood
      <4> QED BY <2>6, <4>1, PopsKept, Zenon
    <3> QED BY <1>1, <2>3, <2>5, <3>1, EvKept
  <2> QED BY <1>1, <2>4, <2>7 DEF EvInv
<1> QED BY <1>2, <1>3
----------------------------------------------------------------------------
(* Events that arrive *)

\* An event goes from its device's queue to the end of the ring, or the full
\* ring is emptied.
LEMMA Pushed ==
    ASSUME EvGood, NEW i \in DOMAIN inputs, inputs[i].ack # inputs[i].used,
           ring' = ie_ring_buffer_push(inputs[i].buf[inputs[i].ack % Q]),
           inputs' = [inputs EXCEPT ![i].ack = @ + 1, ![i].avail = @ + 1],
           UNCHANGED <<got, pc, loc, mishap>>, ~Popping, ~InPop("sys"),
           InPop("con") => ring.occupied # Capacity
    PROVE  EvGood'
<1> DEFINE e == Written(i, inputs[i].ack)
<1>1. /\ RingType /\ Items /\ DOMAIN got = DOMAIN inputs
      /\ \A d \in DOMAIN inputs : InputType(d) /\ Queued(d)
  BY DEF EvGood
<1>2. Capacity \in Nat \ {0} /\ Q \in Nat \ {0}
  BY DevicesAssumption
<1>3. ~Popping' /\ First = 0 /\ First' = 0 /\ Count = ring.occupied /\ Count' = ring'.occupied
  BY DEF Popping, Advanced, First, Count
<1>4. ring.occupied \in Nat /\ ring.start \in 0 .. Capacity - 1
  BY <1>1, <1>2 DEF RingType
<1>5. InputType(i) /\ Queued(i) /\ inputs[i].ack \in Waiting(i)
  BY <1>1 DEF InputType, Waiting
<1>6. Fresh(e, i)
  BY <1>5 DEF Queued
<1>7. \A k \in 0 .. ring.occupied - 1 : Before(Item(k), e)
  BY <1>3, <1>5 DEF Queued
<1>8. ring' = ie_ring_buffer_push(e)
  BY DEF Written
<1> HIDE DEF e
<1>9. /\ DOMAIN inputs' = DOMAIN inputs /\ \A d \in DOMAIN inputs \ {i} : inputs'[d] = inputs[d]
      /\ inputs'[i] = [inputs[i] EXCEPT !.ack = @ + 1, !.avail = @ + 1]
  OBVIOUS
<1>10. /\ inputs'[i].ack = inputs[i].ack + 1 /\ inputs'[i].avail = inputs[i].avail + 1
       /\ inputs'[i].used = inputs[i].used /\ inputs'[i].buf = inputs[i].buf
       /\ inputs'[i].sent = inputs[i].sent /\ DOMAIN inputs'[i] = DOMAIN inputs[i]
  BY <1>5, <1>9 DEF InputType
<1>11. /\ RingType' /\ Pops'
       /\ \A k \in 0 .. ring'.occupied - 1 :
             \/ k \in 0 .. ring.occupied - 1 /\ Item(k)' = Item(k)
             \/ k = ring.occupied /\ k = ring'.occupied - 1 /\ Item(k)' = e
  <2>1. CASE ring.occupied = Capacity
    <3>1. ring' = [ring EXCEPT !.start = 0, !.occupied = 0]
      BY <1>8, <2>1 DEF ie_ring_buffer_push
    <3>2. /\ ring'.start = 0 /\ ring'.occupied = 0 /\ ring'.elements = ring.elements
          /\ DOMAIN ring' = DOMAIN ring
      BY <1>1, <3>1 DEF RingType
    <3>3. \A a \in Readers : ~InPop(a)'
      BY <2>1 DEF InPop, Readers
    <3>4. Pops'
      BY <3>3 DEF Pops, PopAt, InPop
    <3> QED BY <1>1, <1>2, <3>2, <3>4 DEF RingType
  <2>2. CASE ring.occupied # Capacity
    <3> DEFINE z == (ring.start + ring.occupied) % Capacity
    <3>1. ring' = [ring EXCEPT !.elements[z] = e, !.occupied = @ + 1]
      BY <1>8, <2>2 DEF ie_ring_buffer_push
    <3>2. z \in 0 .. Capacity - 1
      BY <1>2, <1>4
    <3>3. /\ ring'.start = ring.start /\ ring'.occupied = ring.occupied + 1
          /\ ring'.elements = [ring.elements EXCEPT ![z] = e] /\ DOMAIN ring' = DOMAIN ring
      <4> HIDE DEF z
      <4> QED BY <1>1, <3>1 DEF RingType
    <3>4. RingType'
      <4> HIDE DEF z
      <4> QED BY <1>1, <1>2, <1>4, <2>2, <3>3 DEF RingType
    <3>5. ASSUME NEW k \in 0 .. ring.occupied - 1 PROVE Item(k)' = Item(k)
      <4>1. Slot(k)' = Slot(k) /\ k # -1
        BY <1>4, <3>3 DEF Slot
      <4>2. Slot(k) # z
        <5>1. ring.start + k \in Int /\ ring.start + ring.occupied \in Int
              /\ ring.start + k < ring.start + ring.occupied
              /\ (ring.start + ring.occupied) - (ring.start + k) < Capacity
          BY <1>1, <1>2, <1>4, <2>2 DEF RingType
        <5> DEFINE x == ring.start + k
                   y == ring.start + ring.occupied
        <5>2. x \in Int /\ y \in Int /\ x < y /\ y - x < Capacity
          BY <5>1
        <5> HIDE DEF x, y
        <5>3. x % Capacity # y % Capacity
          BY <1>2, <5>2, SlotsApart
        <5> QED BY <5>3 DEF x, y, Slot
      <4>3. ring'.elements[Slot(k)] = ring.elements[Slot(k)]
        <5> HIDE DEF z
        <5> QED BY <3>3, <4>2
      <4> QED BY <4>1, <4>3 DEF Item
    <3>6. ASSUME NEW k \in Nat, k = ring.occupied PROVE Item(k)' = e
      <4>1. Slot(k)' = z /\ k # -1
        BY <3>3, <3>6 DEF Slot
      <4>2. ring'.elements[z] = e
        <5> HIDE DEF z
        <5> QED BY <1>1, <3>2, <3>3 DEF RingType
      <4> HIDE DEF z
      <4> QED BY <4>1, <4>2 DEF Item
    <3>7. Pops'
      <4>1. Pops /\ \A a \in Readers : InPop(a)' <=> InPop(a)
        BY DEF EvGood, InPop
      <4>2. ASSUME NEW a \in Readers, InPop(a) PROVE PopAt(a)'
        <5>1. PopAt(a) /\ ring.occupied # 0 /\ ~Advanced(a)
          BY <4>1, <4>2, OnlyPop DEF Popping
        <5>2. Item(0)' = Item(0) /\ Slot(0) = ring.start /\ Slot(0)' = ring.start
          <6>1. 0 \in 0 .. ring.occupied - 1
            BY <1>4, <5>1
          <6> QED BY <1>2, <1>4, <3>3, <3>5, <6>1 DEF Slot
        <5>3. ring'.elements[ring'.start] = ring.elements[ring.start]
          <6>1. Item(0) = ring.elements[ring.start] /\ Item(0)' = ring'.elements[ring.start]
            BY <5>2 DEF Item
          <6> QED BY <3>3, <5>2, <6>1
        <5>4. ring'.occupied # 0 /\ ring'.start = ring.start
          BY <1>4, <3>3
        <5>5. pc[a] # "pop_store"
          BY <5>1 DEF Advanced
        <5> QED BY <5>1, <5>3, <5>4, <5>5 DEF PopAt
      <4>3. ASSUME NEW a \in Readers, ~InPop(a) PROVE PopAt(a)'
        BY <4>3 DEF PopAt, InPop
      <4> QED BY <4>1, <4>2, <4>3 DEF Pops
    <3> QED BY <1>4, <3>3, <3>4, <3>5, <3>6, <3>7
  <2> QED BY <2>1, <2>2
<1>12. \A d \in DOMAIN inputs : \A k : Written(d, k)' = Written(d, k)
  BY <1>9, <1>10 DEF Written
<1>13. ASSUME NEW d \in DOMAIN inputs
       PROVE  /\ InputType(d)'
              /\ \A k \in Waiting(d)' : k \in Waiting(d) /\ (d = i => inputs[i].ack < k)
  <2>1. CASE d = i
    BY <1>2, <1>5, <1>10, <2>1 DEF InputType, Waiting
  <2>2. CASE d # i
    <3>1. InputType(d) /\ inputs'[d] = inputs[d]
      BY <1>1, <1>9, <2>2
    <3> QED BY <2>2, <3>1 DEF InputType, Waiting
  <2> QED BY <2>1, <2>2
<1>14. \A d \in DOMAIN inputs : inputs'[d].sent = inputs[d].sent
  BY <1>9, <1>10
<1>15. ASSUME NEW k \in 0 .. ring'.occupied - 1
       PROVE  Item(k)'.dev \in DOMAIN inputs' /\ Fresh(Item(k), Item(k).dev)'
  <2>1. CASE k \in 0 .. ring.occupied - 1 /\ Item(k)' = Item(k)
    <3>1. Item(k).dev \in DOMAIN inputs /\ Fresh(Item(k), Item(k).dev)
      BY <1>1, <1>3, <2>1 DEF Items
    <3> QED BY <1>9, <1>14, <2>1, <3>1 DEF Fresh
  <2>2. CASE Item(k)' = e
    BY <1>6, <1>9, <1>14, <2>2 DEF Fresh
  <2> QED BY <1>11, <2>1, <2>2
<1>16. ASSUME NEW k \in 0 .. ring'.occupied - 1, NEW m \in 0 .. ring'.occupied - 1, k < m
       PROVE  Before(Item(k), Item(m))'
  <2>1. k \in 0 .. ring.occupied - 1 /\ Item(k)' = Item(k)
    BY <1>4, <1>11, <1>16
  <2>2. CASE m \in 0 .. ring.occupied - 1 /\ Item(m)' = Item(m)
    BY <1>1, <1>3, <1>16, <2>1, <2>2 DEF Items, Before
  <2>3. CASE Item(m)' = e
    BY <1>7, <2>1, <2>3 DEF Before
  <2> QED BY <1>11, <2>2, <2>3
<1>17. Items'
  BY <1>3, <1>15, <1>16 DEF Items
<1>18. ASSUME NEW d \in DOMAIN inputs PROVE Queued(d)'
  <2>1. Queued(d)
    BY <1>1
  <2>2. \A k \in Waiting(d)' : k \in Waiting(d) /\ Written(d, k)' = Written(d, k)
    BY <1>12, <1>13
  <2>3. \A k \in Waiting(d)' : Fresh(Written(d, k), d)'
    BY <1>14, <2>1, <2>2 DEF Queued, Fresh
  <2>4. \A k, m \in Waiting(d)' : k < m => Written(d, k)'.n < Written(d, m)'.n
    BY <2>1, <2>2 DEF Queued
  <2>5. ASSUME NEW k \in 0 .. ring'.occupied - 1, NEW m \in Waiting(d)'
        PROVE  Before(Item(k), Written(d, m))'
    <3>1. CASE k \in 0 .. ring.occupied - 1 /\ Item(k)' = Item(k)
      BY <1>3, <2>1, <2>2, <3>1 DEF Queued, Before
    <3>2. CASE Item(k)' = e
      <4>1. CASE d = i
        <5>1. inputs[i].ack < m /\ m \in Waiting(i)
          BY <1>13, <4>1
        <5>2. e.n < Written(i, m).n
          BY <1>5, <5>1 DEF Queued, e
        <5> QED BY <2>2, <3>2, <4>1, <5>2 DEF Before
      <4>2. CASE d # i
        <5>1. Written(d, m).dev = d /\ e.dev = i
          BY <1>6, <2>1, <2>2 DEF Queued, Fresh
        <5> QED BY <2>2, <3>2, <4>2, <5>1 DEF Before
      <4> QED BY <4>1, <4>2
    <3> QED BY <1>11, <3>1, <3>2
  <2> QED BY <1>3, <2>3, <2>4, <2>5 DEF Queued
<1> QED BY <1>1, <1>9, <1>11, <1>13, <1>17, <1>18 DEF EvGood

LEMMA InEventsStep == ASSUME GpuInv, LockInv, EvInv, in_events PROVE EvInv'
<1> USE TypesNow
<1> DEFINE i == loc["irq"].i
<1>1. /\ At("irq", "in_events") /\ on /\ UNCHANGED <<world, got, loc>> /\ "irq" \in Actors
      /\ pc["irq"] = "in_events"
  BY DEF in_events, At, Actors
<1>2. i \in DOMAIN inputs
  BY <1>1 DEF EvInv, Fetching
<1>3. CASE inputs[i].ack = inputs[i].used
  <2>1. Go("irq", "in_device") /\ UNCHANGED <<events, mishap>>
    BY <1>1, <1>3 DEF in_events, events
  <2> QED BY <1>1, <2>1, QuietGo, NothingWrong
<1>4. CASE inputs[i].ack # inputs[i].used
  <2>1. /\ ring' = ie_ring_buffer_push(inputs[i].buf[inputs[i].ack % Q])
        /\ inputs' = [inputs EXCEPT ![i].ack = @ + 1, ![i].avail = @ + 1]
        /\ mishap' = mishap \union TornByPush /\ UNCHANGED pc
    BY <1>4 DEF in_events
  <2>2. EvStart' /\ Fetching'
    BY <1>1, <1>2, <2>1 DEF EvStart, Fetching, world
  <2>3. CASE TornByPush # {}
    BY <2>1, <2>2, <2>3 DEF EvInv, TornByPush
  <2>4. CASE TornByPush = {}
    <3>1. UNCHANGED mishap
      BY <2>1, <2>4
    <3>2. ~InPop("sys") /\ ~Advanced("sys")
      <4>1. pc["sys"] \notin SysPops
        BY <1>1 DEF LockInv, Pushing
      <4> QED BY <4>1 DEF InPop, Advanced, SysPops
    <3>3. ~Popping /\ (InPop("con") => ring.occupied # Capacity)
      BY <2>4, <3>2 DEF TornByPush, Popping, Readers
    <3>4. EvGood => EvGood'
      <4> HIDE DEF i
      <4> QED BY <1>1, <1>2, <1>4, <2>1, <3>1, <3>2, <3>3, Pushed
    <3> QED BY <2>2, <3>1, <3>4 DEF EvInv
  <2> QED BY <2>3, <2>4
<1> QED BY <1>3, <1>4

\* A device writes an event behind those that wait, or drops it.
LEMMA Sent ==
    ASSUME EvGood, NEW i \in DOMAIN inputs, SendEvent(i)
    PROVE  EvGood'
<1> DEFINE d == inputs[i]
           ev == [dev |-> i, n |-> d.sent + 1, type |-> machine.sent[d.sent + 1]]
<1>1. /\ RingType /\ Items /\ DOMAIN got = DOMAIN inputs
      /\ \A x \in DOMAIN inputs : InputType(x) /\ Queued(x)
  BY DEF EvGood
<1>2. /\ UNCHANGED <<ring, got, pc, loc, mishap>>
      /\ inputs' = [inputs EXCEPT ![i] =
                      IF d.used < d.avail
                      THEN [d EXCEPT !.buf[d.used % Q] = ev, !.used = @ + 1, !.isr = TRUE,
                                     !.sent = @ + 1]
                      ELSE [d EXCEPT !.sent = @ + 1]]
  BY DEF SendEvent
<1>3. Q \in Nat \ {0} /\ InputType(i) /\ Queued(i)
  BY <1>1, DevicesAssumption
<1>4. ev.dev = i /\ ev.n = inputs[i].sent + 1
  OBVIOUS
<1> HIDE DEF ev
<1>5. /\ DOMAIN inputs' = DOMAIN inputs /\ \A x \in DOMAIN inputs \ {i} : inputs'[x] = inputs[x]
      /\ inputs'[i] = IF d.used < d.avail
                      THEN [d EXCEPT !.buf[d.used % Q] = ev, !.used = @ + 1, !.isr = TRUE,
                                     !.sent = @ + 1]
                      ELSE [d EXCEPT !.sent = @ + 1]
  BY <1>2
<1>6. /\ DOMAIN inputs'[i] = DOMAIN inputs[i] /\ inputs'[i].sent = inputs[i].sent + 1
      /\ inputs'[i].ack = inputs[i].ack /\ inputs'[i].avail = inputs[i].avail
      /\ \/ /\ inputs[i].used < inputs[i].avail /\ inputs'[i].used = inputs[i].used + 1
            /\ inputs'[i].buf = [inputs[i].buf EXCEPT ![inputs[i].used % Q] = ev]
         \/ inputs'[i].used = inputs[i].used /\ inputs'[i].buf = inputs[i].buf
  <2>1. CASE d.used < d.avail
    <3> DEFINE z == d.used % Q
    <3>1. inputs'[i] = [d EXCEPT !.buf[z] = ev, !.used = @ + 1, !.isr = TRUE, !.sent = @ + 1]
      BY <1>5, <2>1
    <3> HIDE DEF z
    <3>2. /\ DOMAIN inputs'[i] = DOMAIN d /\ inputs'[i].sent = d.sent + 1
          /\ inputs'[i].ack = d.ack /\ inputs'[i].avail = d.avail
          /\ inputs'[i].used = d.used + 1 /\ inputs'[i].buf = [d.buf EXCEPT ![z] = ev]
      BY <1>3, <3>1 DEF InputType
    <3> QED BY <2>1, <3>2 DEF z
  <2>2. CASE ~(d.used < d.avail)
    <3>1. inputs'[i] = [d EXCEPT !.sent = @ + 1]
      BY <1>5, <2>2
    <3> QED BY <1>3, <3>1 DEF InputType
  <2> QED BY <2>1, <2>2
<1> HIDE DEF d
<1>7. \A x \in DOMAIN inputs : inputs'[x].sent \in Nat /\ inputs[x].sent <= inputs'[x].sent
  <2>1. \A x \in DOMAIN inputs : inputs[x].sent \in Nat
    BY <1>1 DEF InputType
  <2>2. \A x \in DOMAIN inputs : inputs'[x].sent = IF x = i THEN inputs[x].sent + 1 ELSE inputs[x].sent
    BY <1>5, <1>6
  <2> QED BY <2>1, <2>2
<1>8. First' = First /\ Count' = Count /\ RingType' /\ Pops' /\ \A k : Item(k)' = Item(k)
  <2>1. (Popping' <=> Popping) /\ Taken' = Taken
    BY <1>2 DEF Popping, Advanced, Taken
  <2>2. \A b \in Readers : SamePop(b)
    BY <1>2 DEF SamePop, InPop
  <2>3. Pops'
    BY <1>2, <2>2, PopsKept DEF EvGood
  <2> QED BY <1>1, <1>2, <2>1, <2>3 DEF First, Count, Item, Slot, RingType
<1>9. Items'
  <2>1. ASSUME NEW k \in First .. Count - 1
        PROVE  Item(k)'.dev \in DOMAIN inputs' /\ Fresh(Item(k), Item(k).dev)'
    <3>1. Item(k).dev \in DOMAIN inputs /\ Fresh(Item(k), Item(k).dev)
      BY <1>1 DEF Items
    <3>2. inputs[Item(k).dev].sent \in Nat
      BY <1>1, <3>1 DEF InputType
    <3> QED BY <1>2, <1>5, <1>7, <1>8, <3>1, <3>2 DEF Fresh
  <2>2. \A k, m \in First .. Count - 1 : k < m => Before(Item(k), Item(m))'
    BY <1>1, <1>8 DEF Items, Before
  <2> QED BY <1>8, <2>1, <2>2 DEF Items
<1>10. ASSUME NEW x \in DOMAIN inputs PROVE InputType(x)'
  <2>1. CASE x = i
    BY <1>2, <1>3, <1>6, <2>1 DEF InputType
  <2>2. CASE x # i
    BY <1>1, <1>2, <1>5, <2>2 DEF InputType
  <2> QED BY <2>1, <2>2
<1>11. ASSUME NEW x \in DOMAIN inputs, NEW k \in Waiting(x)'
       PROVE  \/ k \in Waiting(x) /\ Written(x, k)' = Written(x, k)
              \/ /\ x = i /\ k = inputs[i].used /\ k = inputs'[i].used - 1 /\ k \in Nat
                 /\ Written(x, k)' = ev
  <2>1. CASE x # i
    BY <1>5, <2>1 DEF Waiting, Written
  <2>2. CASE x = i /\ inputs'[i].used = inputs[i].used /\ inputs'[i].buf = inputs[i].buf
    BY <1>6, <2>2 DEF Waiting, Written
  <2>3. CASE /\ x = i /\ inputs[i].used < inputs[i].avail /\ inputs'[i].used = inputs[i].used + 1
             /\ inputs'[i].buf = [inputs[i].buf EXCEPT ![inputs[i].used % Q] = ev]
    <3> DEFINE u == inputs[i].used
    <3>1. u \in Nat /\ u % Q \in 0 .. Q - 1 /\ DOMAIN inputs[i].buf = 0 .. Q - 1
      BY <1>3 DEF InputType
    <3>2. k \in inputs[i].ack .. u /\ k \in Nat
      BY <1>3, <1>6, <2>3 DEF Waiting, InputType
    <3>3. Written(x, k)' = [inputs[i].buf EXCEPT ![u % Q] = ev][k % Q]
      BY <2>3 DEF Written
    <3>4. CASE k = u
      <4>1. Written(x, k)' = ev
        BY <3>1, <3>3, <3>4
      <4> QED BY <2>3, <3>1, <3>2, <3>4, <4>1
    <3>5. CASE k # u
      <4>1. k < u /\ u - k < Q /\ k \in Waiting(i)
        BY <1>3, <2>3, <3>1, <3>2, <3>5 DEF InputType, Waiting
      <4> HIDE DEF u
      <4>2. k % Q # u % Q
        <5>1. k \in Int /\ u \in Int /\ Q \in Nat \ {0}
          BY <1>3, <3>1, <3>2
        <5> QED BY <4>1, <5>1, SlotsApart
      <4>3. k % Q \in 0 .. Q - 1
        BY <1>3, <3>2
      <4>4. Written(x, k)' = inputs[i].buf[k % Q]
        BY <3>1, <3>3, <4>2, <4>3
      <4> QED BY <2>3, <4>1, <4>4 DEF Written
    <3> QED BY <3>4, <3>5
  <2> QED BY <1>6, <2>1, <2>2, <2>3
<1>12. ASSUME NEW x \in DOMAIN inputs PROVE Queued(x)'
  <2>1. Queued(x) /\ InputType(x)
    BY <1>1
  <2>2. ASSUME NEW k \in Waiting(x)' PROVE Fresh(Written(x, k), x)'
    <3>1. CASE k \in Waiting(x) /\ Written(x, k)' = Written(x, k)
      <4>1. Fresh(Written(x, k), x)
        BY <2>1, <3>1 DEF Queued
      <4> QED BY <1>2, <1>7, <2>1, <3>1, <4>1 DEF Fresh, InputType
    <3>2. CASE x = i /\ Written(x, k)' = ev
      BY <1>2, <1>4, <1>6, <2>1, <3>2 DEF Fresh, InputType
    <3> QED BY <1>11, <3>1, <3>2
  <2>3. ASSUME NEW k \in Waiting(x)', NEW m \in Waiting(x)', k < m
        PROVE  Written(x, k)'.n < Written(x, m)'.n
    <3>1. k \in Waiting(x) /\ Written(x, k)' = Written(x, k)
      <4>1. CASE x = i /\ k = inputs'[i].used - 1 /\ k \in Nat
        <5>1. m < inputs'[i].used /\ m \in Int /\ inputs'[i].used \in Nat
          BY <1>10, <4>1 DEF Waiting, InputType
        <5> QED BY <2>3, <4>1, <5>1
      <4> QED BY <1>11, <4>1
    <3>2. CASE m \in Waiting(x) /\ Written(x, m)' = Written(x, m)
      BY <2>1, <2>3, <3>1, <3>2 DEF Queued
    <3>3. CASE x = i /\ Written(x, m)' = ev
      <4>1. Fresh(Written(x, k), x)
        BY <2>1, <3>1 DEF Queued
      <4> QED BY <1>4, <2>1, <3>1, <3>3, <4>1 DEF Fresh, InputType
    <3> QED BY <1>11, <3>2, <3>3
  <2>4. ASSUME NEW k \in First .. Count - 1, NEW m \in Waiting(x)'
        PROVE  Before(Item(k), Written(x, m))'
    <3>1. CASE m \in Waiting(x) /\ Written(x, m)' = Written(x, m)
      BY <1>8, <2>1, <3>1 DEF Queued, Before
    <3>2. CASE x = i /\ Written(x, m)' = ev
      <4>1. Fresh(Item(k), Item(k).dev)
        BY <1>1 DEF Items
      <4> QED BY <1>4, <1>8, <2>1, <3>2, <4>1 DEF Before, Fresh, InputType
    <3> QED BY <1>11, <3>1, <3>2
  <2> QED BY <1>8, <2>2, <2>3, <2>4 DEF Queued
<1> QED BY <1>1, <1>2, <1>5, <1>8, <1>9, <1>10, <1>12 DEF EvGood

LEMMA SendStep == ASSUME EvInv, NEW i \in DOMAIN inputs, SendEvent(i) PROVE EvInv'
<1>1. UNCHANGED <<on, pc, loc, mishap>> /\ DOMAIN inputs' = DOMAIN inputs
  BY DEF SendEvent, world
<1>2. on
  <2>1. inputs = << >> => DOMAIN inputs = {}
    OBVIOUS
  <2> QED BY <2>1 DEF EvInv, EvStart
<1>3. EvStart' /\ Fetching'
  BY <1>1, <1>2 DEF EvInv, EvStart, Fetching
<1> QED BY <1>1, <1>3, Sent DEF EvInv

LEMMA BootEvents == ASSUME EvInv, Boot PROVE EvInv'
<1> DEFINE D == DOMAIN inputs'
<1>1. /\ on' /\ UNCHANGED <<ring, pc, loc, mishap>> /\ ~on
      /\ inputs' = [i \in D |-> NewInput] /\ got' = [i \in D |-> 0]
  BY DEF Boot
<1> HIDE DEF D
<1>2. ring.occupied = 0 /\ pc = [a \in Actors |-> "idle"]
  BY <1>1 DEF EvInv, EvStart
<1>3. /\ pc["irq"] = "idle" /\ ~Popping /\ ~Popping'
      /\ \A a \in Readers : ~InPop(a)'
  BY <1>1, <1>2 DEF Actors, Readers, Popping, Advanced, InPop
<1>4. EvStart' /\ Fetching'
  BY <1>1, <1>3 DEF EvStart, Fetching
<1>5. ASSUME EvGood PROVE EvGood'
  <2>1. RingType' /\ Pops'
    <3>1. RingType'
      BY <1>1, <1>5 DEF EvGood, RingType
    <3>2. Pops'
      BY <1>3 DEF Pops, PopAt, InPop
    <3> QED BY <3>1, <3>2
  <2>2. First' = 0 /\ Count' = 0
    BY <1>1, <1>2, <1>3 DEF First, Count
  <2>3. ASSUME NEW d \in D
        PROVE  InputType(d)' /\ Waiting(d)' = {}
    <3>1. inputs'[d] = NewInput /\ got'[d] = 0 /\ Q \in Nat \ {0}
      BY <1>1, DevicesAssumption
    <3>2. /\ {"buf", "avail", "used", "ack", "sent", "isr"} \subseteq DOMAIN NewInput
          /\ NewInput.ack = 0 /\ NewInput.used = 0 /\ NewInput.sent = 0 /\ NewInput.avail = Q
          /\ DOMAIN NewInput.buf = 0 .. Q - 1
      BY DEF NewInput
    <3> QED BY <3>1, <3>2 DEF InputType, Waiting
  <2>4. DOMAIN inputs' = D /\ DOMAIN got' = D
    BY <1>1
  <2> QED BY <1>1, <1>5, <2>1, <2>2, <2>3, <2>4 DEF EvGood, Items, Queued
<1> QED BY <1>1, <1>4, <1>5 DEF EvInv
----------------------------------------------------------------------------
(* Events: the result *)

LEMMA EvInit == Init => EvInv
<1> SUFFICES ASSUME Init PROVE EvInv
  OBVIOUS
<1>1. /\ on = FALSE /\ inputs = << >> /\ got = << >> /\ mishap = {} /\ pc = [a \in Actors |-> "idle"]
      /\ ring = [start |-> 0, occupied |-> 0, elements |-> [s \in 0 .. Capacity - 1 |-> NoEvent]]
  BY DEF Init
<1>2. ring.occupied = 0 /\ ring.start = 0 /\ DOMAIN ring.elements = 0 .. Capacity - 1
      /\ {"start", "occupied", "elements"} \subseteq DOMAIN ring /\ Capacity \in Nat \ {0}
  BY <1>1, DevicesAssumption
<1>3. pc["irq"] = "idle" /\ ~Popping /\ \A a \in Readers : ~InPop(a)
  BY <1>1 DEF Actors, Readers, Popping, Advanced, InPop
<1>4. First = 0 /\ Count = 0 /\ RingType /\ Pops
  <2>1. Pops
    BY <1>3 DEF Pops, PopAt, InPop
  <2> QED BY <1>2, <1>3, <2>1 DEF First, Count, RingType
<1>5. DOMAIN inputs = {} /\ DOMAIN got = {} /\ "disorder" \notin mishap
  BY <1>1
<1>6. EvGood
  BY <1>4, <1>5 DEF EvGood, Items
<1> QED BY <1>1, <1>2, <1>3, <1>6 DEF EvInv, EvStart, Fetching

LEMMA EvNext == GpuInv /\ LockInv /\ EvInv /\ [Next]_vars => EvInv'
<1> SUFFICES ASSUME GpuInv, LockInv, EvInv, [Next]_vars PROVE EvInv'
  OBVIOUS
<1>1. CASE Console
  BY <1>1, QuietGpu, PopEvents, QuietConsole DEF Console, Actors, Readers
<1>2. CASE Syscall
  BY <1>2, QuietGpu, PopEvents, QuietConsole DEF Syscall, Actors, Readers
<1>3. CASE Interrupt
  BY <1>3, QuietHandler, InDeviceStep, InEventsStep DEF Interrupt
<1>4. CASE Step("irq")
  BY <1>4, QuietGpu DEF Actors
<1>5. CASE UNCHANGED vars \/ \E z \in Sizes : Resize(z)
  <2>1. UNCHANGED <<on, inputs, ring, got, pc, loc, mishap>>
    BY <1>5 DEF vars, Resize, world, events
  <2> QED BY <2>1, EvSame
<1> QED BY <1>1, <1>2, <1>3, <1>4, <1>5, BootEvents, QuietCalls, SendStep DEF Next

LEMMA EvMeans == EvInv => EventsInOrder
<1> SUFFICES ASSUME EvGood, "torn" \notin mishap PROVE EventsInOrder
  BY DEF EvInv, EventsInOrder
<1> DEFINE left == IF Popping THEN <<Taken>> \o SubSeq(Contents, 1, ring.occupied - 1)
                   ELSE Contents
           X == {ring.elements[k] : k \in Int}
<1>0. ToRead = left
  <2>1. CASE Advanced("con")
    BY <2>1 DEF ToRead, Popping, Taken, Readers
  <2>2. CASE ~Advanced("con") /\ Advanced("sys")
    BY <2>2 DEF ToRead, Popping, Taken, Readers
  <2>3. CASE ~Advanced("con") /\ ~Advanced("sys")
    BY <2>3 DEF ToRead, Popping, Readers
  <2> QED BY <2>1, <2>2, <2>3
<1>1. RingType /\ Items /\ ring.occupied \in Nat
  BY DevicesAssumption DEF EvGood, RingType
<1>2. /\ Contents \in Seq(X) /\ Len(Contents) = ring.occupied
      /\ \A k \in 1 .. ring.occupied : Contents[k] = Item(k - 1)
  <2>1. Contents = [k \in 1 .. ring.occupied |-> ring.elements[(ring.start + k - 1) % Capacity]]
    BY DEF Contents
  <2>2. ASSUME NEW k \in 1 .. ring.occupied
        PROVE  /\ (ring.start + k - 1) % Capacity \in Int
               /\ ring.elements[(ring.start + k - 1) % Capacity] = Item(k - 1)
    <3>1. ring.start \in Int /\ k \in Int /\ Capacity \in Nat \ {0} /\ k - 1 # -1
      BY <1>1, DevicesAssumption DEF RingType
    <3>2. ring.start + k - 1 = ring.start + (k - 1) /\ (ring.start + k - 1) % Capacity \in Int
      BY <3>1
    <3> QED BY <3>1, <3>2 DEF Item, Slot
  <2>3. \A k \in 1 .. ring.occupied : Contents[k] = Item(k - 1) /\ Contents[k] \in X
    BY <2>1, <2>2
  <2>4. Contents \in [1 .. ring.occupied -> X]
    BY <2>1, <2>3
  <2> HIDE DEF X
  <2> QED BY <1>1, <2>3, <2>4
<1> HIDE DEF X
<1>3. /\ DOMAIN left = 1 .. (Count - First)
      /\ \A j \in 1 .. (Count - First) : left[j] = Item(First + j - 1)
      /\ First \in Int /\ Count \in Int
  <2>1. CASE Popping
    <3>0. ring.occupied # 0
      BY <2>1, OnlyPop DEF Popping, InPop, Advanced
    <3>1. ring.occupied - 1 \in Nat /\ First = -1 /\ Count = ring.occupied - 1
      BY <1>1, <2>1, <3>0 DEF First, Count
    <3> DEFINE c == SubSeq(Contents, 1, ring.occupied - 1)
    <3>2. /\ c \in Seq(X) /\ Len(c) = ring.occupied - 1
          /\ \A k \in 1 .. ring.occupied - 1 : c[k] = Item(k - 1)
      <4> DEFINE n == ring.occupied - 1
      <4>1. Contents \in Seq(X) /\ n \in Nat /\ n <= Len(Contents)
        BY <1>1, <1>2, <3>1
      <4> HIDE DEF n
      <4>2. SubSeq(Contents, 1, n) \in Seq(X)
        BY <4>1
      <4>3. /\ Len(SubSeq(Contents, 1, n)) = n
            /\ \A k \in 1 .. n : SubSeq(Contents, 1, n)[k] = Contents[k]
        BY <4>1
      <4>4. \A k \in 1 .. n : Contents[k] = Item(k - 1)
        BY <1>1, <1>2, <4>1 DEF n
      <4> QED BY <4>2, <4>3, <4>4 DEF n
    <3> HIDE DEF c
    <3>3. left = <<Taken>> \o c
      BY <2>1 DEF c
    <3>4. Item(-1) = Taken
      BY DEF Item
    <3>5. /\ DOMAIN left = 1 .. ring.occupied /\ left[1] = Taken
          /\ \A j \in 2 .. ring.occupied : left[j] = c[j - 1]
      <4> DEFINE Y == X \union {Taken}
      <4>1. c \in Seq(Y) /\ <<Taken>> \in Seq(Y)
        BY <3>2
      <4> HIDE DEF Y, left
      <4> QED BY <1>1, <3>1, <3>2, <3>3, <4>1
    <3> HIDE DEF left
    <3>6. ASSUME NEW j \in 1 .. ring.occupied PROVE left[j] = Item(First + j - 1)
      <4>1. CASE j = 1
        BY <3>1, <3>4, <3>5, <4>1
      <4>2. CASE j # 1
        <5>1. j \in 2 .. ring.occupied /\ j - 1 \in 1 .. ring.occupied - 1
          BY <1>1, <4>2
        <5>2. First + j - 1 = (j - 1) - 1
          BY <3>1
        <5>3. left[j] = c[j - 1] /\ c[j - 1] = Item((j - 1) - 1)
          BY <3>2, <3>5, <5>1
        <5> QED BY <5>2, <5>3
      <4> QED BY <4>1, <4>2
    <3> QED BY <1>1, <3>1, <3>5, <3>6
  <2>2. CASE ~Popping
    <3>1. left = Contents /\ First = 0 /\ Count = ring.occupied
      BY <2>2 DEF First, Count
    <3> HIDE DEF left
    <3>2. \A j \in 1 .. ring.occupied : First + j - 1 = j - 1
      BY <3>1
    <3> QED BY <1>1, <1>2, <3>1, <3>2
  <2> QED BY <2>1, <2>2
<1> HIDE DEF left
<1>4. ASSUME NEW j \in DOMAIN left
      PROVE  /\ left[j] # NoEvent /\ left[j].n > got[left[j].dev]
             /\ \A i \in 1 .. j - 1 : left[i].dev = left[j].dev => left[i].n < left[j].n
  <2>1. First + j - 1 \in First .. Count - 1 /\ left[j] = Item(First + j - 1) /\ j \in Int
    BY <1>3
  <2>2. left[j].dev \in DOMAIN inputs /\ Fresh(left[j], left[j].dev)
    BY <1>1, <2>1 DEF Items
  <2>3. got[left[j].dev] \in Nat
    BY <2>2 DEF EvGood, InputType
  <2>4. left[j] # NoEvent /\ left[j].n > got[left[j].dev]
    BY <2>2, <2>3 DEF Fresh, NoEvent
  <2>5. ASSUME NEW i \in 1 .. j - 1 PROVE Before(left[i], left[j])
    <3>1. i \in DOMAIN left /\ First + i - 1 \in First .. Count - 1 /\ First + i - 1 < First + j - 1
      BY <1>3, <2>1
    <3> QED BY <1>1, <1>3, <2>1, <3>1 DEF Items
  <2> QED BY <2>4, <2>5 DEF Before
<1> QED BY <1>0, <1>4 DEF EvGood, EventsInOrder

\* Whatever the devices send, whoever reads and however large the devices'
\* queues and the ring are: no event is handed out twice, late or out of its
\* device's order, except after two pops at a time, or a push into a pop of the
\* console that has moved start or whose ring it emptied.
THEOREM EventsStayInOrder == Spec => []EventsInOrder
<1>1. Init => GpuInv /\ LockInv /\ EvInv
  BY GpuInit, LockInit, EvInit
<1>2. (GpuInv /\ LockInv /\ EvInv) /\ [Next]_vars => (GpuInv /\ LockInv /\ EvInv)'
  BY GpuNext, LockNext, EvNext
<1> QED BY <1>1, <1>2, EvMeans, PTL DEF Spec
----------------------------------------------------------------------------
(* The scan of the bus *)

Fields == {"drivers", "bars", "regs", "buses", "nextbus", "devices", "irqs"}

\* The entries of the list of BARs and the device structures that a layout can
\* lead to, and the nodes of the list of handlers.
Ents(L) == {BarEntry(f, b) : f \in ToSet(L), b \in 0 .. 5}
Struct(f, b, a) == [kind |-> f.kind, base |-> a, offsets |-> BarEntry(f, b).offsets,
                    which_irq |-> pcie_ecam_to_irq(f)]
Structs(L) == {Struct(f, b, a) : f \in ToSet(L), b \in 0 .. 5, a \in Nat}
Handler(line, kind) == [which_irq |-> line, irq_handler |-> kind]
Handlers == {Handler(line, kind) : line \in Int, kind \in Driven}

Knows(p, kinds) ==
    p.drivers \in Seq(Driven) /\ \A k : pcie_find_driver(p, k) <=> k \in kinds

\* The state of the bus once the first n functions of L have been met.
ScanTypes(L, n, p) ==
    /\ Fields \subseteq DOMAIN p
    /\ Knows(p, Driven)
    /\ p.bars \in Seq(Ents(L)) /\ Len(p.bars) <= n
    /\ p.devices \in Seq(Structs(L))
    /\ p.irqs \in Seq(Handlers)

\* An address is given to one function.
ScanRegs(L, n, p) ==
    /\ \A r \in p.regs : \E k \in 1 .. n, b \in 0 .. 5, a \in 0 .. Len(p.bars) - 1 :
          r = <<L[k], b, a>>
    /\ \A r, s \in p.regs : r[3] = s[3] => r[1] = s[1]

\* The bridges are numbered in the order they are met.
ScanBuses(L, n, p) ==
    /\ p.nextbus = Bridges(L, n) + 1
    /\ \A b \in p.buses : \E k \in 1 .. n :
          L[k].kind = "bridge" /\ b = <<L[k], Bridges(L, k)>>
    /\ \A v \in 1 .. p.nextbus - 1 : \E b \in p.buses : b[2] = v

\* A device structure belongs to a function: its address, its offsets, its line,
\* for which its handler is registered.
BoundTo(L, p, d, k, b, a) ==
    /\ L[k].agrees /\ L[k].kind \in Driven
    /\ \A c \in ConfigTypes(L[k]) : c.bar = b
    /\ <<L[k], b, a>> \in p.regs
    /\ d = Struct(L[k], b, a)
    /\ \E j \in DOMAIN p.irqs : p.irqs[j] = Handler(pcie_ecam_to_irq(L[k]), L[k].kind)

ScanDevices(L, n, p) ==
    /\ \A i \in DOMAIN p.devices : \E k \in 1 .. n, b \in 0 .. 5, a \in 0 .. Len(p.bars) - 1 :
          BoundTo(L, p, p.devices[i], k, b, a)
    /\ \A i, j \in DOMAIN p.devices : i # j => p.devices[i].base # p.devices[j].base
    /\ \A k \in 1 .. n : L[k].agrees /\ L[k].kind \in Driven =>
          \E i \in DOMAIN p.devices, b \in 0 .. 5 : <<L[k], b, p.devices[i].base>> \in p.regs

ScanInv(L, n, p) ==
    ScanTypes(L, n, p) /\ ScanRegs(L, n, p) /\ ScanBuses(L, n, p) /\ ScanDevices(L, n, p)

IsLayout(L) == L \in Seq(ToSet(L)) /\ Layout(L)

\* The functions of a layout, and that no two of them are the same.
LEMMA LayoutIs ==
    ASSUME NEW L, IsLayout(L)
    PROVE  /\ Len(L) \in Nat /\ DOMAIN L = 1 .. Len(L)
           /\ \A k \in 1 .. Len(L) : L[k] \in ToSet(L)
           /\ \A i, j \in 1 .. Len(L) : L[i] = L[j] => i = j
           /\ \A k \in 1 .. Len(L) : L[k].bus \in Nat /\ L[k].slot \in Nat
<1>1. Len(L) \in Nat /\ DOMAIN L = 1 .. Len(L)
  BY DEF IsLayout
<1>2. \A k \in 1 .. Len(L) : L[k] \in ToSet(L)
  BY <1>1 DEF ToSet
<1>3. \A i, j \in 1 .. Len(L) : L[i] = L[j] => i = j
  BY <1>1 DEF IsLayout, Layout, MetOnce
<1>4. \A k \in 1 .. Len(L) : L[k].bus \in Nat /\ L[k].slot \in Nat
  <2>1. \A k \in 1 .. Len(L) : L[k].bus \in 0 .. 255 /\ L[k].slot \in 0 .. 31
    BY <1>1, Zenon DEF IsLayout, Layout, BehindPorts
  <2>2. 0 .. 255 \subseteq Nat /\ 0 .. 31 \subseteq Nat
    OBVIOUS
  <2> QED BY <2>1, <2>2, Zenon
<1> QED BY <1>1, <1>2, <1>3, <1>4

\* The count of the bridges, one function at a time.
LEMMA BridgesCount ==
    ASSUME NEW L, NEW n \in Nat
    PROVE  /\ Bridges(L, 0) = 0
           /\ Bridges(L, n) \in Nat
           /\ Bridges(L, n + 1) = Bridges(L, n) + (IF L[n + 1].kind = "bridge" THEN 1 ELSE 0)
<1> DEFINE B(m) == {i \in 1 .. m : L[i].kind = "bridge"}
<1>1. B(0) = {}
  OBVIOUS
<1>2. Bridges(L, 0) = 0
  BY <1>1, FS_EmptySet DEF Bridges
<1>3. IsFiniteSet(B(n)) /\ Cardinality(B(n)) \in Nat
  <2>1. IsFiniteSet(1 .. n)
    BY FS_Interval
  <2> QED BY <2>1, FS_Subset, FS_CardinalityType
<1>4. Bridges(L, n) \in Nat
  BY <1>3 DEF Bridges
<1>5. CASE L[n + 1].kind = "bridge"
  <2>1. B(n + 1) = B(n) \union {n + 1} /\ n + 1 \notin B(n)
    BY <1>5
  <2>2. Cardinality(B(n + 1)) = Cardinality(B(n)) + 1
    <3> HIDE DEF B
    <3> QED BY <1>3, <2>1, FS_AddElement
  <2>3. Bridges(L, n + 1) = Bridges(L, n) + 1
    BY <2>2 DEF Bridges
  <2> QED BY <1>2, <1>4, <1>5, <2>3
<1>6. CASE L[n + 1].kind # "bridge"
  <2>1. B(n + 1) = B(n)
    BY <1>6
  <2>2. Bridges(L, n + 1) = Bridges(L, n)
    BY <2>1 DEF Bridges
  <2> QED BY <1>2, <1>4, <1>6, <2>2
<1> QED BY <1>5, <1>6

\* What registering a driver changes.
LEMMA Registered ==
    ASSUME NEW p, NEW kinds, NEW k \in Driven, Fields \subseteq DOMAIN p, Knows(p, kinds)
    PROVE  LET q == pcie_register_driver(p, k)
           IN /\ Fields \subseteq DOMAIN q
              /\ Knows(q, kinds \union {k})
              /\ \A x \in Fields \ {"drivers"} : q[x] = p[x]
<1> DEFINE q == pcie_register_driver(p, k)
           s == p.drivers
           t == <<k>> \o s
<1>1. CASE pcie_find_driver(p, k)
  <2>1. q = p /\ k \in kinds
    BY <1>1 DEF pcie_register_driver, Knows
  <2>2. kinds \union {k} = kinds
    BY <2>1
  <2> QED BY <2>1, <2>2
<1>2. CASE ~pcie_find_driver(p, k)
  <2>1. q = [p EXCEPT !.drivers = t]
    BY <1>2 DEF pcie_register_driver
  <2>2. /\ s \in Seq(Driven) /\ <<k>> \in Seq(Driven) /\ Len(s) \in Nat
        /\ Len(<<k>>) = 1 /\ <<k>>[1] = k
    BY DEF Knows
  <2>3. /\ t \in Seq(Driven) /\ Len(t) = 1 + Len(s)
        /\ \A i \in 1 .. 1 + Len(s) : t[i] = IF i <= 1 THEN <<k>>[i] ELSE s[i - 1]
    <3> HIDE DEF s
    <3> QED BY <2>2, ConcatProperties
  <2>4. /\ Fields \subseteq DOMAIN q /\ q.drivers = t
        /\ \A x \in Fields \ {"drivers"} : q[x] = p[x]
    BY <2>1 DEF Fields
  <2>5. \A x : pcie_find_driver(p, x) <=> x \in kinds
    BY DEF Knows
  <2>6. ASSUME NEW x PROVE pcie_find_driver(q, x) <=> x \in kinds \union {k}
    <3> HIDE DEF s, t, q
    <3>1. pcie_find_driver(q, x) <=> \E i \in 1 .. Len(t) : t[i] = x
      BY <2>4 DEF pcie_find_driver, Contains
    <3>2. pcie_find_driver(p, x) <=> \E i \in 1 .. Len(s) : s[i] = x
      BY DEF pcie_find_driver, Contains, s
    <3>3. t[1] = k /\ \A i \in 1 .. Len(s) : t[i + 1] = s[i]
      BY <2>2, <2>3
    <3>4. (\E i \in 1 .. Len(t) : t[i] = x) <=> (x = k \/ \E i \in 1 .. Len(s) : s[i] = x)
      <4>1. ASSUME NEW i \in 1 .. Len(s), s[i] = x PROVE \E j \in 1 .. Len(t) : t[j] = x
        <5>1. i + 1 \in 1 .. Len(t) /\ t[i + 1] = x
          BY <2>2, <2>3, <3>3, <4>1
        <5> QED BY <5>1
      <4>2. ASSUME NEW j \in 1 .. Len(t), t[j] = x, x # k PROVE \E i \in 1 .. Len(s) : s[i] = x
        <5>1. j # 1
          BY <3>3, <4>2
        <5>2. j - 1 \in 1 .. Len(s) /\ t[(j - 1) + 1] = x /\ (j - 1) + 1 = j
          BY <2>2, <2>3, <4>2, <5>1
        <5>3. s[j - 1] = x
          BY <3>3, <5>2
        <5> QED BY <5>2, <5>3
      <4>3. 1 \in 1 .. Len(t)
        BY <2>2, <2>3
      <4> QED BY <3>3, <4>1, <4>2, <4>3
    <3> QED BY <2>5, <3>1, <3>2, <3>4
  <2> QED BY <2>3, <2>4, <2>6 DEF Knows
<1> QED BY <1>1, <1>2

\* Before the first function.
LEMMA ScanStart ==
    ASSUME NEW L, IsLayout(L)
    PROVE  ScanInv(L, 0, pcie_init_drivers(PciStart))
<1> DEFINE p1 == pcie_register_driver(PciStart, "rng")
           p2 == pcie_register_driver(p1, "block")
           p3 == pcie_register_driver(p2, "gpu")
           p4 == pcie_register_driver(p3, "input")
           Others == Fields \ {"drivers"}
<1>0. Fields \subseteq DOMAIN PciStart /\ Knows(PciStart, {})
  <2>1. PciStart.drivers = <<>> /\ Fields \subseteq DOMAIN PciStart
    BY DEF PciStart, Fields
  <2>2. \A k : ~Contains(<<>>, k)
    BY DEF Contains
  <2>3. <<>> \in Seq(Driven)
    BY EmptySeq
  <2> QED BY <2>1, <2>2, <2>3 DEF Knows, pcie_find_driver
<1>1. /\ Fields \subseteq DOMAIN p1 /\ Knows(p1, {} \union {"rng"})
      /\ \A x \in Others : p1[x] = PciStart[x]
  BY <1>0, Registered DEF Driven
<1>2. /\ Fields \subseteq DOMAIN p2 /\ Knows(p2, ({} \union {"rng"}) \union {"block"})
      /\ \A x \in Others : p2[x] = p1[x]
  <2> HIDE DEF p1
  <2> QED BY <1>1, Registered DEF Driven
<1>3. /\ Fields \subseteq DOMAIN p3 /\ Knows(p3, (({} \union {"rng"}) \union {"block"}) \union {"gpu"})
      /\ \A x \in Others : p3[x] = p2[x]
  <2> HIDE DEF p2
  <2> QED BY <1>2, Registered DEF Driven
<1>4. /\ Fields \subseteq DOMAIN p4
      /\ Knows(p4, ((({} \union {"rng"}) \union {"block"}) \union {"gpu"}) \union {"input"})
      /\ \A x \in Others : p4[x] = p3[x]
  <2> HIDE DEF p3
  <2> QED BY <1>3, Registered DEF Driven
<1>5. pcie_init_drivers(PciStart) = p4
  BY DEF pcie_init_drivers
<1> HIDE DEF p1, p2, p3, p4
<1>6. Knows(p4, Driven)
  <2>1. ((({} \union {"rng"}) \union {"block"}) \union {"gpu"}) \union {"input"} = Driven
    BY DEF Driven
  <2> QED BY <1>4, <2>1
<1>7. \A x \in Others : p4[x] = PciStart[x]
  BY <1>1, <1>2, <1>3, <1>4
<1>8. /\ p4.bars = <<>> /\ p4.regs = {} /\ p4.buses = {} /\ p4.nextbus = 1
      /\ p4.devices = <<>> /\ p4.irqs = <<>>
  BY <1>7 DEF PciStart, Fields
<1>9. Bridges(L, 0) = 0
  BY BridgesCount
<1>10. ScanTypes(L, 0, p4)
  BY <1>4, <1>6, <1>8, EmptySeq DEF ScanTypes
<1>11. ScanRegs(L, 0, p4) /\ ScanBuses(L, 0, p4)
  BY <1>8, <1>9 DEF ScanRegs, ScanBuses
<1>12. ScanDevices(L, 0, p4)
  BY <1>8 DEF ScanDevices
<1> QED BY <1>5, <1>10, <1>11, <1>12 DEF ScanInv

\* pcie_init_bars enters the one BAR a function uses, if it uses any.
LEMMA BarsEntered ==
    ASSUME NEW p, NEW f, OneBar(f)
    PROVE  \/ pcie_init_bars(p, f) = p /\ f.kind \notin Driven
           \/ \E b \in 0 .. 5 : /\ \A c \in ConfigTypes(f) : c.bar = b
                                /\ pcie_init_bars(p, f) = pcie_add_to_bar_list(p, f, b)
<1> DEFINE used == {c.bar : c \in ConfigTypes(f)}
           add(q, bar) == IF bar \in used THEN pcie_add_to_bar_list(q, f, bar) ELSE q
           all == add(add(add(add(add(add(p, 0), 1), 2), 3), 4), 5)
<1>1. pcie_init_bars(p, f) = IF f.caps = <<>> THEN p ELSE all
  BY DEF pcie_init_bars
<1>2. CASE f.caps = <<>>
  BY <1>1, <1>2 DEF OneBar
<1>3. CASE used = {} /\ f.caps # <<>>
  <2>1. all = p
    BY <1>3
  <2>2. ConfigTypes(f) = {}
    BY <1>3
  <2> QED BY <1>1, <1>3, <2>1, <2>2 DEF OneBar
<1>4. CASE used # {} /\ f.caps # <<>>
  <2>1. PICK b \in 0 .. 5 : \A c \in ConfigTypes(f) : c.bar = b
    BY <1>4 DEF OneBar
  <2>2. used = {b}
    BY <1>4, <2>1
  <2>3. b \in {0, 1, 2, 3, 4, 5}
    BY <2>1
  <2>4. all = pcie_add_to_bar_list(p, f, b)
    <3>1. \A q, x : add(q, x) = IF x = b THEN pcie_add_to_bar_list(q, f, x) ELSE q
      BY <2>2
    <3> HIDE DEF used
    <3>2. CASE b = 0
      BY <3>1, <3>2
    <3>3. CASE b = 1
      BY <3>1, <3>3
    <3>4. CASE b = 2
      BY <3>1, <3>4
    <3>5. CASE b = 3
      BY <3>1, <3>5
    <3>6. CASE b = 4
      BY <3>1, <3>6
    <3>7. CASE b = 5
      BY <3>1, <3>7
    <3> QED BY <2>3, <3>2, <3>3, <3>4, <3>5, <3>6, <3>7
  <2> QED BY <1>1, <1>4, <2>1, <2>4
<1> QED BY <1>2, <1>3, <1>4

\* A bridge.
LEMMA BridgeScanned ==
    ASSUME NEW L, IsLayout(L), NEW n \in 0 .. Len(L) - 1, NEW p, ScanInv(L, n, p),
           L[n + 1].kind = "bridge"
    PROVE  ScanInv(L, n + 1, pcie_init_bridge(p, L[n + 1]))
<1> DEFINE f == L[n + 1]
           q == pcie_init_bridge(p, f)
<1>0. n \in Nat /\ n + 1 \in Nat /\ 1 .. n \subseteq 1 .. n + 1 /\ n + 1 \in 1 .. n + 1
  BY LayoutIs
<1>1. /\ ScanTypes(L, n, p) /\ ScanRegs(L, n, p) /\ ScanBuses(L, n, p) /\ ScanDevices(L, n, p)
  BY DEF ScanInv
<1>2. /\ Fields \subseteq DOMAIN q
      /\ q.buses = p.buses \union {<<f, p.nextbus>>} /\ q.nextbus = p.nextbus + 1
      /\ \A x \in Fields \ {"buses", "nextbus"} : q[x] = p[x]
  BY <1>1 DEF pcie_init_bridge, ScanTypes, Fields
<1>3. /\ q.drivers = p.drivers /\ q.bars = p.bars /\ q.regs = p.regs
      /\ q.devices = p.devices /\ q.irqs = p.irqs
  BY <1>2 DEF Fields
<1> HIDE DEF q
<1>4. Bridges(L, n) \in Nat /\ Bridges(L, n + 1) = Bridges(L, n) + 1
  BY <1>0, BridgesCount
<1>5. ScanTypes(L, n + 1, q)
  <2>1. Knows(q, Driven)
    BY <1>1, <1>3 DEF ScanTypes, Knows, pcie_find_driver
  <2>2. Len(q.bars) <= n + 1
    BY <1>0, <1>1, <1>3 DEF ScanTypes
  <2> QED BY <1>1, <1>2, <1>3, <2>1, <2>2 DEF ScanTypes
<1>6. ScanRegs(L, n + 1, q)
  BY <1>0, <1>1, <1>3 DEF ScanRegs
<1>7. ScanBuses(L, n + 1, q)
  <2>1. p.nextbus = Bridges(L, n + 1) /\ q.nextbus = Bridges(L, n + 1) + 1
    BY <1>1, <1>2, <1>4 DEF ScanBuses
  <2>2. ASSUME NEW b \in q.buses PROVE \E k \in 1 .. n + 1 :
           L[k].kind = "bridge" /\ b = <<L[k], Bridges(L, k)>>
    <3>1. CASE b = <<f, p.nextbus>>
      BY <1>0, <2>1, <3>1
    <3>2. CASE b \in p.buses
      BY <1>0, <1>1, <3>2 DEF ScanBuses
    <3> QED BY <1>2, <3>1, <3>2
  <2>3. ASSUME NEW v \in 1 .. q.nextbus - 1 PROVE \E b \in q.buses : b[2] = v
    <3>1. CASE v = p.nextbus
      <4>1. <<f, p.nextbus>> \in q.buses /\ <<f, p.nextbus>>[2] = v
        BY <1>2, <3>1
      <4> QED BY <4>1
    <3>2. CASE v # p.nextbus
      <4>1. v \in 1 .. p.nextbus - 1
        <5>1. \A u \in Nat, w \in Nat : w \in 1 .. (u + 1) - 1 /\ w # u => w \in 1 .. u - 1
          OBVIOUS
        <5>2. p.nextbus \in Nat /\ v \in Nat /\ v \in 1 .. (p.nextbus + 1) - 1
          BY <1>2, <1>4, <2>1, <2>3
        <5> QED BY <3>2, <5>1, <5>2
      <4> QED BY <1>1, <1>2, <4>1 DEF ScanBuses
    <3> QED BY <3>1, <3>2
  <2> QED BY <2>1, <2>2, <2>3 DEF ScanBuses
<1>8. ScanDevices(L, n + 1, q)
  <2>1. \A d, k, b, a : BoundTo(L, p, d, k, b, a) => BoundTo(L, q, d, k, b, a)
    BY <1>3 DEF BoundTo
  <2>2. f.kind \notin Driven
    BY DEF Driven
  <2>3. \A k \in 1 .. n + 1 : k \in 1 .. n \/ k = n + 1
    BY <1>0
  <2>4. /\ \A i \in DOMAIN q.devices : \E k \in 1 .. n + 1, b \in 0 .. 5, a \in 0 .. Len(q.bars) - 1 :
                BoundTo(L, q, q.devices[i], k, b, a)
    BY <1>0, <1>1, <1>3, <2>1, Zenon DEF ScanDevices
  <2>5. \A k \in 1 .. n + 1 : L[k].agrees /\ L[k].kind \in Driven =>
          \E i \in DOMAIN q.devices, b \in 0 .. 5 : <<L[k], b, q.devices[i].base>> \in q.regs
    BY <1>1, <1>3, <2>2, <2>3, Zenon DEF ScanDevices
  <2> QED BY <1>1, <1>3, <2>4, <2>5, Zenon DEF ScanDevices
<1> QED BY <1>5, <1>6, <1>7, <1>8 DEF ScanInv, q

\* A function whose BAR is entered, before its driver runs.
AddsBar(p, q, f, b) ==
    /\ Fields \subseteq DOMAIN q
    /\ q.bars = Append(p.bars, BarEntry(f, b))
    /\ q.regs = p.regs \union {<<f, b, Len(p.bars)>>}
    /\ \A x \in Fields \ {"bars", "regs"} : q[x] = p[x]
BarAdded(L, n, p, q, b) ==
    /\ ScanTypes(L, n + 1, q) /\ ScanRegs(L, n + 1, q) /\ ScanBuses(L, n + 1, q)
    /\ ScanDevices(L, n, q)
    /\ Len(p.bars) \in Nat /\ Len(q.bars) = Len(p.bars) + 1
    /\ q.bars[Len(q.bars)] = BarEntry(L[n + 1], b)
    /\ <<L[n + 1], b, Len(q.bars) - 1>> \in q.regs
    /\ \A i \in DOMAIN q.devices : q.devices[i].base # Len(q.bars) - 1
LEMMA BarsScanned ==
    ASSUME NEW L, IsLayout(L), NEW n \in 0 .. Len(L) - 1, NEW p, ScanInv(L, n, p),
           L[n + 1].kind # "bridge", NEW b \in 0 .. 5, NEW q, AddsBar(p, q, L[n + 1], b)
    PROVE  BarAdded(L, n, p, q, b)
<1> DEFINE f == L[n + 1]
           z == Len(p.bars)
<1>0. /\ n \in Nat /\ n + 1 \in Nat /\ 1 .. n \subseteq 1 .. n + 1 /\ n + 1 \in 1 .. n + 1
      /\ f \in ToSet(L)
  BY LayoutIs
<1>1. /\ ScanTypes(L, n, p) /\ ScanRegs(L, n, p) /\ ScanBuses(L, n, p) /\ ScanDevices(L, n, p)
  BY DEF ScanInv
<1>2. /\ Fields \subseteq DOMAIN q
      /\ q.bars = Append(p.bars, BarEntry(f, b))
      /\ q.regs = p.regs \union {<<f, b, z>>}
      /\ \A x \in Fields \ {"bars", "regs"} : q[x] = p[x]
  BY DEF AddsBar
<1>3. /\ q.drivers = p.drivers /\ q.buses = p.buses /\ q.nextbus = p.nextbus
      /\ q.devices = p.devices /\ q.irqs = p.irqs
  BY <1>2 DEF Fields
<1>4. BarEntry(f, b) \in Ents(L)
  BY <1>0 DEF Ents
<1>5. /\ p.bars \in Seq(Ents(L)) /\ z \in Nat /\ z <= n
  BY <1>1 DEF ScanTypes
<1>6. /\ q.bars \in Seq(Ents(L)) /\ Len(q.bars) = z + 1
      /\ q.bars[z + 1] = BarEntry(f, b)
  BY <1>2, <1>4, <1>5, AppendProperties
<1> HIDE DEF z
<1>7. ScanTypes(L, n + 1, q)
  <2>1. Knows(q, Driven)
    BY <1>1, <1>3 DEF ScanTypes, Knows, pcie_find_driver
  <2>2. Len(q.bars) <= n + 1
    BY <1>0, <1>5, <1>6
  <2> QED BY <1>1, <1>2, <1>3, <1>6, <2>1, <2>2 DEF ScanTypes
<1>8. 0 .. z - 1 \subseteq 0 .. Len(q.bars) - 1 /\ z \in 0 .. Len(q.bars) - 1 /\ z \notin 0 .. z - 1
  BY <1>5, <1>6
<1>9. \A r \in p.regs : \E k \in 1 .. n, c \in 0 .. 5, a \in 0 .. z - 1 : r = <<L[k], c, a>>
  BY <1>1 DEF ScanRegs, z
<1>10. \A r \in p.regs : r[3] # z
  BY <1>8, <1>9
<1>11. ScanRegs(L, n + 1, q)
  <2>1. ASSUME NEW r \in q.regs
        PROVE \E k \in 1 .. n + 1, c \in 0 .. 5, a \in 0 .. Len(q.bars) - 1 : r = <<L[k], c, a>>
    <3>1. CASE r = <<f, b, z>>
      BY <1>0, <1>8, <3>1
    <3>2. CASE r \in p.regs
      <4>1. PICK k \in 1 .. n, c \in 0 .. 5, a \in 0 .. z - 1 : r = <<L[k], c, a>>
        BY <1>9, <3>2
      <4>2. k \in 1 .. n + 1 /\ a \in 0 .. Len(q.bars) - 1
        BY <1>0, <1>8
      <4> QED BY <4>1, <4>2
    <3> QED BY <1>2, <3>1, <3>2
  <2>2. ASSUME NEW r \in q.regs, NEW s \in q.regs, r[3] = s[3] PROVE r[1] = s[1]
    <3>1. CASE r \in p.regs /\ s \in p.regs
      BY <1>1, <2>2, <3>1 DEF ScanRegs
    <3>2. CASE r = <<f, b, z>> /\ s = <<f, b, z>>
      BY <3>2
    <3>3. CASE r \in p.regs /\ s = <<f, b, z>>
      BY <1>10, <2>2, <3>3
    <3>4. CASE r = <<f, b, z>> /\ s \in p.regs
      BY <1>10, <2>2, <3>4
    <3> QED BY <1>2, <3>1, <3>2, <3>3, <3>4
  <2> QED BY <2>1, <2>2, Zenon DEF ScanRegs
<1>12. ScanBuses(L, n + 1, q)
  <2>1. Bridges(L, n + 1) = Bridges(L, n)
    <3>1. Bridges(L, n) \in Nat /\ Bridges(L, n + 1) = Bridges(L, n) + 0
      BY <1>0, BridgesCount
    <3> QED BY <3>1
  <2> QED BY <1>0, <1>1, <1>3, <2>1 DEF ScanBuses
<1>13. ScanDevices(L, n, q)
  <2>1. \A d, k, c, a : BoundTo(L, p, d, k, c, a) => BoundTo(L, q, d, k, c, a)
    BY <1>2, <1>3 DEF BoundTo
  <2>2. \A i \in DOMAIN q.devices : \E k \in 1 .. n, c \in 0 .. 5, a \in 0 .. Len(q.bars) - 1 :
                BoundTo(L, q, q.devices[i], k, c, a)
    <3>1. \A i \in DOMAIN p.devices : \E k \in 1 .. n, c \in 0 .. 5, a \in 0 .. z - 1 :
                BoundTo(L, p, p.devices[i], k, c, a)
      BY <1>1 DEF ScanDevices, z
    <3> QED BY <1>3, <1>8, <2>1, <3>1, Zenon
  <2>3. p.regs \subseteq q.regs
    BY <1>2
  <2>4. \A k \in 1 .. n : L[k].agrees /\ L[k].kind \in Driven =>
          \E i \in DOMAIN q.devices, c \in 0 .. 5 : <<L[k], c, q.devices[i].base>> \in q.regs
    BY <1>1, <1>3, <2>3, Zenon DEF ScanDevices
  <2> QED BY <1>1, <1>3, <2>2, <2>4, Zenon DEF ScanDevices
<1>14. ASSUME NEW i \in DOMAIN q.devices PROVE q.devices[i].base # z
  <2>1. PICK k \in 1 .. n, c \in 0 .. 5, a \in 0 .. z - 1 : BoundTo(L, p, p.devices[i], k, c, a)
    BY <1>1, <1>3 DEF ScanDevices, z
  <2>2. p.devices[i].base = a
    BY <2>1 DEF BoundTo, Struct
  <2> QED BY <1>3, <1>8, <2>2
<1>15. <<f, b, z>> \in q.regs /\ Len(q.bars) - 1 = z
  BY <1>2, <1>5, <1>6
<1> QED BY <1>5, <1>6, <1>7, <1>11, <1>12, <1>13, <1>14, <1>15 DEF z, BarAdded

\* The device structure a driver makes of the BAR that was entered last.
LEMMA DeviceMade ==
    ASSUME NEW L, NEW n \in Nat, NEW q, ScanTypes(L, n, q), NEW f, NEW b,
           Len(q.bars) >= 1, q.bars[Len(q.bars)] = BarEntry(f, b)
    PROVE  DeviceAt(q, f.kind) = Struct(f, b, Len(q.bars) - 1)
<1> DEFINE z == Len(q.bars)
           E == Entries(q, f.kind)
<1>1. z \in Nat /\ DOMAIN q.bars = 1 .. z
  BY DEF ScanTypes
<1>2. /\ BarEntry(f, b).kind = f.kind /\ BarEntry(f, b).which_irq = pcie_ecam_to_irq(f)
  BY DEF BarEntry
<1>3. z \in E /\ E \subseteq 1 .. z
  BY <1>1, <1>2 DEF Entries
<1>4. Max(E) = z
  <2>1. Max(E) = CHOOSE x \in E : \A y \in E : x >= y
    BY DEF Max
  <2> HIDE DEF E
  <2>2. z \in E /\ \A y \in E : z >= y
    BY <1>1, <1>3
  <2>3. Max(E) \in E /\ \A y \in E : Max(E) >= y
    BY <2>1, <2>2
  <2>4. Max(E) \in 1 .. z /\ Max(E) >= z
    BY <1>3, <2>2, <2>3
  <2> QED BY <1>1, <2>4
<1>5. BarOf(q, f.kind) = z
  BY <1>4 DEF BarOf
<1> QED BY <1>2, <1>5 DEF DeviceAt, Struct

\* The structure is added to the others, and the handler registered: what is
\* common to the four drivers.
LEMMA DriverScanned ==
    ASSUME NEW L, IsLayout(L), NEW n \in 0 .. Len(L) - 1, NEW q, NEW b \in 0 .. 5,
           ScanTypes(L, n + 1, q), ScanRegs(L, n + 1, q), ScanBuses(L, n + 1, q),
           ScanDevices(L, n, q),
           Len(q.bars) >= 1, <<L[n + 1], b, Len(q.bars) - 1>> \in q.regs,
           \A i \in DOMAIN q.devices : q.devices[i].base # Len(q.bars) - 1,
           L[n + 1].agrees, L[n + 1].kind \in Driven,
           \A c \in ConfigTypes(L[n + 1]) : c.bar = b
    PROVE  LET d == Struct(L[n + 1], b, Len(q.bars) - 1)
           IN ScanInv(L, n + 1, pcie_register_irq(Another(q, d), d.which_irq, L[n + 1].kind))
<1> DEFINE f == L[n + 1]
           z == Len(q.bars)
           d == Struct(f, b, z - 1)
           h == Handler(pcie_ecam_to_irq(f), f.kind)
           r == pcie_register_irq(Another(q, d), d.which_irq, f.kind)
           D == q.devices
           I == q.irqs
<1>0. /\ n \in Nat /\ n + 1 \in Nat /\ 1 .. n \subseteq 1 .. n + 1 /\ n + 1 \in 1 .. n + 1
      /\ n + 1 \in 1 .. Len(L) /\ f \in ToSet(L) /\ f.bus \in Nat /\ f.slot \in Nat
      /\ \A k \in 1 .. n + 1 : k \in 1 .. n \/ k = n + 1
  BY LayoutIs
<1>1. z \in Nat /\ z - 1 \in Nat /\ z - 1 \in 0 .. z - 1
  BY DEF ScanTypes
<1>2. /\ d \in Structs(L) /\ d.base = z - 1 /\ d.which_irq = pcie_ecam_to_irq(f)
  BY <1>0, <1>1 DEF Structs, Struct
<1>3. h \in Handlers
  <2>1. pcie_ecam_to_irq(f) \in Int
    BY <1>0 DEF pcie_ecam_to_irq, PLIC_INT_CODE_IRQ0
  <2> QED BY <2>1 DEF Handlers
<1>4. /\ Fields \subseteq DOMAIN r
      /\ r.devices = Append(D, d) /\ r.irqs = Append(I, h)
      /\ r.drivers = q.drivers /\ r.bars = q.bars /\ r.regs = q.regs
      /\ r.buses = q.buses /\ r.nextbus = q.nextbus
  <2> HIDE DEF d
  <2>1. r = [[q EXCEPT !.devices = Append(@, d)] EXCEPT !.irqs = Append(@, Handler(d.which_irq, f.kind))]
    BY DEF pcie_register_irq, Another, Handler
  <2>2. Fields \subseteq DOMAIN q
    BY DEF ScanTypes
  <2> QED BY <1>2, <2>1, <2>2 DEF Fields
<1> HIDE DEF r, d, h
<1>5. /\ D \in Seq(Structs(L)) /\ I \in Seq(Handlers)
  BY DEF ScanTypes
<1> HIDE DEF D, I
<1>6. /\ Len(D) \in Nat /\ DOMAIN D = 1 .. Len(D)
      /\ r.devices \in Seq(Structs(L)) /\ DOMAIN r.devices = 1 .. Len(D) + 1
      /\ r.devices[Len(D) + 1] = d /\ \A i \in 1 .. Len(D) : r.devices[i] = D[i]
  BY <1>2, <1>4, <1>5, AppendProperties
<1>7. /\ Len(I) \in Nat /\ DOMAIN I = 1 .. Len(I)
      /\ r.irqs \in Seq(Handlers) /\ DOMAIN r.irqs = 1 .. Len(I) + 1
      /\ r.irqs[Len(I) + 1] = h /\ \A i \in 1 .. Len(I) : r.irqs[i] = I[i]
  BY <1>3, <1>4, <1>5, AppendProperties
<1>8. ScanTypes(L, n + 1, r)
  <2>1. Knows(r, Driven)
    BY <1>4 DEF ScanTypes, Knows, pcie_find_driver
  <2> QED BY <1>4, <1>6, <1>7, <2>1 DEF ScanTypes
<1>9. ScanRegs(L, n + 1, r) /\ ScanBuses(L, n + 1, r)
  <2>1. ScanRegs(L, n + 1, r)
    <3>1. r.regs = q.regs /\ Len(r.bars) = Len(q.bars)
      BY <1>4
    <3> QED BY <3>1 DEF ScanRegs
  <2>2. ScanBuses(L, n + 1, r)
    BY <1>4, Zenon DEF ScanBuses
  <2> QED BY <2>1, <2>2
<1>10. BoundTo(L, r, d, n + 1, b, z - 1)
  <2>1. Len(I) + 1 \in DOMAIN r.irqs
    BY <1>7
  <2> QED BY <1>4, <1>7, <2>1 DEF BoundTo, d, h
<1>11. \A e, k, c, a : BoundTo(L, q, e, k, c, a) => BoundTo(L, r, e, k, c, a)
  <2>1. \A j \in DOMAIN I : j \in DOMAIN r.irqs /\ r.irqs[j] = I[j]
    BY <1>7
  <2> QED BY <1>4, <2>1 DEF BoundTo, I
<1>12. \A i \in 1 .. Len(D) + 1 : i \in 1 .. Len(D) \/ i = Len(D) + 1
  BY <1>6
<1>13. /\ \A i \in DOMAIN D : \E k \in 1 .. n, c \in 0 .. 5, a \in 0 .. z - 1 :
             BoundTo(L, q, D[i], k, c, a)
       /\ \A i, j \in DOMAIN D : i # j => D[i].base # D[j].base
       /\ \A k \in 1 .. n : L[k].agrees /\ L[k].kind \in Driven =>
             \E i \in DOMAIN D, c \in 0 .. 5 : <<L[k], c, D[i].base>> \in q.regs
       /\ \A i \in DOMAIN D : D[i].base # z - 1
  BY DEF ScanDevices, D
<1>14. ASSUME NEW i \in DOMAIN r.devices
       PROVE  \E k \in 1 .. n + 1, c \in 0 .. 5, a \in 0 .. Len(r.bars) - 1 :
                 BoundTo(L, r, r.devices[i], k, c, a)
  <2>1. CASE i = Len(D) + 1
    BY <1>0, <1>1, <1>4, <1>6, <1>10, <2>1, Zenon
  <2>2. CASE i \in 1 .. Len(D)
    <3>1. i \in DOMAIN D /\ r.devices[i] = D[i] /\ Len(r.bars) = z
      BY <1>4, <1>6, <2>2
    <3>2. PICK k \in 1 .. n, c \in 0 .. 5, a \in 0 .. z - 1 : BoundTo(L, q, D[i], k, c, a)
      BY <1>13, <3>1
    <3>3. BoundTo(L, r, r.devices[i], k, c, a) /\ k \in 1 .. n + 1
      BY <1>0, <1>11, <3>1, <3>2
    <3> QED BY <3>1, <3>3
  <2> QED BY <1>6, <1>12, <2>1, <2>2
<1>15. ASSUME NEW i \in DOMAIN r.devices, NEW j \in DOMAIN r.devices, i # j
       PROVE  r.devices[i].base # r.devices[j].base
  <2>1. CASE i = Len(D) + 1
    BY <1>2, <1>6, <1>12, <1>13, <1>15, <2>1, Zenon
  <2>2. CASE j = Len(D) + 1
    BY <1>2, <1>6, <1>12, <1>13, <1>15, <2>2, Zenon
  <2>3. CASE i \in 1 .. Len(D) /\ j \in 1 .. Len(D)
    BY <1>6, <1>13, <1>15, <2>3, Zenon
  <2> QED BY <1>6, <1>12, <2>1, <2>2, <2>3
<1>16. ASSUME NEW k \in 1 .. n + 1, L[k].agrees, L[k].kind \in Driven
       PROVE  \E i \in DOMAIN r.devices, c \in 0 .. 5 : <<L[k], c, r.devices[i].base>> \in r.regs
  <2>1. CASE k = n + 1
    <3>1. Len(D) + 1 \in DOMAIN r.devices /\ <<L[k], b, r.devices[Len(D) + 1].base>> \in r.regs
      <4>1. r.devices[Len(D) + 1].base = z - 1 /\ Len(D) + 1 \in DOMAIN r.devices
        BY <1>2, <1>6
      <4>2. <<L[k], b, z - 1>> \in r.regs
        BY <1>4, <2>1
      <4> QED BY <4>1, <4>2
    <3> QED BY <3>1, Zenon
  <2>2. CASE k \in 1 .. n
    <3>1. PICK i \in DOMAIN D, c \in 0 .. 5 : <<L[k], c, D[i].base>> \in q.regs
      BY <1>13, <1>16, <2>2, Zenon
    <3>2. i \in DOMAIN r.devices /\ r.devices[i] = D[i]
      BY <1>6
    <3> QED BY <1>4, <3>1, <3>2, Zenon
  <2> QED BY <1>0, <2>1, <2>2
<1>17. ScanDevices(L, n + 1, r)
  BY <1>14, <1>15, <1>16, Zenon DEF ScanDevices
<1> QED BY <1>8, <1>9, <1>17 DEF ScanInv, r, d, z

\* A function that is not a bridge: its BARs, then its driver.
LEMMA DeviceScanned ==
    ASSUME NEW L, IsLayout(L), NEW n \in 0 .. Len(L) - 1, NEW p, ScanInv(L, n, p),
           L[n + 1].kind # "bridge"
    PROVE  ScanInv(L, n + 1, Scanned(p, L[n + 1]))
<1> DEFINE f == L[n + 1]
           q == pcie_init_bars(p, f)
           d == DeviceAt(q, f.kind)
<1>0. n \in Nat /\ n + 1 \in Nat /\ n + 1 \in 1 .. Len(L) /\ 1 .. n \subseteq 1 .. n + 1
  BY LayoutIs
<1>1. OneBar(f)
  BY <1>0, LayoutIs DEF IsLayout, Layout
<1>2. Scanned(p, f) = IF pcie_find_driver(q, f.kind) THEN driver_func(q, f) ELSE q
  BY DEF Scanned
<1>3. CASE q = p /\ f.kind \notin Driven
  <2>1. ~pcie_find_driver(q, f.kind)
    BY <1>3 DEF ScanInv, ScanTypes, Knows
  <2>2. Scanned(p, f) = p
    BY <1>2, <1>3, <2>1
  <2>3. Bridges(L, n + 1) = Bridges(L, n)
    <3>1. Bridges(L, n) \in Nat /\ Bridges(L, n + 1) = Bridges(L, n) + 0
      BY <1>0, BridgesCount
    <3> QED BY <3>1
  <2>4. ScanTypes(L, n + 1, p)
    BY <1>0 DEF ScanInv, ScanTypes
  <2>5. ScanRegs(L, n + 1, p)
    BY <1>0 DEF ScanInv, ScanRegs
  <2>6. ScanBuses(L, n + 1, p)
    BY <1>0, <2>3 DEF ScanInv, ScanBuses
  <2>7. ScanDevices(L, n + 1, p)
    <3>1. \A k \in 1 .. n + 1 : k \in 1 .. n \/ k = n + 1
      BY <1>0
    <3> QED BY <1>0, <1>3, <3>1, Zenon DEF ScanInv, ScanDevices
  <2> QED BY <2>2, <2>4, <2>5, <2>6, <2>7 DEF ScanInv
<1>4. ASSUME NEW b \in 0 .. 5, \A c \in ConfigTypes(f) : c.bar = b,
             q = pcie_add_to_bar_list(p, f, b)
      PROVE  ScanInv(L, n + 1, Scanned(p, f))
  <2>1. /\ ScanTypes(L, n + 1, q) /\ ScanRegs(L, n + 1, q) /\ ScanBuses(L, n + 1, q)
        /\ ScanDevices(L, n, q)
        /\ Len(p.bars) \in Nat /\ Len(q.bars) = Len(p.bars) + 1
        /\ q.bars[Len(q.bars)] = BarEntry(f, b)
        /\ <<f, b, Len(q.bars) - 1>> \in q.regs
        /\ \A i \in DOMAIN q.devices : q.devices[i].base # Len(q.bars) - 1
    <3> HIDE DEF q
    <3>1. AddsBar(p, q, f, b)
      BY <1>4 DEF AddsBar, pcie_add_to_bar_list, ScanInv, ScanTypes, Fields
    <3>2. BarAdded(L, n, p, q, b)
      BY <3>1, BarsScanned, Zenon
    <3> QED BY <3>2 DEF BarAdded
  <2>2. q = [x \in DOMAIN q |-> q[x]]
    BY <1>4 DEF pcie_add_to_bar_list
  <2> HIDE DEF q
  <2>3. pcie_find_driver(q, f.kind) <=> f.kind \in Driven
    BY <2>1 DEF ScanTypes, Knows
  <2>4. ASSUME f.kind \notin Driven \/ ~f.agrees PROVE ScanInv(L, n + 1, q)
    <3>1. \A k \in 1 .. n + 1 : k \in 1 .. n \/ k = n + 1
      BY <1>0
    <3>2. ScanDevices(L, n + 1, q)
      BY <1>0, <2>1, <2>4, <3>1, Zenon DEF ScanDevices
    <3> QED BY <2>1, <3>2 DEF ScanInv
  <2>5. CASE f.kind \notin Driven
    BY <1>2, <2>3, <2>4, <2>5
  <2>6. CASE f.kind \in Driven
    <3>1. Scanned(p, f) = driver_func(q, f)
      BY <1>2, <2>3, <2>6
    <3>2. Len(q.bars) >= 1
      BY <2>1
    <3>3. d = Struct(f, b, Len(q.bars) - 1)
      BY <1>0, <2>1, <3>2, DeviceMade
    <3> HIDE DEF d
    <3>4. ASSUME f.kind \in {"rng", "gpu"}
          PROVE  Only(q, d) = Another(q, d) /\ Pointed(q, d) = q
      <4>1. \A i \in DOMAIN q.devices : q.devices[i].kind # f.kind
        <5> SUFFICES ASSUME NEW i \in DOMAIN q.devices, q.devices[i].kind = f.kind PROVE FALSE
          OBVIOUS
        <5>1. PICK k \in 1 .. n, c \in 0 .. 5, a \in 0 .. Len(q.bars) - 1 :
                 BoundTo(L, q, q.devices[i], k, c, a)
          BY <2>1 DEF ScanDevices
        <5>2. L[k].agrees /\ L[k].kind = f.kind
          BY <5>1 DEF BoundTo, Struct
        <5>3. k \in DOMAIN L /\ n + 1 \in DOMAIN L /\ k < n + 1
          BY <1>0, LayoutIs
        <5> QED BY <3>4, <5>2, <5>3 DEF IsLayout, Layout, MetOnce
      <4>2. d.kind = f.kind
        BY <3>3 DEF Struct
      <4>3. {i \in DOMAIN q.devices : q.devices[i].kind = d.kind} = {}
        BY <4>1, <4>2
      <4>4. Only(q, d) = Another(q, d)
        BY <4>3 DEF Only, Another
      <4>5. [i \in DOMAIN q.devices |->
               IF q.devices[i].kind = d.kind THEN d ELSE q.devices[i]] = q.devices
        <5>1. q.devices \in Seq(Structs(L))
          BY <2>1 DEF ScanTypes
        <5>2. q.devices = [i \in DOMAIN q.devices |-> q.devices[i]]
          BY <5>1
        <5> QED BY <4>1, <4>2, <5>2
      <4>6. Pointed(q, d) = [q EXCEPT !.devices = q.devices]
        BY <4>5 DEF Pointed
      <4> QED BY <2>2, <4>4, <4>6
    <3>5. CASE ~f.agrees
      <4>1. driver_func(q, f) = q
        <5>1. CASE f.kind = "rng"
          BY <3>5, <3>4, <5>1 DEF driver_func, virtio_pcie_rng_driver, d
        <5>2. CASE f.kind = "block"
          BY <3>5, <5>2 DEF driver_func, virtio_pcie_block_driver
        <5>3. CASE f.kind = "gpu"
          BY <3>5, <3>4, <5>3 DEF driver_func, virtio_pcie_gpu_driver, d
        <5>4. CASE f.kind = "input"
          BY <3>5, <5>4 DEF driver_func, virtio_pcie_input_driver
        <5> QED BY <2>6, <5>1, <5>2, <5>3, <5>4 DEF Driven
      <4> QED BY <2>4, <3>1, <3>5, <4>1
    <3>6. CASE f.agrees
      <4>2. driver_func(q, f) = pcie_register_irq(Another(q, d), d.which_irq, f.kind)
        <5>1. CASE f.kind = "rng"
          BY <3>6, <3>4, <5>1 DEF driver_func, virtio_pcie_rng_driver, d
        <5>2. CASE f.kind = "block"
          BY <3>6, <5>2 DEF driver_func, virtio_pcie_block_driver, d
        <5>3. CASE f.kind = "gpu"
          BY <3>6, <3>4, <5>3 DEF driver_func, virtio_pcie_gpu_driver, d
        <5>4. CASE f.kind = "input"
          BY <3>6, <5>4 DEF driver_func, virtio_pcie_input_driver, d
        <5> QED BY <2>6, <5>1, <5>2, <5>3, <5>4 DEF Driven
      <4>3. ScanInv(L, n + 1, pcie_register_irq(Another(q, d), d.which_irq, f.kind))
        BY <1>4, <2>1, <2>6, <3>2, <3>3, <3>6, DriverScanned
      <4> QED BY <3>1, <4>2, <4>3
    <3> QED BY <3>5, <3>6
  <2> QED BY <2>5, <2>6
<1>5. \/ q = p /\ f.kind \notin Driven
      \/ \E b \in 0 .. 5 : /\ \A c \in ConfigTypes(f) : c.bar = b
                           /\ q = pcie_add_to_bar_list(p, f, b)
  BY <1>1, BarsEntered
<1> QED BY <1>3, <1>4, <1>5

\* The scan ends in such a state.
LEMMA ScanEnds ==
    ASSUME NEW L, IsLayout(L)
    PROVE  ScanInv(L, Len(L), pcie_scan_and_init(L))
<1> DEFINE N == Len(L)
           P0 == pcie_init_drivers(PciStart)
           G(g) == g = [n \in 0 .. N |-> IF n = 0 THEN P0 ELSE Scanned(g[n - 1], L[n])]
           A == CHOOSE g : G(g)
           Has(k) == \E c : /\ DOMAIN c = 0 .. k /\ c = [n \in 0 .. k |-> c[n]]
                            /\ c[0] = P0 /\ \A n \in 1 .. k : c[n] = Scanned(c[n - 1], L[n])
           H == {k \in 0 .. N : Has(k)}
<1>0. N \in Nat
  BY LayoutIs
<1>1. pcie_scan_and_init(L) = A[N]
  BY DEF pcie_scan_and_init
<1> HIDE DEF N, P0
<1>2. 0 \in H
  <2> DEFINE c == [n \in 0 .. 0 |-> P0]
  <2>1. DOMAIN c = 0 .. 0 /\ c = [n \in 0 .. 0 |-> c[n]] /\ c[0] = P0 /\ 1 .. 0 = {}
    OBVIOUS
  <2> HIDE DEF c
  <2>2. Has(0)
    BY <2>1
  <2> QED BY <1>0, <2>2
<1>3. ASSUME NEW k \in 0 .. N - 1, k \in H PROVE k + 1 \in H
  <2>1. PICK c : /\ DOMAIN c = 0 .. k /\ c = [n \in 0 .. k |-> c[n]]
                 /\ c[0] = P0 /\ \A n \in 1 .. k : c[n] = Scanned(c[n - 1], L[n])
    BY <1>3
  <2> DEFINE e == [n \in 0 .. k + 1 |-> IF n = k + 1 THEN Scanned(c[k], L[k + 1]) ELSE c[n]]
  <2>2. /\ k \in Nat /\ k + 1 \in 0 .. N /\ 0 \in 0 .. k + 1 /\ 0 # k + 1
        /\ k + 1 \in 0 .. k + 1 /\ \A n \in 0 .. k : n \in 0 .. k + 1 /\ n # k + 1
        /\ \A n \in 1 .. k + 1 : n \in 1 .. k \/ n = k + 1
        /\ \A n \in 1 .. k : n \in 0 .. k /\ n - 1 \in 0 .. k
        /\ (k + 1) - 1 = k /\ k \in 0 .. k
    BY <1>0
  <2>3. /\ e[k + 1] = Scanned(c[k], L[k + 1]) /\ \A n \in 0 .. k : e[n] = c[n]
    BY <2>2
  <2>4. DOMAIN e = 0 .. k + 1 /\ e = [n \in 0 .. k + 1 |-> e[n]] /\ e[0] = P0
    BY <2>1, <2>2
  <2> HIDE DEF e
  <2>5. ASSUME NEW n \in 1 .. k + 1 PROVE e[n] = Scanned(e[n - 1], L[n])
    <3>1. CASE n = k + 1
      BY <2>2, <2>3, <3>1
    <3>2. CASE n \in 1 .. k
      BY <2>1, <2>2, <2>3, <3>2
    <3> QED BY <2>2, <3>1, <3>2
  <2>6. Has(k + 1)
    BY <2>4, <2>5
  <2> QED BY <2>2, <2>6
<1>4. N \in H
  <2> HIDE DEF H
  <2>1. \A i \in 0 .. N : i \in H
    BY <1>0, <1>2, <1>3, InductionUpTo
  <2> QED BY <1>0, <2>1
<1>5. PICK c : /\ DOMAIN c = 0 .. N /\ c = [n \in 0 .. N |-> c[n]]
               /\ c[0] = P0 /\ \A n \in 1 .. N : c[n] = Scanned(c[n - 1], L[n])
  BY <1>4
<1>6. G(c)
  <2>1. \A n \in 0 .. N : c[n] = IF n = 0 THEN P0 ELSE Scanned(c[n - 1], L[n])
    BY <1>0, <1>5
  <2>2. [n \in 0 .. N |-> c[n]] = [n \in 0 .. N |-> IF n = 0 THEN P0 ELSE Scanned(c[n - 1], L[n])]
    BY <2>1
  <2> QED BY <1>5, <2>2
<1>7. G(A)
  BY <1>6
<1> HIDE DEF A
<1>8. A[0] = P0 /\ \A n \in 1 .. N : A[n] = Scanned(A[n - 1], L[n])
  BY <1>0, <1>7
<1> DEFINE T == {n \in 0 .. N : ScanInv(L, n, A[n])}
<1>9. 0 \in T
  BY <1>0, <1>8, ScanStart DEF P0
<1>10. ASSUME NEW n \in 0 .. N - 1, n \in T PROVE n + 1 \in T
  <2>1. n + 1 \in 1 .. N /\ n + 1 \in 0 .. N /\ (n + 1) - 1 = n
    BY <1>0
  <2>2. A[n + 1] = Scanned(A[n], L[n + 1])
    BY <1>8, <2>1
  <2>3. ScanInv(L, n, A[n])
    BY <1>10
  <2>4. CASE L[n + 1].kind = "bridge"
    <3>1. Scanned(A[n], L[n + 1]) = pcie_init_bridge(A[n], L[n + 1])
      BY <2>4 DEF Scanned
    <3>2. ScanInv(L, n + 1, pcie_init_bridge(A[n], L[n + 1]))
      BY <2>3, <2>4, BridgeScanned DEF N
    <3> QED BY <2>1, <2>2, <3>1, <3>2
  <2>5. CASE L[n + 1].kind # "bridge"
    <3>1. ScanInv(L, n + 1, Scanned(A[n], L[n + 1]))
      BY <2>3, <2>5, DeviceScanned DEF N
    <3> QED BY <2>1, <2>2, <3>1
  <2> QED BY <2>4, <2>5
<1>11. \A n \in 0 .. N : n \in T
  <2> HIDE DEF T
  <2> QED BY <1>0, <1>9, <1>10, InductionUpTo
<1> QED BY <1>0, <1>1, <1>11 DEF N

\* A handler that is registered for a line is called.
LEMMA HandlerCalled ==
    ASSUME NEW p, p.irqs \in Seq(Handlers), NEW line, NEW kind, NEW j \in DOMAIN p.irqs,
           p.irqs[j] = Handler(line, kind)
    PROVE  Contains(pcie_handle_irq(p, line), kind)
<1> DEFINE I == p.irqs
           N == Len(I)
           S == Seq(Driven)
           Ring(s, i) == IF I[i].which_irq = line THEN Append(s, I[i].irq_handler) ELSE s
           F == [x \in (1 .. N) \X S |-> Ring(x[2], x[1])]
           G(g) == g = [n \in 0 .. N |->
                          IF n = 0 THEN <<>>
                          ELSE IF I[n].which_irq = line THEN Append(g[n - 1], I[n].irq_handler)
                          ELSE g[n - 1]]
           A == CHOOSE g : G(g)
<1>0. /\ N \in Nat /\ DOMAIN I = 1 .. N /\ <<>> \in S
      /\ \A i \in 1 .. N : I[i] \in Handlers
  BY EmptySeq
<1>1. pcie_handle_irq(p, line) = A[N]
  BY DEF pcie_handle_irq
<1> HIDE DEF I, N
<1>2. \A i \in 1 .. N : I[i].irq_handler \in Driven
  BY <1>0 DEF Handlers, Handler
<1>3. \A i \in 1 .. N, s \in S : Ring(s, i) \in S
  BY <1>2, AppendProperties
<1>4. F \in [(1 .. N) \X S -> S]
  BY <1>3
<1> HIDE DEF S
<1>5. PICK c : c \in [0 .. N -> S] /\ c[0] = <<>> /\ \A i \in 1 .. N : c[i] = F[<<i, c[i - 1]>>]
  <2> HIDE DEF F
  <2>1. PICK c : c \in Rounds(N, S, <<>>, F)
    BY <1>0, <1>4, LoopHasValues
  <2> QED BY <2>1 DEF Rounds
<1>6. \A i \in 1 .. N : c[i] = Ring(c[i - 1], i)
  <2>1. \A i \in 1 .. N, s \in S : F[<<i, s>>] = Ring(s, i)
    OBVIOUS
  <2>2. \A i \in 1 .. N : i - 1 \in 0 .. N
    BY <1>0
  <2> HIDE DEF F, Ring
  <2> QED BY <1>5, <2>1, <2>2
<1>7. G(c)
  <2>1. \A i \in 0 .. N : c[i] = IF i = 0 THEN <<>> ELSE Ring(c[i - 1], i)
    <3> HIDE DEF Ring
    <3> QED BY <1>0, <1>5, <1>6
  <2>2. c = [i \in 0 .. N |-> c[i]]
    BY <1>5
  <2>3. c = [i \in 0 .. N |-> IF i = 0 THEN <<>> ELSE Ring(c[i - 1], i)]
    <3> HIDE DEF Ring
    <3> QED BY <2>1, <2>2
  <2> QED BY <2>3
<1>8. G(A)
  BY <1>7
<1> HIDE DEF A
<1>9. A[0] = <<>> /\ \A i \in 1 .. N : A[i] = Ring(A[i - 1], i)
  <2>1. A = [i \in 0 .. N |-> IF i = 0 THEN <<>> ELSE Ring(A[i - 1], i)]
    BY <1>8
  <2>2. 0 \in 0 .. N /\ \A i \in 1 .. N : i \in 0 .. N /\ i # 0
    BY <1>0
  <2> HIDE DEF Ring
  <2>3. \A i \in 0 .. N : A[i] = IF i = 0 THEN <<>> ELSE Ring(A[i - 1], i)
    BY <2>1
  <2> QED BY <2>2, <2>3
<1> HIDE DEF F
<1> DEFINE T == {i \in 0 .. N : A[i] \in S /\ (j <= i => Contains(A[i], kind))}
<1>10. 0 \in T
  BY <1>0, <1>9 DEF I
<1>11. ASSUME NEW i \in 0 .. N - 1, i \in T PROVE i + 1 \in T
  <2>1. i + 1 \in 1 .. N /\ i + 1 \in 0 .. N /\ (i + 1) - 1 = i
    BY <1>0
  <2>2. A[i + 1] = Ring(A[i], i + 1) /\ A[i] \in S
    BY <1>9, <1>11, <2>1
  <2>3. A[i + 1] \in S
    BY <1>3, <2>1, <2>2
  <2>4. ASSUME NEW s \in S, NEW k \in Driven
        PROVE  /\ Contains(Append(s, k), k)
               /\ \A x : Contains(s, x) => Contains(Append(s, k), x)
    <3>1. /\ Len(s) \in Nat /\ Len(Append(s, k)) = Len(s) + 1 /\ Append(s, k)[Len(s) + 1] = k
          /\ \A m \in 1 .. Len(s) : Append(s, k)[m] = s[m]
      BY <2>4, AppendProperties DEF S
    <3>2. Len(s) + 1 \in 1 .. Len(s) + 1 /\ 1 .. Len(s) \subseteq 1 .. Len(s) + 1
      BY <3>1
    <3> QED BY <3>1, <3>2, Zenon DEF Contains
  <2>5. ASSUME j <= i + 1 PROVE Contains(A[i + 1], kind)
    <3>1. CASE j <= i
      <4>1. Contains(A[i], kind)
        BY <1>11, <3>1
      <4> QED BY <1>2, <2>1, <2>2, <2>4, <4>1
    <3>2. CASE j = i + 1
      <4>1. I[i + 1].which_irq = line /\ I[i + 1].irq_handler = kind
        BY <3>2 DEF I, Handler
      <4> QED BY <1>2, <2>1, <2>2, <2>4, <4>1
    <3> QED BY <1>0, <2>5, <3>1, <3>2 DEF I
  <2> QED BY <2>1, <2>3, <2>5
<1>12. \A i \in 0 .. N : i \in T
  <2> HIDE DEF T
  <2> QED BY <1>0, <1>10, <1>11, InductionUpTo
<1>13. N \in T /\ j <= N
  BY <1>0, <1>12 DEF I
<1> QED BY <1>1, <1>13

\* The line a driver computes is the one its device is wired to.
LEMMA LineIsWired ==
    ASSUME NEW L, IsLayout(L), NEW p, ScanBuses(L, Len(L), p), NEW k \in 1 .. Len(L),
           L[k].kind \in Driven
    PROVE  Wired(p, L[k]) = pcie_ecam_to_irq(L[k])
<1> DEFINE f == L[k]
           up == {b \in p.buses : b[2] = f.bus}
           chosen == CHOOSE b \in up : TRUE
           turn == IF f.bus = 0 THEN 0 ELSE chosen[1].slot
<1>0. /\ Len(L) \in Nat /\ DOMAIN L = 1 .. Len(L) /\ k \in Nat
      /\ \A i \in 1 .. Len(L) : L[i].bus \in Nat /\ L[i].slot \in Nat
  BY LayoutIs
<1>1. Wired(p, f) = 32 + ((f.slot + turn) % 4) /\ pcie_ecam_to_irq(f) = 32 + ((f.bus + f.slot) % 4)
  BY DEF Wired, pcie_ecam_to_irq, PLIC_INT_CODE_IRQ0
<1>2. turn \in Nat /\ turn % 4 = f.bus % 4
  <2>1. CASE f.bus = 0
    BY <2>1
  <2>2. CASE f.bus # 0
    <3>1. f.bus <= Bridges(L, k)
      BY <1>0 DEF IsLayout, Layout, BehindPorts
    <3>2. Bridges(L, k) <= Bridges(L, Len(L)) /\ Bridges(L, k) \in Nat /\ Bridges(L, Len(L)) \in Nat
      <4> DEFINE B(m) == {i \in 1 .. m : L[i].kind = "bridge"}
      <4>1. IsFiniteSet(B(Len(L))) /\ B(k) \subseteq B(Len(L))
        <5>1. IsFiniteSet(1 .. Len(L))
          BY <1>0, FS_Interval
        <5> QED BY <1>0, <5>1, FS_Subset
      <4>2. Cardinality(B(k)) <= Cardinality(B(Len(L)))
        <5> HIDE DEF B
        <5> QED BY <4>1, FS_Subset
      <4>3. Bridges(L, k) \in Nat /\ Bridges(L, Len(L)) \in Nat
        BY <1>0, BridgesCount
      <4> QED BY <4>2, <4>3 DEF Bridges
    <3>3. f.bus \in 1 .. p.nextbus - 1
      BY <1>0, <2>2, <3>1, <3>2 DEF ScanBuses
    <3>4. chosen \in up
      BY <3>3 DEF ScanBuses
    <3>5. PICK i \in 1 .. Len(L) : L[i].kind = "bridge" /\ chosen = <<L[i], Bridges(L, i)>>
      BY <3>4 DEF ScanBuses
    <3>6. Bridges(L, i) = f.bus /\ turn = L[i].slot
      <4>1. chosen[2] = f.bus /\ turn = chosen[1].slot
        BY <2>2, <3>4
      <4> HIDE DEF chosen, turn
      <4> QED BY <3>5, <4>1
    <3>7. L[i].slot % 4 = Bridges(L, i) % 4
      BY <1>0, <3>5 DEF IsLayout, Layout, BehindPorts
    <3> QED BY <1>0, <3>6, <3>7
  <2> QED BY <2>1, <2>2
<1>3. \A a, b, c \in Nat : a % 4 = b % 4 => (c + a) % 4 = (b + c) % 4
  OBVIOUS
<1> HIDE DEF turn
<1>4. (f.slot + turn) % 4 = (f.bus + f.slot) % 4
  BY <1>0, <1>2, <1>3
<1> QED BY <1>1, <1>4

\* What the scan leaves binds every driver.
Binds(L, p) ==
    /\ \A i \in DOMAIN p.devices :
          LET d == p.devices[i]
              at == Decodes(p, d.base)
          IN \E f \in at :
                /\ at = {f} /\ f.kind = d.kind
                /\ \A c \in ConfigTypes(f) : d.offsets[c.type] = c.offset
                /\ Contains(pcie_handle_irq(p, Wired(p, f)), d.kind)
                /\ \A j \in DOMAIN p.devices \ {i} : p.devices[j].base # d.base
    /\ \A f \in ToSet(L) : f.agrees /\ pcie_find_driver(p, f.kind) =>
          \E i \in DOMAIN p.devices : Decodes(p, p.devices[i].base) = {f}
LEMMA ScanBinds ==
    ASSUME NEW L, IsLayout(L), NEW p, ScanInv(L, Len(L), p)
    PROVE  Binds(L, p)
<1>0. /\ ScanTypes(L, Len(L), p) /\ ScanRegs(L, Len(L), p) /\ ScanBuses(L, Len(L), p)
      /\ ScanDevices(L, Len(L), p) /\ Len(L) \in Nat /\ DOMAIN L = 1 .. Len(L)
  BY LayoutIs DEF ScanInv
<1>1. ASSUME NEW f, NEW b, NEW a, <<f, b, a>> \in p.regs PROVE Decodes(p, a) = {f}
  <2>1. \A r \in p.regs : r[3] = a => r[1] = f
    <3>1. <<f, b, a>>[3] = a /\ <<f, b, a>>[1] = f
      OBVIOUS
    <3> QED BY <1>0, <1>1, <3>1 DEF ScanRegs
  <2>2. f \in Decodes(p, a)
    <3>1. <<f, b, a>> \in {s \in p.regs : s[3] = a} /\ <<f, b, a>>[1] = f
      BY <1>1
    <3> QED BY <3>1, Zenon DEF Decodes
  <2>3. \A g \in Decodes(p, a) : g = f
    BY <2>1 DEF Decodes
  <2> QED BY <2>2, <2>3
<1>2. ASSUME NEW i \in DOMAIN p.devices
      PROVE  \E f \in Decodes(p, p.devices[i].base) :
                /\ Decodes(p, p.devices[i].base) = {f} /\ f.kind = p.devices[i].kind
                /\ \A c \in ConfigTypes(f) : p.devices[i].offsets[c.type] = c.offset
                /\ Contains(pcie_handle_irq(p, Wired(p, f)), p.devices[i].kind)
                /\ \A j \in DOMAIN p.devices \ {i} : p.devices[j].base # p.devices[i].base
  <2> DEFINE d == p.devices[i]
  <2>1. PICK k \in 1 .. Len(L), b \in 0 .. 5, a \in 0 .. Len(p.bars) - 1 : BoundTo(L, p, d, k, b, a)
    BY <1>0 DEF ScanDevices
  <2> DEFINE f == L[k]
  <2>2. d.kind = f.kind /\ d.base = a /\ d.offsets = BarEntry(f, b).offsets
    BY <2>1 DEF BoundTo, Struct
  <2>3. Decodes(p, d.base) = {f}
    BY <1>1, <2>1, <2>2 DEF BoundTo
  <2>4. ASSUME NEW c \in ConfigTypes(f) PROVE d.offsets[c.type] = c.offset
    <3>1. OneBar(f)
      BY <1>0 DEF IsLayout, Layout
    <3>2. c.type \in 0 .. 4 /\ c.bar = b
      BY <2>1, <3>1 DEF OneBar, BoundTo
    <3> DEFINE w == CHOOSE e \in ConfigTypes(f) : e.type = c.type /\ e.bar = b
    <3>3. d.offsets[c.type] = w.offset
      BY <2>2, <3>2 DEF BarEntry
    <3>4. w \in ConfigTypes(f) /\ w.type = c.type
      BY <3>2
    <3> HIDE DEF w
    <3> QED BY <3>1, <3>3, <3>4 DEF OneBar
  <2>5. Contains(pcie_handle_irq(p, Wired(p, f)), d.kind)
    <3>1. PICK j \in DOMAIN p.irqs : p.irqs[j] = Handler(pcie_ecam_to_irq(f), f.kind)
      BY <2>1 DEF BoundTo
    <3>2. Wired(p, f) = pcie_ecam_to_irq(f)
      BY <1>0, <2>1, LineIsWired DEF BoundTo
    <3>3. p.irqs \in Seq(Handlers)
      BY <1>0 DEF ScanTypes
    <3> HIDE DEF d, f
    <3>4. Contains(pcie_handle_irq(p, pcie_ecam_to_irq(f)), f.kind)
      BY <3>1, <3>3, HandlerCalled
    <3> QED BY <2>2, <3>2, <3>4
  <2>6. \A j \in DOMAIN p.devices \ {i} : p.devices[j].base # d.base
    BY <1>0 DEF ScanDevices
  <2>7. f \in Decodes(p, d.base)
    BY <2>3
  <2> QED BY <2>2, <2>3, <2>4, <2>5, <2>6, <2>7, Zenon
<1>3. ASSUME NEW f \in ToSet(L), f.agrees, pcie_find_driver(p, f.kind)
      PROVE  \E i \in DOMAIN p.devices : Decodes(p, p.devices[i].base) = {f}
  <2>1. PICK k \in 1 .. Len(L) : f = L[k]
    BY <1>0 DEF ToSet
  <2>2. f.kind \in Driven
    BY <1>0, <1>3 DEF ScanTypes, Knows
  <2>3. PICK i \in DOMAIN p.devices, b \in 0 .. 5 : <<f, b, p.devices[i].base>> \in p.regs
    BY <1>0, <1>3, <2>1, <2>2 DEF ScanDevices
  <2> QED BY <1>1, <2>3
<1> QED BY <1>2, <1>3, Zenon DEF Binds

----------------------------------------------------------------------------
(* The scan in the specification: only Boot changes what it left *)

\* What is on the bus is what the scan of the machine's layout left.
BusInv ==
    /\ machine \in Machines
    /\ pci = IF on THEN pcie_scan_and_init(machine.functions) ELSE PciStart

\* It holds at the start.
LEMMA BusInit == Init => BusInv
  BY DEF Init, BusInv

\* Every step but Boot leaves the machine, the bus and `on' alone.
LEMMA BusNext == BusInv /\ [Next]_vars => BusInv'
<1> SUFFICES ASSUME BusInv, [Next]_vars PROVE BusInv'
  OBVIOUS
<1>1. CASE Boot
  BY <1>1 DEF Boot, BusInv
<1>2. ASSUME UNCHANGED world PROVE BusInv'
  BY <1>2 DEF BusInv, world
<1>3. \A a, l, from, to : Take(a, l, from, to) => UNCHANGED world
  BY DEF Take
<1>4. \A a \in Actors : EnterHeap(a) => UNCHANGED world
  BY <1>3 DEF EnterHeap
<1>5. \A a, l, s, then, st : Command(a, l, s, then, st) => UNCHANGED world
  BY DEF Command
<1>6. ASSUME NEW a \in Actors, Step(a) PROVE UNCHANGED world
  <2>1. CASE gpu_init(a)
    BY <1>3, <1>5, <2>1 DEF gpu_init, init_test, gpu_get_display_info, new_frame_buffer,
                       resource_create_2d, attach_backing, set_scanout, fill
  <2>2. CASE gpu_transfer_and_flush_some(a)
    BY <1>3, <1>5, <2>2 DEF gpu_transfer_and_flush_some, transfer_to_host_2d, resource_flush,
                       done_clear
  <2> QED BY <1>4, <1>6, <2>1, <2>2 DEF Step
<1>7. \A a, l, c : Begin(a, l, c) => UNCHANGED world
  BY DEF Begin
<1>8. Call => UNCHANGED world
  BY <1>7 DEF Call, console_gpu_init, Draws, console_gpu_flush, console_inputring_pop,
              gpu_draw_from_cursor, gpu_regions_test, console_alloc, syscall_get_input
<1>9. \A a : ie_ring_buffer_pop(a) => UNCHANGED world
  BY DEF ie_ring_buffer_pop, pop_test, pop_element, pop_start, pop_load, PopLoad, pop_advance,
         pop_store
<1>10. Console => UNCHANGED world
  BY <1>6, <1>9 DEF Console, con_popped, con_pops_over, console_allocated, Actors
<1>11. Syscall => UNCHANGED world
  BY <1>3, <1>6, <1>9 DEF Syscall, sys_allocated, sys_popped, sys_pops_over, Actors
<1>12. Interrupt => UNCHANGED world
  BY <1>3 DEF Interrupt, plic_claim, call_handler, plic_complete, in_device, in_events, gpu_isr,
              set_active, resource_unref, unset_clear, Actors
<1>13. (\E i \in DOMAIN inputs : SendEvent(i)) => UNCHANGED world
  BY DEF SendEvent
<1>14. (\E s \in Sizes : Resize(s)) => UNCHANGED world
  BY DEF Resize
<1>15. UNCHANGED vars => UNCHANGED world
  BY DEF vars, world
<1>16. Step("irq") => UNCHANGED world
  BY <1>6 DEF Actors
<1> QED BY <1>1, <1>2, <1>8, <1>10, <1>11, <1>12, <1>13, <1>14, <1>15, <1>16 DEF Next

\* What it means for the drivers.
LEMMA BusMeans == BusInv => DriversBound
<1> SUFFICES ASSUME BusInv PROVE DriversBound
  OBVIOUS
<1>1. CASE on
  <2> DEFINE L == machine.functions
  <2>1. IsLayout(L)
    BY DevicesAssumption DEF BusInv, IsLayout
  <2>2. pci = pcie_scan_and_init(L)
    BY <1>1 DEF BusInv
  <2>3. ScanInv(L, Len(L), pci)
    BY <2>1, <2>2, ScanEnds
  <2>4. Binds(L, pci)
    BY <2>1, <2>3, ScanBinds
  <2> QED BY <2>4, Zenon DEF DriversBound, Binds
<1>2. CASE ~on
  <2>1. pci.devices = <<>>
    BY <1>2 DEF BusInv, PciStart
  <2> QED BY <1>2, <2>1 DEF DriversBound
<1> QED BY <1>1, <1>2

\* On every machine that is laid out as the code expects (Layout), the drivers
\* are bound to their own devices and their handlers to the devices' lines
\* (pcie_scan_and_init and the four virtio_pcie_*_driver): however many devices,
\* in whatever order, with or without devices that are given up.  Layout leaves
\* out a second rng or gpu behind one that is in use, given up or not: the
\* driver's only structure then points to the second.
THEOREM DriversStayBound == Spec => []DriversBound
<1>1. Init => BusInv
  BY BusInit
<1>2. BusInv /\ [Next]_vars => BusInv'
  BY BusNext
<1>3. BusInv => DriversBound
  BY BusMeans
<1> QED BY <1>1, <1>2, <1>3, PTL DEF Spec
=============================================================================
