--------------------------- MODULE ProcessMemory ---------------------------
(***************************************************************************)
(* The memory of processes, src/src/process.c and src/src/elf.c, over the  *)
(* kernel's heap, the page tables and the page allocator: process_init_new,*)
(* elf_load (load_idle_process places its image in the same way) and       *)
(* process_free, with the other users of the heap between them.            *)
(***************************************************************************)
EXTENDS KHeap

CONSTANTS
    Procs,          \* processes that may be made
    ProcBytes,      \* sizeof(process_t)
    TrampolineV,    \* virtual pages: asm/spawn.S,
    StackV,         \*    PROCESS_DEFAULT_STACK_POINTER
    ImageV          \*    and the first page of an elf image

\* The kernel comes up: there is room for its table, for the first page of the
\* heap and for the tables that map it.  No virtual page has two uses: elf_load
\* refuses an image only for the pages of asm/spawn.S and maps it where the file
\* says, so files with an image over the stack or the process frame are left out.
ASSUME MemoryAssumption ==
    /\ BkPages + 4 <= ScanPages
    /\ ProcBytes \in Nat \ {0} /\ ImageV \in Nat
    /\ \A s \in Scenes : s.procs \subseteq Procs
    /\ {TrampolineV, StackV} \subseteq VirtualPages /\ TrampolineV # StackV
    /\ \A k \in HeapPages : HeapStart + k \notin {TrampolineV, StackV}
    /\ \A n \in Sizes : \A i \in 0 .. n - 1 :
          /\ ImageV + i \in VirtualPages \ {TrampolineV, StackV}
          /\ \A k \in HeapPages : ImageV + i # HeapStart + k

VARIABLES
    proc,      \* the processes
    orphans    \* history: pages that nobody can give back any more, tables of freed
               \* processes and what a call had taken when its hart stopped

vars == <<heapvars, proc, orphans>>

\* The pages of the kernel's own image are not the allocator's.
KernelText == TotalPages

None == [state |-> "none", object |-> NULL, ptable |-> NoPage, stack |-> NoPage,
         image |-> NoPage, pages |-> 0]
\* Of a process that is neither made nor freed for good only the object is left.
Remains(object) == [None EXCEPT !.state = "left", !.object = object]
Live == {p \in Procs : proc[p].state \notin {"none", "left"}}

\* page_init, the kernel's table, init_kernel_heap, process_init_trap_stacks
TrapStacks == Cardinality(Harts)
\* The identity mapping of the kernel's sections and of the devices needs tables of
\* its own and is left out.
BootMemory ==
    LET m0 == [taken |-> 0 .. BkPages - 1, last |-> {BkPages - 1},
               tables |-> [t \in {} |-> NoEntries], fault |-> FALSE]
        m1 == init_kernel_heap(NewTable(m0))
        after[i \in 0 .. TrapStacks] == IF i = 0 THEN m1 ELSE Taken(after[i - 1], 1)
    IN after[TrapStacks]
trap_stacks == BootMemory.taken \ ((0 .. BkPages - 1) \union {HeapPage(BootMemory, 0)}
                                      \union TablesOf(BootMemory, kernel_mmu_table))

Init ==
    /\ mem = BootMemory
    /\ freelist = <<FirstNode>>
    /\ brk = PAGE_SIZE
    /\ held = {}
    /\ tlb = [h \in Harts |-> NothingCached]
    /\ scene \in Scenes
    /\ stopped = {} /\ kmalloc_lock = FALSE
    /\ behind = {}
    /\ proc = [p \in Procs |-> None]
    /\ orphans = {}

\* Other users of the heap (drivers, file system, scheduler) take and free.
Allocated(h, r) == /\ Alloc(h, r)
                   /\ orphans' = orphans \union r.lost
                   /\ UNCHANGED proc
HeapAlloc(h, request, contiguous) == Allocated(h, common_alloc(h, request, contiguous))
HeapFree(h, a) ==
    /\ \A p \in Procs : a # proc[p].object
    /\ Free(h, a)
    /\ UNCHANGED <<proc, orphans>>
HeapFreeNull == FreeNull /\ UNCHANGED <<proc, orphans>>

\* process_init_new: the object, the root of the page table, the stack, and
\* the trampoline, the process frame and the stack in the page table.  The
\* frame is mapped where the kernel has it.
FrameV(object) == HeapStart + (object.addr + HDR) \div PAGE_SIZE
Furnished(m, ptable, stack, object) ==
    mmu_map(mmu_map(mmu_map(m, ptable, TrampolineV, KernelText),
                    ptable, FrameV(object), mmu_translate(m, kernel_mmu_table, FrameV(object))),
            ptable, StackV, stack)
\* The hart stops where there is no object, no root or no table below it; what
\* it has taken by then stays taken.
Made(h, p, r, ptable, stack, m) ==
    LET done == r.got # NULL /\ ~m.fault
    IN /\ InBounds(r)
       /\ Outcome(h, [r EXCEPT !.mem = m], held \union ({r.got} \ {NULL}), ~done)
       /\ proc' = IF r.got = NULL THEN proc
                  ELSE [proc EXCEPT ![p] =
                           IF m.fault THEN Remains(r.got)
                           ELSE [None EXCEPT !.state = "new", !.object = r.got,
                                             !.ptable = ptable, !.stack = stack]]
       /\ orphans' = IF done THEN orphans
                     ELSE orphans \union r.lost \union (m.taken \ r.mem.taken)
WithTable(h, p, r, ptable, m) ==
    Made(h, p, r, ptable, FirstFit(m.taken, 1),
         IF m.fault THEN m ELSE Furnished(Taken(m, 1), ptable, FirstFit(m.taken, 1), r.got))
WithObject(h, p, r) ==
    IF r.got = NULL THEN Made(h, p, r, NoPage, NoPage, r.mem)
    ELSE WithTable(h, p, r, FirstFit(r.mem.taken, 1), NewTable(r.mem))
process_init_new(h, p) ==
    /\ proc[p].state = "none"
    /\ WithObject(h, p, common_alloc(h, ProcBytes, TRUE))

\* elf_load of an image of n pages by hart h, which writes to it before it is
\* mapped: without the pages the hart stops with no lock held.  A file that is
\* refused leaves the process as it is, for good.
Loaded(h, p, n, image, m) ==
    LET done == image # NoPage /\ ~m.fault
    IN /\ mem' = m
       /\ proc' = IF done THEN [proc EXCEPT ![p].state = "loaded", ![p].image = image,
                                            ![p].pages = n]
                  ELSE [proc EXCEPT ![p].state = "stuck"]
       /\ stopped' = IF done THEN stopped ELSE stopped \union {h}
       /\ orphans' = IF done \/ image = NoPage THEN orphans
                     ELSE orphans \union (image .. image + Need(n) - 1)
elf_load(h, p, n) ==
    /\ proc[p].state = "new"
    /\ LET image == FirstFit(mem.taken, n)
       IN Loaded(h, p, n, image,
                 IF image = NoPage THEN mem
                 ELSE mmu_map_multiple(Taken(mem, n), proc[p].ptable, ImageV, image, n))
    /\ UNCHANGED <<freelist, brk, held, tlb, scene, kmalloc_lock, behind>>
elf_refused(p) ==
    /\ proc[p].state = "new"
    /\ proc' = [proc EXCEPT ![p].state = "refused"]
    /\ UNCHANGED <<heapvars, orphans>>

\* process_free of a process that is on no hart: image, stack, the root of the
\* page table, the object.  The tables below the root stay allocated.
FreedPages_NoStack(m, r) == Freed(Freed(m, r.image), r.ptable)
FreedPages(m, r) == Freed(Freed(Freed(m, r.image), r.stack), r.ptable)
FreedWith(h, p, r) ==
    /\ Freeing(h, r, proc[p].object)
    /\ proc' = [proc EXCEPT ![p] = None]
StopsAtLock(h, p) ==
    /\ kmalloc_lock
    /\ mem' = FreedPages(mem, proc[p])
    /\ stopped' = stopped \union {h}
    /\ proc' = [proc EXCEPT ![p] = Remains(proc[p].object)]
    /\ UNCHANGED <<freelist, brk, held, tlb, scene, kmalloc_lock, behind>>
process_free(h, p) ==
    /\ proc[p].state = "loaded"
    /\ \/ FreedWith(h, p, kfree(h, FreedPages(mem, proc[p]), proc[p].object))
       \/ StopsAtLock(h, p)
    /\ orphans' = orphans \union (TablesOf(mem, proc[p].ptable) \ {proc[p].ptable})

\* os_trap_handler after a fault, and a wait for a lock that is never posted.
Spin == stopped # {} /\ UNCHANGED vars

Next ==
    \/ \E h \in scene.harts \ stopped :
          \/ \E r \in scene.requests : HeapAlloc(h, r[1], r[2])
          \/ \E a \in held : HeapFree(h, a)
          \/ \E p \in scene.procs : process_init_new(h, p) \/ process_free(h, p)
          \/ \E p \in Procs : elf_refused(p) \/ \E n \in Sizes : elf_load(h, p, n)
          \/ HeapFreeNull
    \/ Spin

Spec == Init /\ [][Next]_vars
----------------------------------------------------------------------------
(* Properties *)

\* kmalloc.c: kmalloc_head, the free nodes and what callers hold cover the
\* heap up to kernel_heap_vaddr without gap or overlap, an allocation has the
\* bytes that were asked for, and the list is in ascending order, whatever was
\* split, inserted, coalesced and shrunk.
Nodes == {<<0, 0>>} \union ToSet(freelist) \union {<<a.addr, a.size>> : a \in held}
HeapTiled ==
    /\ \A n \in Nodes : LET end == n[1] + HDR + n[2]
                        IN end = brk \/ \E o \in Nodes : o[1] = end
    /\ \A n, o \in Nodes : n # o => n[1] + HDR + n[2] <= o[1] \/ o[1] + HDR + o[2] <= n[1]
    /\ \A a \in held : /\ a.asked <= a.size /\ a.addr > 0
                       /\ <<a.addr, a.size>> \notin ToSet(freelist)
                       /\ \A b \in held : a # b => a.addr # b.addr
    /\ \A i \in DOMAIN freelist : freelist[i][1] > IF i = 1 THEN 0 ELSE freelist[i - 1][1]

\* kcalloc's memory, which drivers hand to devices and the SBI by one physical
\* address, lies on physical pages that follow each other.
PagesUnder(a) == a.addr \div PAGE_SIZE .. (a.addr + HDR + a.size - 1) \div PAGE_SIZE
ContiguousForDevices ==
    \A a \in held : a.contiguous =>
       \A j, k \in PagesUnder(a) : HeapPage(mem, k) - HeapPage(mem, j) = k - j

\* Each page taken from page.c has one owner: the allocator, the trap stacks,
\* the kernel's tables, the heap, a process, or, for good, nobody: tables that
\* process_free left behind and the pages of calls that could not go on.  The
\* heap is mapped up to kernel_heap_vaddr and, until a hart stops in mmu_set,
\* not behind it.  A call that stops in the middle, with its pages taken and
\* some of them mapped, takes no page from anyone, also while others go on.
ImagePages(p) ==
    {x \in Pages : /\ proc[p].state = "loaded"
                   /\ x \in proc[p].image .. proc[p].image + Need(proc[p].pages) - 1}
OwnedBy(p) == TablesOf(mem, proc[p].ptable) \union {proc[p].stack} \union ImagePages(p)
Shares == <<0 .. BkPages - 1, trap_stacks, TablesOf(mem, kernel_mmu_table),
            {HeapPage(mem, k) : k \in 0 .. brk \div PAGE_SIZE - 1}, orphans>>
PagesOwned ==
    /\ mem.taken = UNION (ToSet(Shares) \union {OwnedBy(p) : p \in Live})
    /\ \A i, j \in DOMAIN Shares : i # j => Shares[i] \cap Shares[j] = {}
    /\ \A p \in Live :
          /\ \A i \in DOMAIN Shares : Shares[i] \cap OwnedBy(p) = {}
          /\ \A q \in Live : p # q => OwnedBy(p) \cap OwnedBy(q) = {}
          /\ proc[p].stack \notin TablesOf(mem, proc[p].ptable) \union ImagePages(p)
          /\ ImagePages(p) \cap TablesOf(mem, proc[p].ptable) = {}
    /\ \A j, k \in 0 .. brk \div PAGE_SIZE - 1 : j # k => HeapPage(mem, j) # HeapPage(mem, k)
    /\ \A k \in HeapPages : IF k < brk \div PAGE_SIZE THEN HeapPage(mem, k) # NoPage
                            ELSE mem.fault \/ HeapPage(mem, k) = NoPage

\* process.c and elf.c: through its page table a process reaches its stack,
\* its image, its frame and the trampoline, and no page of anyone else.  A
\* process whose loading stopped in the middle never runs.
ProcessSeesOwnPages ==
    \A p \in {q \in Live : proc[q].state # "stuck"} :
       LET r == proc[p]
           at(v) == mmu_translate(mem, r.ptable, v)
       IN /\ MappedBy(mem, r.ptable) = {TrampolineV, StackV, FrameV(r.object)}
                                          \union (ImageV .. ImageV + r.pages - 1)
          /\ at(TrampolineV) = KernelText /\ at(StackV) = r.stack
          /\ at(FrameV(r.object)) = mmu_translate(mem, kernel_mmu_table, FrameV(r.object))
          /\ \A i \in 0 .. r.pages - 1 : at(ImageV + i) = r.image + i

\* The fence of common_alloc "remove[s] all TLB entries correspond[ing] to the
\* Kernel": no hart that works on the heap has a translation of a heap page
\* that the kernel's table no longer holds, unless another hart has grown or
\* shrunk the heap since its last fence: sfence.vma reaches no other hart.
TlbSound ==
    \A h \in Harts \ behind : \A k \in 0 .. brk \div PAGE_SIZE - 1 :
       tlb[h][k] \in {NoPage, HeapPage(mem, k)}
=============================================================================
