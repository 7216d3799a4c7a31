------------------------------- MODULE KHeap -------------------------------
(***************************************************************************)
(* The kernel's heap, src/src/kmalloc.c, over the page tables and the page *)
(* allocator.  A call runs under kmalloc_lock from its first line to its   *)
(* last, so a call is one step.  A call that comes to a page table it could*)
(* not allocate, or to the lock of a hart that has, goes no further: its   *)
(* hart spins for ever and what it did and holds stays as it is, while the *)
(* other harts go on.  Addresses count from the start of the heap; virtual *)
(* page 0 of the heap is page HeapStart.                                   *)
(*                                                                         *)
(* A hart may cache every translation it comes across.  tlb[h] is what hart*)
(* h holds of the kernel's table in the worst case: whatever was mapped at *)
(* one of its calls, until its own sfence.vma.                             *)
(***************************************************************************)
EXTENDS Mmu

CONSTANTS
    Harts,
    PAGE_SIZE,      \* bytes of a page
    HDR,            \* sizeof(allocation_t)
    WORD,           \* allocations are rounded up to it, 8
    HeapStart,      \* virtual page of KERNEL_HEAP_START_VADDR
    MaxHeapPages,   \* bound on the growth of the heap
    Scenes          \* who uses the memory, in one behaviour each: the harts, the
                    \* processes that come and go, the requests <<bytes, contiguous>>
                    \* of everyone else, and a bound on what is held at a time

ASSUME HeapAssumption ==
    /\ WORD \in Nat \ {0} /\ HDR \in Nat \ {0} /\ PAGE_SIZE \in Nat
    /\ HeapStart \in Nat /\ MaxHeapPages \in Nat \ {0} /\ IsFiniteSet(Harts)
    /\ HDR % WORD = 0 /\ PAGE_SIZE % WORD = 0
    /\ 2 * HDR < PAGE_SIZE
    /\ \A s \in Scenes : s.harts \subseteq Harts /\ s.requests \subseteq Nat \X BOOLEAN
    /\ HeapStart .. HeapStart + MaxHeapPages - 1 \subseteq VirtualPages

VARIABLES
    mem,        \* the memory of module Mmu
    freelist,   \* the nodes after kmalloc_head: <<address, size>>
    brk,        \* kernel_heap_vaddr, an address of the heap
    held,       \* history: what callers hold, as common_alloc returns it
    tlb,        \* hart -> heap page -> the page it has cached, or NoPage
    scene,      \* never changes
    stopped,    \* the harts that spin for ever
    kmalloc_lock, \* whether one of them has kmalloc_lock
    behind      \* history: harts since whose last fence another one has changed
                \* the mapping of the heap

heapvars == <<mem, freelist, brk, held, tlb, scene, stopped, kmalloc_lock, behind>>

kernel_mmu_table == BkPages         \* the first page_zalloc of main
HeapPages == 0 .. MaxHeapPages - 1
HeapPage(m, k) == mmu_translate(m, kernel_mmu_table, HeapStart + k)
NoNode == <<NoPage, 0>>

\* What a call of hart h leaves in its TLB, after the fence or without one.
Cached(m, b, old) ==
    [k \in HeapPages |-> IF old[k] # NoPage THEN old[k]
                         ELSE IF k < b \div PAGE_SIZE THEN HeapPage(m, k) ELSE NoPage]
NothingCached == [k \in HeapPages |-> NoPage]
sfence_None(old) == old
sfence(old) == NothingCached

\* init_kernel_heap: kmalloc_head is the first node of the first page and the
\* rest of the page is free.
init_kernel_heap(m) ==
    mmu_map(Taken(m, 1), kernel_mmu_table, HeapStart, FirstFit(m.taken, 1))
FirstNode == <<HDR, PAGE_SIZE - 2 * HDR>>

\* bytes = ((bytes + 7)/8)*8
Rounded(bytes) == ((bytes + WORD - 1) \div WORD) * WORD

\* The first node with room, or NoNode.
FirstNodeFor(bytes) ==
    LET fits == {i \in DOMAIN freelist : freelist[i][2] >= bytes}
    IN IF fits = {} THEN NoNode ELSE freelist[Min(fits)]

pages_to_alloc_NoHeader(bytes) == (bytes + PAGE_SIZE - 1) \div PAGE_SIZE
pages_to_alloc(bytes) == (bytes + HDR + PAGE_SIZE - 1) \div PAGE_SIZE

\* common_alloc's request for pages: the heap grows by n pages that lie next
\* to each other, which become a node at the end of the list.
Grown(m, n) ==
    LET first == FirstFit(m.taken, n)
    IN mmu_map_multiple(Taken(m, n), kernel_mmu_table, HeapStart + brk \div PAGE_SIZE,
                        first, n)

NeedsPages_IfFull(p, contiguous) == p = NoNode
NeedsPages(p, contiguous) == p = NoNode \/ contiguous

\* Node p is taken out of the list, split if the rest can hold a node.
Split(p, bytes) == p[2] >= bytes + HDR
Carved(list, p, bytes) ==
    LET i == CHOOSE j \in DOMAIN list : list[j] = p
        q == <<p[1] + HDR + bytes, p[2] - bytes - HDR>>
    IN IF Split(p, bytes) THEN ReplaceAt(list, i, q) ELSE RemoveAt(list, i)

\* common_alloc as the call's outcome: the memory, list and end of the heap it
\* leaves, the allocation it returns, NULL if there is none, how far it meant
\* the heap to reach, and if it stops on the way, the pages it had taken.
NULL == [addr |-> NoPage, size |-> 0, asked |-> 0, contiguous |-> FALSE]
common_alloc(h, request, contiguous) ==
    LET bytes == Rounded(request)
        p == FirstNodeFor(bytes)
        n == pages_to_alloc(bytes)
        grow == NeedsPages(p, contiguous)
        first == FirstFit(mem.taken, n)
        m == IF grow THEN Grown(mem, n) ELSE mem
        b == IF grow THEN brk + n * PAGE_SIZE ELSE brk
        node == IF grow THEN <<brk, n * PAGE_SIZE - HDR>> ELSE p
        list == IF grow THEN Append(freelist, node) ELSE freelist
        nothing == [mem |-> mem, freelist |-> freelist, brk |-> brk, tlb |-> tlb[h],
                    behind |-> behind, got |-> NULL, reach |-> brk, stops |-> FALSE,
                    lost |-> {}]
    IN IF grow /\ first = NoPage THEN nothing
       ELSE IF grow /\ m.fault
       THEN [nothing EXCEPT !.mem = m, !.reach = b, !.stops = TRUE,
                            !.lost = first .. first + n - 1]
       ELSE [nothing EXCEPT !.behind = IF grow THEN Harts \ {h} ELSE behind,
             !.mem = m, !.freelist = Carved(list, node, bytes), !.brk = b, !.reach = b,
             !.tlb = Cached(m, b, IF grow THEN sfence(tlb[h]) ELSE tlb[h]),
             !.got = [addr |-> node[1], asked |-> request, contiguous |-> contiguous,
                      size |-> IF Split(node, bytes) THEN bytes ELSE node[2]]]

\* The bounds of the instance, on the outcome of an allocation.
InBounds(r) == Cardinality(held) < scene.held /\ r.reach <= MaxHeapPages * PAGE_SIZE

\* coalesce_free_list: a node takes up the ones that lie right behind it.
JoinedTo(acc, q) ==
    LET p == acc[Len(acc)]
    IN IF acc # <<>> /\ p[1] + HDR + p[2] = q[1]
       THEN ReplaceAt(acc, Len(acc), <<p[1], p[2] + HDR + q[2]>>)
       ELSE Append(acc, q)
coalesce_free_list(list) ==
    LET after[i \in 0 .. Len(list)] == IF i = 0 THEN <<>> ELSE JoinedTo(after[i - 1], list[i])
    IN after[Len(list)]

\* heap_shrink: as long as the last node ends the heap and has a page's worth
\* of bytes, the last page of the heap is given back and unmapped.  If nobody
\* can unmap a page any more, that is as far as the first page gets.
ShrinkPages(list, b) ==
    LET last == list[Len(list)]
    IN IF last[1] + HDR + last[2] # b THEN 0 ELSE last[2] \div PAGE_SIZE
PageDropped(m, k) ==
    mmu_unmap(Freed(m, HeapPage(m, k)), kernel_mmu_table, HeapStart + k)
PagesDropped(m, top, n) ==
    LET after[i \in 0 .. n] == IF i = 0 THEN m ELSE PageDropped(after[i - 1], top - i)
    IN after[n]
heap_shrink(h, m, list, b) ==
    LET all == ShrinkPages(list, b)
        n == IF m.fault /\ all > 0 THEN 1 ELSE all
        after == PagesDropped(m, b \div PAGE_SIZE, n)
        brk_ == b - n * PAGE_SIZE
        last == list[Len(list)]
    IN [mem |-> after, brk |-> brk_, tlb |-> Cached(after, brk_, tlb[h]),
        behind |-> IF n = 0 THEN behind ELSE behind \union (Harts \ {h}),
        stops |-> m.fault /\ n > 0,
        freelist |-> ReplaceAt(list, Len(list), <<last[1], last[2] - n * PAGE_SIZE>>)]

\* kfree: the node goes in front of the first one with a higher address.
Inserted(list, q) ==
    LET after == {i \in DOMAIN list : list[i][1] >= q[1]}
        k == IF after = {} THEN Len(list) + 1 ELSE Min(after)
    IN InsertAt(list, k, q)
kfree(h, m, a) ==
    heap_shrink(h, m, coalesce_free_list(Inserted(freelist, <<a.addr, a.size>>)), brk)
----------------------------------------------------------------------------
\* A call under kmalloc_lock by hart h, after which callers hold `holding'.
Outcome(h, r, holding, stops) ==
    /\ ~kmalloc_lock
    /\ mem' = r.mem /\ freelist' = r.freelist /\ brk' = r.brk
    /\ tlb' = [tlb EXCEPT ![h] = r.tlb]
    /\ behind' = r.behind
    /\ held' = holding
    /\ kmalloc_lock' = r.stops
    /\ stopped' = IF stops THEN stopped \union {h} ELSE stopped
    /\ UNCHANGED scene

\* kmalloc(bytes) and kzalloc(bytes) by a caller on hart h, or kcalloc(bytes).
Alloc(h, r) == InBounds(r) /\ Outcome(h, r, held \union ({r.got} \ {NULL}), r.stops)

\* kfree(addr) of an allocation, and kfree(NULL), which only waits for the lock.
Freeing(h, r, a) == Outcome(h, r, held \ {a}, r.stops)
Free(h, a) == Freeing(h, kfree(h, mem, a), a)
FreeNull == ~kmalloc_lock /\ UNCHANGED heapvars
=============================================================================
