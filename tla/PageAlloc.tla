----------------------------- MODULE PageAlloc -----------------------------
(***************************************************************************)
(* The page allocator, src/src/page.c, one action per call.  Its callers   *)
(* (kmalloc, mmu_set, process_init_new, elf_load, process_free) are seen   *)
(* through `live', the allocations they hold.                              *)
(***************************************************************************)
EXTENDS PageTable

VARIABLES
    taken, last,   \* the two bits of every page
    live,          \* history: the allocations that callers hold
    result         \* what the last call returned or reported

vars == <<taken, last, live, result>>

\* page_init
Init ==
    /\ taken = 0 .. BkPages - 1
    /\ last = {BkPages - 1}
    /\ live = {}
    /\ result = <<"none", NoPage, 0>>

\* page_znalloc(n); page_zalloc() is page_znalloc(1).
Alloc(n) ==
    LET f == FirstFit(taken, n)
        e == f + Need(n) - 1
    IN \/ /\ f # NoPage
          /\ taken' = taken \union (f .. e)
          /\ last' = last \union {e}
          /\ live' = live \union {<<f, e>>}
          /\ result' = <<"alloc", f, n>>
       \/ /\ f = NoPage
          /\ result' = <<"alloc", NoPage, n>>
          /\ UNCHANGED <<taken, last, live>>

\* page_free(loc): the page in front becomes the end of what is left of its
\* allocation, then the loop clears the pages up to the end.
PageFree_KeepsEnd(loc) ==
    LET e == FreeStop(taken, last, loc)
    IN /\ taken' = taken \ (loc .. e)
       /\ last' = last \ {e}
       /\ result' = <<IF e \in taken THEN "freed" ELSE "double free", loc, 0>>
PageFree_LeavesLast(loc) ==
    LET e == FreeStop(taken, last, loc)
    IN /\ taken' = taken \ (loc .. e)
       /\ last' = last \union ({loc - 1} \intersect taken)
       /\ result' = <<IF e \in taken THEN "freed" ELSE "double free", loc, 0>>
PageFree(loc) ==
    LET e == FreeStop(taken, last, loc)
    IN /\ taken' = taken \ (loc .. e)
       /\ last' = (last \union ({loc - 1} \intersect taken))
                     \ (IF e \in taken THEN {e} ELSE {})
       /\ result' = <<IF e \in taken THEN "freed" ELSE "double free", loc, 0>>

\* A caller frees what it holds, or (heap_shrink) the end of it.
Free(a) ==
    /\ PageFree(a[1])
    /\ live' = live \ {a}

FreeTail(a, loc) ==
    /\ PageFree(loc)
    /\ live' = (live \ {a}) \union {<<a[1], loc - 1>>}

\* A caller frees a page that is not allocated (any more).
FreeAgain(loc) ==
    /\ \A a \in live \union {Bookkeeping} : loc \notin Covers(a)
    /\ PageFree(loc)
    /\ UNCHANGED live

Next ==
    \/ \E n \in Sizes : Alloc(n)
    \/ \E a \in live : Free(a) \/ \E loc \in a[1] + 1 .. a[2] : FreeTail(a, loc)
    \/ \E loc \in Pages : FreeAgain(loc)

Spec == Init /\ [][Next]_vars
----------------------------------------------------------------------------
(* Properties *)

\* The kind of answer, the page it is about and the number of pages asked for.
Results == {"none", "alloc", "freed", "double free"} \X (Pages \union {NoPage}) \X Nat

\* Type invariant of the table and of the allocations.
TypeOK ==
    /\ taken \subseteq Pages
    /\ last \subseteq Pages
    /\ live \subseteq Interval
    /\ result \in Results

Blocks == live \union {Bookkeeping}

\* page_znalloc never gives out a page twice: two allocations share no page,
\* and none covers a page of the table itself.
Exclusive ==
    /\ Bookkeeping \notin live
    /\ \A a, b \in Blocks : a # b => a[2] < b[1] \/ b[2] < a[1]

\* The two bits of a page say exactly what callers hold, whatever was
\* allocated, shrunk, freed and freed again: the taken pages are those of the
\* allocations and the last bits are at their ends.
BitsEncodeLive ==
    /\ \A k \in Pages : k \in taken <=> \E a \in Blocks : k \in Covers(a)
    /\ \A k \in Pages : k \in last <=> \E a \in Blocks : k = a[2]

IInv == TypeOK /\ Exclusive /\ BitsEncodeLive

\* The calls implement the abstract allocator: "double free of a page" is
\* reported exactly for pages nobody holds, a request fails only when there is
\* no room, and page_free releases the caller's pages and no other.
Abstract == INSTANCE PageSpec
ImplementsPageSpec == Abstract!Spec
=============================================================================
