----------------------------- MODULE PageTable -----------------------------
(***************************************************************************)
(* The page allocator's table, src/src/page.c: two bits for every page of  *)
(* the kernel's heap region, `taken' and `last', the second marking the    *)
(* end of an allocation.  A table is given here as the set of pages whose  *)
(* taken bit is set and the set of pages whose last bit is set.            *)
(***************************************************************************)
EXTENDS Integers, FiniteSets

CONSTANTS
    TotalPages,  \* total_pages, the pages the table describes
    ScanPages,   \* total_pages/10: a run must start below it
    BkPages,     \* pages_for_bookkeeping, the first entries of the table
    Sizes        \* arguments of page_znalloc

ASSUME PagesAssumption ==
    /\ TotalPages \in Nat /\ ScanPages \in Nat /\ BkPages \in Nat
    /\ 0 < BkPages /\ BkPages <= TotalPages /\ ScanPages <= TotalPages
ASSUME SizesAssumption == Sizes \subseteq Nat

Pages == 0 .. TotalPages - 1
NoPage == -1                    \* the NULL page_znalloc returns

\* An allocation is the interval of pages it covers.
Interval == {a \in Pages \X Pages : a[1] <= a[2]}
Covers(a) == a[1] .. a[2]

\* The pages page_init marks: the table's own.
Bookkeeping == <<0, BkPages - 1>>

\* The counter `consecutive' is compared after it was incremented: a request
\* for zero pages takes one.
Need(n) == IF n = 0 THEN 1 ELSE n

\* The inner loop of page_znalloc finds n free pages from page i on.
\* (Mutations are named for the mistake they make and stand in front of the
\* definition they mutate.)
Fits_NoBound(taken, n, i) ==
    \A k \in i .. i + Need(n) - 1 : k \notin taken
Fits_OneShort(taken, n, i) ==
    /\ i + Need(n) <= TotalPages
    /\ \A k \in i .. i + Need(n) - 2 : k \notin taken
Fits(taken, n, i) ==
    /\ i + Need(n) <= TotalPages
    /\ \A k \in i .. i + Need(n) - 1 : k \notin taken

\* page_znalloc's search: the first page below the limit with room behind it.
FirstFit(taken, n) ==
    IF \E i \in 0 .. ScanPages - 1 : Fits(taken, n, i)
    THEN CHOOSE i \in 0 .. ScanPages - 1 :
            Fits(taken, n, i) /\ \A k \in 0 .. i - 1 : ~Fits(taken, n, k)
    ELSE NoPage

\* The page at which the loop of page_free(loc) stops: the end of the
\* allocation, or a page that is not taken ("double free of a page").
StopsAt(taken, last, loc, e) ==
    /\ e \in loc .. TotalPages
    /\ e \notin taken \/ e \in last
    /\ \A k \in loc .. e - 1 : k \in taken /\ k \notin last
FreeStop(taken, last, loc) == CHOOSE e \in loc .. TotalPages : StopsAt(taken, last, loc, e)
=============================================================================
