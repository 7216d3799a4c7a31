------------------------------ MODULE PageSpec ------------------------------
(***************************************************************************)
(* What the page allocator promises: an allocation is a run of pages that  *)
(* nobody holds, a request fails only when there is no room for it where   *)
(* the allocator looks, an allocation may be freed as a whole or from some *)
(* page on, and a page that nobody holds can be freed without harm.        *)
(***************************************************************************)
EXTENDS PageTable

VARIABLES
    live,     \* the allocations that callers hold
    result    \* what the last call returned or reported

Held == UNION {Covers(a) : a \in live \union {Bookkeeping}}

Init == live = {} /\ result = <<"none", NoPage, 0>>

Alloc(n) ==
    \/ \E f \in 0 .. ScanPages - 1 :
          /\ Fits(Held, n, f)
          /\ live' = live \union {<<f, f + Need(n) - 1>>}
          /\ result' = <<"alloc", f, n>>
    \/ /\ \A f \in 0 .. ScanPages - 1 : ~Fits(Held, n, f)
       /\ result' = <<"alloc", NoPage, n>>
       /\ UNCHANGED live

Free(a) ==
    /\ live' = live \ {a}
    /\ result' = <<"freed", a[1], 0>>

FreeTail(a, loc) ==
    /\ live' = (live \ {a}) \union {<<a[1], loc - 1>>}
    /\ result' = <<"freed", loc, 0>>

FreeAgain(loc) ==
    /\ loc \notin Held
    /\ result' = <<"double free", loc, 0>>
    /\ UNCHANGED live

Next ==
    \/ \E n \in Sizes : Alloc(n)
    \/ \E a \in live : Free(a) \/ \E loc \in a[1] + 1 .. a[2] : FreeTail(a, loc)
    \/ \E loc \in Pages : FreeAgain(loc)

Spec == Init /\ [][Next]_<<live, result>>
=============================================================================
