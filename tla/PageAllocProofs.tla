-------------------------- MODULE PageAllocProofs --------------------------
(***************************************************************************)
(* The page allocator is correct for every number of pages: the bits of    *)
(* the table always encode what callers hold, and the calls implement the  *)
(* abstract allocator.                                                     *)
(***************************************************************************)
EXTENDS PageAlloc, LeastNumber

\* The first fit exists when anything fits, and NoPage is answered otherwise.
LEMMA FirstFitFound ==
    ASSUME NEW T, NEW n \in Nat
    PROVE  \/ /\ FirstFit(T, n) = NoPage
              /\ \A i \in 0 .. ScanPages - 1 : ~Fits(T, n, i)
           \/ /\ FirstFit(T, n) \in 0 .. ScanPages - 1
              /\ FirstFit(T, n) # NoPage
              /\ Fits(T, n, FirstFit(T, n))
<1>1. CASE ~ \E i \in 0 .. ScanPages - 1 : Fits(T, n, i)
  BY <1>1 DEF FirstFit
<1>2. CASE \E i \in 0 .. ScanPages - 1 : Fits(T, n, i)
  <2> DEFINE S == {i \in 0 .. ScanPages - 1 : Fits(T, n, i)}
  <2>1. S \subseteq Nat /\ S # {}
    BY <1>2, PagesAssumption
  <2>2. PICK x \in S : \A y \in S : x <= y
    BY <2>1, LeastNatural
  <2>3. x \in 0 .. ScanPages - 1 /\ Fits(T, n, x)
    BY <2>2
  <2>4. ASSUME NEW k \in 0 .. x - 1 PROVE ~Fits(T, n, k)
    <3>1. k \in 0 .. ScanPages - 1 /\ k < x
      BY <2>3, PagesAssumption
    <3> QED BY <3>1, <2>2
  <2>5. \E i \in 0 .. ScanPages - 1 :
           Fits(T, n, i) /\ \A k \in 0 .. i - 1 : ~Fits(T, n, k)
    BY <2>3, <2>4
  <2>6. FirstFit(T, n) \in 0 .. ScanPages - 1 /\ Fits(T, n, FirstFit(T, n))
    BY <2>5, <1>2 DEF FirstFit
  <2> QED BY <2>6, PagesAssumption DEF NoPage
<1> QED BY <1>1, <1>2

\* The loop of page_free stops at one page only.
LEMMA FreeStopIs ==
    ASSUME NEW T, NEW L, NEW loc \in Nat, NEW e, StopsAt(T, L, loc, e)
    PROVE  FreeStop(T, L, loc) = e
<1> DEFINE x == FreeStop(T, L, loc)
<1>1. e \in loc .. TotalPages
  BY DEF StopsAt
<1>2. x \in loc .. TotalPages /\ StopsAt(T, L, loc, x)
  BY <1>1 DEF FreeStop
<1> HIDE DEF x
<1>3. ~(x < e) /\ ~(e < x)
  BY <1>1, <1>2, PagesAssumption DEF StopsAt
<1>4. x = e
  BY <1>1, <1>2, <1>3, PagesAssumption
<1> QED BY <1>4 DEF x

\* page_init's table encodes that nobody holds anything.
LEMMA InitInv == Init => IInv
<1> SUFFICES ASSUME Init PROVE IInv
  OBVIOUS
<1> USE PagesAssumption DEF Init
<1>1. TypeOK
  <2>1. taken \subseteq Pages /\ last \subseteq Pages
    BY DEF Pages
  <2>2. live \subseteq Interval
    OBVIOUS
  <2>3. result \in Results
    BY DEF Results
  <2> QED BY <2>1, <2>2, <2>3 DEF TypeOK
<1>2. Exclusive
  BY DEF Exclusive, Blocks
<1>3. BitsEncodeLive
  BY DEF BitsEncodeLive, Blocks, Bookkeeping, Covers, Pages
<1> QED BY <1>1, <1>2, <1>3 DEF IInv

\* Every block is a proper interval of pages.
LEMMA BlockIsInterval ==
    ASSUME TypeOK, NEW a \in Blocks
    PROVE  /\ a \in Interval
           /\ a = <<a[1], a[2]>>
           /\ a[1] \in Pages /\ a[2] \in Pages /\ a[1] <= a[2]
           /\ a[1] \in Nat /\ a[2] \in Nat /\ a[2] < TotalPages
<1>1. Bookkeeping \in Interval
  BY PagesAssumption DEF Bookkeeping, Interval, Pages
<1>2. a \in Interval
  BY <1>1 DEF Blocks, TypeOK
<1> QED BY <1>2, PagesAssumption DEF Interval, Pages

\* Fits over the taken pages and over the pages that are held agree.
LEMMA HeldIsTaken ==
    ASSUME IInv
    PROVE  Abstract!Held = taken
<1>1. \A k : k \in Abstract!Held => k \in taken
  <2> SUFFICES ASSUME NEW k, NEW a \in Blocks, k \in Covers(a) PROVE k \in taken
    BY DEF Abstract!Held, Blocks, Abstract!Covers, Covers, Abstract!Bookkeeping, Bookkeeping
  <2>1. k \in Pages
    BY BlockIsInterval, PagesAssumption DEF IInv, Covers, Pages
  <2> QED BY <2>1 DEF IInv, BitsEncodeLive
<1>2. \A k : k \in taken => k \in Abstract!Held
  <2> SUFFICES ASSUME NEW k \in taken PROVE k \in Abstract!Held
    OBVIOUS
  <2>1. PICK a \in Blocks : k \in Covers(a)
    BY DEF IInv, TypeOK, BitsEncodeLive
  <2> QED BY <2>1
          DEF Abstract!Held, Blocks, Abstract!Covers, Covers, Abstract!Bookkeeping, Bookkeeping
<1> QED BY <1>1, <1>2

\* A page belongs to at most one block.
LEMMA OwnPage ==
    ASSUME IInv, NEW a \in Blocks, NEW b \in Blocks, NEW k,
           k \in Covers(a), k \in Covers(b)
    PROVE  a = b
BY BlockIsInterval DEF IInv, Exclusive, Covers

\* The pages of a block are taken, and only its end is marked last.
LEMMA BlockBits ==
    ASSUME IInv, NEW a \in Blocks, NEW k \in Covers(a)
    PROVE  k \in Pages /\ k \in taken /\ (k \in last <=> k = a[2])
<1>1. a[1] \in Nat /\ a[2] \in Nat /\ a[1] <= k /\ k <= a[2] /\ k \in Pages
  BY BlockIsInterval, PagesAssumption DEF IInv, Covers, Pages
<1>2. k \in taken
  BY <1>1 DEF IInv, BitsEncodeLive
<1>3. k = a[2] => k \in last
  BY <1>1 DEF IInv, BitsEncodeLive
<1>4. ASSUME k \in last PROVE k = a[2]
  <2>1. PICK b \in Blocks : k = b[2]
    BY <1>1, <1>4 DEF IInv, BitsEncodeLive
  <2>2. k \in Covers(b)
    BY <2>1, BlockIsInterval DEF IInv, Covers
  <2> QED BY <2>1, <2>2, OwnPage
<1> QED BY <1>1, <1>2, <1>3, <1>4

\* A taken page in front of a page of another block, or of a free page, is the
\* end of its block: setting its last bit again changes nothing.
LEMMA PageBefore ==
    ASSUME IInv, NEW loc \in Nat, loc - 1 \in taken,
           \A b \in Blocks : loc \in Covers(b) => b[1] = loc
    PROVE  loc - 1 \in last
<1>1. PICK b \in Blocks : loc - 1 \in Covers(b)
  BY DEF IInv, TypeOK, BitsEncodeLive
<1>2. b[1] \in Nat /\ b[2] \in Nat /\ b[1] <= loc - 1 /\ loc - 1 <= b[2]
  BY <1>1, BlockIsInterval DEF IInv, Covers
<1>3. loc \notin Covers(b)
  BY <1>2
<1>4. loc - 1 = b[2]
  BY <1>2, <1>3 DEF Covers
<1> QED BY <1>1, <1>4, BlockBits

\* page_free of a page that is held stops at the end of the allocation.
LEMMA FreeOfHeld ==
    ASSUME IInv, NEW a \in live, NEW loc \in Covers(a)
    PROVE  FreeStop(taken, last, loc) = a[2] /\ a[2] \in taken
<1>1. a \in Blocks
  BY DEF Blocks
<1>2. a[1] \in Nat /\ a[2] \in Nat /\ a[2] < TotalPages /\ loc \in Nat
      /\ a[1] <= loc /\ loc <= a[2]
  BY <1>1, BlockIsInterval DEF IInv, Covers
<1>3. a[2] \in taken /\ a[2] \in last
  BY <1>1, <1>2, BlockBits DEF Covers
<1>4. ASSUME NEW k \in loc .. a[2] - 1 PROVE k \in taken /\ k \notin last
  BY <1>1, <1>2, BlockBits DEF Covers
<1>5. StopsAt(taken, last, loc, a[2])
  BY <1>2, <1>3, <1>4, PagesAssumption DEF StopsAt
<1> QED BY <1>2, <1>3, <1>5, FreeStopIs

\* Marking a run of free pages makes it one more block.
LEMMA MarkStep ==
    ASSUME IInv, NEW f \in Pages, NEW e \in Pages, NEW n \in Nat, f <= e,
           \A k \in f .. e : k \notin taken,
           taken' = taken \union (f .. e),
           last' = last \union {e},
           live' = live \union {<<f, e>>},
           result' = <<"alloc", f, n>>
    PROVE  IInv'
<1>1. f \in Nat /\ e \in Nat /\ e < TotalPages
  BY PagesAssumption DEF Pages
<1>2. TypeOK'
  <2>1. f .. e \subseteq Pages
    BY <1>1, PagesAssumption DEF Pages
  <2>2. <<f, e>> \in Interval
    BY DEF Interval
  <2>3. result' \in Results
    BY DEF Results
  <2> QED BY <2>1, <2>2, <2>3 DEF IInv, TypeOK
<1>3. ASSUME NEW b \in Blocks PROVE b[2] < f \/ e < b[1]
  <2>1. b[1] \in Nat /\ b[2] \in Nat /\ b[1] <= b[2] /\ \A k \in b[1] .. b[2] : k \in taken
    BY BlockIsInterval, BlockBits DEF IInv, Covers
  <2> QED BY <2>1, <1>1
<1>4. Exclusive'
  <2>1. Bookkeeping \in Blocks /\ Bookkeeping[1] = 0 /\ Bookkeeping[2] = BkPages - 1
    BY DEF Blocks, Bookkeeping
  <2>2. Bookkeeping # <<f, e>>
    <3> SUFFICES ASSUME Bookkeeping = <<f, e>> PROVE FALSE
      OBVIOUS
    <3>1. f = 0 /\ e = BkPages - 1
      BY <2>1
    <3> QED BY <2>1, <3>1, <1>1, <1>3, PagesAssumption
  <2>3. \A b \in Blocks' : b \in Blocks \/ b = <<f, e>>
    BY DEF Blocks
  <2> QED BY <2>2, <2>3, <1>3 DEF IInv, Exclusive
<1>5. BitsEncodeLive'
  <2>1. Blocks' = Blocks \union {<<f, e>>}
    BY DEF Blocks
  <2>2. Covers(<<f, e>>) = f .. e
    BY DEF Covers
  <2>3. ASSUME NEW k \in Pages
        PROVE  k \in taken' <=> \E b \in Blocks' : k \in Covers(b)
    <3>1. k \in taken <=> \E b \in Blocks : k \in Covers(b)
      BY DEF IInv, BitsEncodeLive
    <3>2. (\E b \in Blocks' : k \in Covers(b)) <=>
          (\E b \in Blocks : k \in Covers(b)) \/ k \in f .. e
      BY <2>1, <2>2, Zenon
    <3> QED BY <3>1, <3>2
  <2>4. ASSUME NEW k \in Pages
        PROVE  k \in last' <=> \E b \in Blocks' : k = b[2]
    <3>1. k \in last <=> \E b \in Blocks : k = b[2]
      BY DEF IInv, BitsEncodeLive
    <3>2. <<f, e>>[2] = e
      OBVIOUS
    <3>3. (\E b \in Blocks' : k = b[2]) <=> (\E b \in Blocks : k = b[2]) \/ k = e
      BY <2>1, <3>2, Zenon
    <3> QED BY <3>1, <3>3
  <2> QED BY <2>3, <2>4 DEF BitsEncodeLive
<1> QED BY <1>2, <1>4, <1>5 DEF IInv

\* page_znalloc gives out pages nobody holds and marks exactly those.
LEMMA AllocStep ==
    ASSUME IInv, NEW n \in Sizes, Alloc(n)
    PROVE  IInv' /\ Abstract!Alloc(n)
<1> DEFINE f == FirstFit(taken, n)
           e == f + Need(n) - 1
<1>0. n \in Nat /\ Need(n) \in Nat \ {0}
  BY SizesAssumption DEF Need
<1>1. CASE f = NoPage
  <2>1. result' = <<"alloc", NoPage, n>> /\ UNCHANGED <<taken, last, live>>
    BY <1>1 DEF Alloc
  <2>2. IInv'
    <3>1. result' \in Results
      BY <1>0, <2>1 DEF Results
    <3> QED BY <2>1, <3>1 DEF IInv, TypeOK, Exclusive, BitsEncodeLive, Blocks
  <2>3. \A i \in 0 .. ScanPages - 1 : ~Fits(taken, n, i)
    BY <1>0, <1>1, FirstFitFound
  <2>4. \A i \in 0 .. ScanPages - 1 : ~Abstract!Fits(Abstract!Held, n, i)
    BY <2>3, HeldIsTaken DEF Fits, Abstract!Fits, Need, Abstract!Need
  <2> QED BY <2>1, <2>2, <2>4 DEF Abstract!Alloc, NoPage, Abstract!NoPage
<1>2. CASE f # NoPage
  <2>1. /\ taken' = taken \union (f .. e)
        /\ last' = last \union {e}
        /\ live' = live \union {<<f, e>>}
        /\ result' = <<"alloc", f, n>>
    BY <1>2 DEF Alloc
  <2>2. f \in 0 .. ScanPages - 1 /\ Fits(taken, n, f)
    BY <1>0, <1>2, FirstFitFound
  <2>3. f \in Nat /\ e \in Nat /\ f <= e /\ e < TotalPages /\ f \in Pages /\ e \in Pages
    BY <1>0, <2>2, PagesAssumption DEF Fits, Pages
  <2>4. \A k \in f .. e : k \notin taken
    BY <2>2 DEF Fits
  <2>5. Abstract!Alloc(n)
    <3>1. Abstract!Fits(Abstract!Held, n, f)
      BY <2>2, HeldIsTaken DEF Fits, Abstract!Fits, Need, Abstract!Need
    <3> QED BY <3>1, <2>1, <2>2 DEF Abstract!Alloc, Need, Abstract!Need
  <2>6. IInv'
    BY <1>0, <2>1, <2>3, <2>4, MarkStep
  <2> QED BY <2>5, <2>6
<1> QED BY <1>1, <1>2

\* Freeing an allocation clears its pages and its end, and nothing else.
LEMMA FreeStep ==
    ASSUME IInv, NEW a \in live, Free(a)
    PROVE  IInv' /\ Abstract!Free(a)
<1>1. a \in Blocks /\ a[1] \in Nat /\ a[2] \in Nat /\ a[1] <= a[2] /\ a[1] \in Covers(a)
      /\ a[1] \in Pages /\ a[2] \in Covers(a)
  BY BlockIsInterval DEF IInv, Blocks, Covers
<1>2. FreeStop(taken, last, a[1]) = a[2] /\ a[2] \in taken
  BY <1>1, FreeOfHeld
<1>3. a[1] - 1 \in taken => a[1] - 1 \in last
  BY <1>1, OwnPage, PageBefore
<1>4. /\ taken' = taken \ Covers(a)
      /\ last' = last \ {a[2]}
      /\ result' = <<"freed", a[1], 0>>
      /\ live' = live \ {a}
  BY <1>2, <1>3 DEF Free, PageFree, Covers
<1>5. TypeOK'
  <2>1. result' \in Results
    BY <1>1, <1>4 DEF Results
  <2> QED BY <1>4, <2>1 DEF IInv, TypeOK
<1>6. Exclusive'
  BY <1>4 DEF IInv, Exclusive, Blocks
<1>7. BitsEncodeLive'
  <2>1. Blocks' = Blocks \ {a}
    BY <1>4 DEF Blocks, IInv, Exclusive
  <2>2. ASSUME NEW k \in Pages
        PROVE  k \in taken' <=> \E b \in Blocks' : k \in Covers(b)
    BY <2>1, <1>1, <1>4, OwnPage DEF IInv, BitsEncodeLive
  <2>3. ASSUME NEW k \in Pages
        PROVE  k \in last' <=> \E b \in Blocks' : k = b[2]
    <3>1. \A b \in Blocks : b[2] = a[2] => b = a
      BY <1>1, BlockIsInterval, OwnPage DEF IInv, Covers
    <3> QED BY <3>1, <2>1, <1>4 DEF IInv, BitsEncodeLive
  <2> QED BY <2>2, <2>3 DEF BitsEncodeLive
<1> QED BY <1>4, <1>5, <1>6, <1>7 DEF IInv, Abstract!Free

\* Freeing from a later page on leaves a shorter allocation with a new end.
LEMMA FreeTailStep ==
    ASSUME IInv, NEW a \in live, NEW loc \in a[1] + 1 .. a[2], FreeTail(a, loc)
    PROVE  IInv' /\ Abstract!FreeTail(a, loc)
<1> DEFINE c == <<a[1], loc - 1>>
<1>1. a \in Blocks /\ a[1] \in Nat /\ a[2] \in Nat /\ a[1] \in Pages /\ a[2] \in Pages
      /\ loc \in Nat /\ a[1] < loc /\ loc <= a[2] /\ loc \in Covers(a) /\ a[2] < TotalPages
      /\ loc - 1 \in Covers(a) /\ loc - 1 \in Pages /\ loc \in Pages /\ a[2] \in Covers(a)
  BY BlockIsInterval, PagesAssumption DEF IInv, Blocks, Covers, Pages
<1>2. FreeStop(taken, last, loc) = a[2] /\ a[2] \in taken /\ loc - 1 \in taken
  BY <1>1, FreeOfHeld, BlockBits
<1>3. /\ taken' = taken \ (loc .. a[2])
      /\ last' = (last \union {loc - 1}) \ {a[2]}
      /\ result' = <<"freed", loc, 0>>
      /\ live' = (live \ {a}) \union {c}
  BY <1>2 DEF FreeTail, PageFree
<1>4. c \in Interval /\ c[1] = a[1] /\ c[2] = loc - 1
  BY <1>1, PagesAssumption DEF Interval, Pages
<1> HIDE DEF c
<1>5. TypeOK'
  <2>1. result' \in Results
    BY <1>1, <1>3 DEF Results
  <2> QED BY <1>1, <1>3, <1>4, <2>1 DEF IInv, TypeOK
<1>6. Exclusive'
  <2>1. \A b \in Blocks' : b = c \/ (b \in Blocks /\ b # a) \/ b = Bookkeeping
    BY <1>3 DEF Blocks
  <2>2. Bookkeeping # a /\ Bookkeeping \in Blocks
    BY DEF IInv, Exclusive, Blocks
  <2>3. \A b \in Blocks : b # a => c[2] < b[1] \/ b[2] < c[1]
    BY <1>1, <1>4, BlockIsInterval DEF IInv, Exclusive
  <2>4. Bookkeeping # c
    BY <2>2, <2>3, <1>1, <1>4, BlockIsInterval DEF IInv
  <2> QED BY <2>1, <2>2, <2>3, <2>4, <1>3 DEF IInv, Exclusive
<1>7. BitsEncodeLive'
  <2>1. Blocks' = (Blocks \ {a}) \union {c}
    BY <1>3 DEF Blocks, IInv, Exclusive
  <2>2. ASSUME NEW k \in Pages
        PROVE  k \in taken' <=> \E b \in Blocks' : k \in Covers(b)
    <3>1. CASE k \in Covers(a)
      <4>1. \A b \in Blocks \ {a} : k \notin Covers(b)
        BY <3>1, <1>1, OwnPage
      <4>2. k \in taken' <=> k \in Covers(c)
        BY <3>1, <1>1, <1>3, <1>4, BlockBits DEF Covers, Pages
      <4> QED BY <4>1, <4>2, <2>1
    <3>2. CASE k \notin Covers(a)
      <4>1. k \notin Covers(c)
        BY <3>2, <1>1, <1>4 DEF Covers, Pages
      <4>2. k \in taken' <=> k \in taken
        BY <3>2, <1>1, <1>3 DEF Covers, Pages
      <4> QED BY <4>1, <4>2, <3>2, <2>1 DEF IInv, BitsEncodeLive
    <3> QED BY <3>1, <3>2
  <2>3. ASSUME NEW k \in Pages
        PROVE  k \in last' <=> \E b \in Blocks' : k = b[2]
    <3>1. \A b \in Blocks : b[2] = a[2] => b = a
      BY <1>1, BlockIsInterval, OwnPage DEF IInv, Covers
    <3> QED BY <3>1, <2>1, <1>1, <1>3, <1>4 DEF IInv, BitsEncodeLive
  <2> QED BY <2>2, <2>3 DEF BitsEncodeLive
<1> QED BY <1>3, <1>5, <1>6, <1>7 DEF IInv, Abstract!FreeTail, c

\* Freeing a page nobody holds changes no bit and is reported.
LEMMA FreeAgainStep ==
    ASSUME IInv, NEW loc \in Pages, FreeAgain(loc)
    PROVE  IInv' /\ Abstract!FreeAgain(loc)
<1>1. loc \in Nat /\ loc < TotalPages
  BY PagesAssumption DEF Pages
<1>2. loc \notin taken
  BY <1>1 DEF FreeAgain, IInv, BitsEncodeLive, Blocks
<1>3. FreeStop(taken, last, loc) = loc
  <2>1. StopsAt(taken, last, loc, loc)
    BY <1>1, <1>2, PagesAssumption DEF StopsAt
  <2> QED BY <2>1, <1>1, FreeStopIs
<1>4. loc - 1 \in taken => loc - 1 \in last
  BY <1>1, PageBefore DEF FreeAgain, Blocks
<1>5. taken' = taken /\ last' = last /\ live' = live /\ result' = <<"double free", loc, 0>>
  <2>1. taken \ (loc .. loc) = taken
    BY <1>1, <1>2
  <2>2. last \union ({loc - 1} \intersect taken) = last
    BY <1>4
  <2> QED BY <1>2, <1>3, <2>1, <2>2 DEF FreeAgain, PageFree
<1>6. IInv'
  <2>1. result' \in Results
    BY <1>5 DEF Results
  <2> QED BY <1>5, <2>1 DEF IInv, TypeOK, Exclusive, BitsEncodeLive, Blocks
<1> QED BY <1>2, <1>5, <1>6, HeldIsTaken DEF Abstract!FreeAgain

\* Every step keeps the invariant and is a step of the abstract allocator.
LEMMA NextStep ==
    ASSUME IInv, [Next]_vars
    PROVE  IInv' /\ [Abstract!Next]_<<live, result>>
<1>1. ASSUME NEW n \in Sizes, Alloc(n)
      PROVE  IInv' /\ Abstract!Next
  BY <1>1, AllocStep DEF Abstract!Next
<1>2. ASSUME NEW a \in live, Free(a)
      PROVE  IInv' /\ Abstract!Next
  BY <1>2, FreeStep DEF Abstract!Next
<1>3. ASSUME NEW a \in live, NEW loc \in a[1] + 1 .. a[2], FreeTail(a, loc)
      PROVE  IInv' /\ Abstract!Next
  BY <1>3, FreeTailStep DEF Abstract!Next
<1>4. ASSUME NEW loc \in Pages, FreeAgain(loc)
      PROVE  IInv' /\ Abstract!Next
  <2>1. Abstract!Pages = Pages
    BY DEF Abstract!Pages, Pages
  <2> QED BY <1>4, <2>1, FreeAgainStep DEF Abstract!Next
<1>5. CASE UNCHANGED vars
  BY <1>5 DEF vars, IInv, TypeOK, Exclusive, BitsEncodeLive, Blocks
<1> QED BY <1>1, <1>2, <1>3, <1>4, <1>5 DEF Next

\* The table encodes what callers hold in every reachable state.
THEOREM PageInvariance == Spec => []IInv
BY InitInv, NextStep, PTL DEF Spec

\* The table stays a table of the pages, the allocations stay intervals of them.
THEOREM PageTypes == Spec => []TypeOK
BY PageInvariance, PTL DEF IInv

\* No page is ever given out twice.
THEOREM PagesExclusive == Spec => []Exclusive
BY PageInvariance, PTL DEF IInv

\* The taken and last bits describe the live allocations.
THEOREM BitsAreRight == Spec => []BitsEncodeLive
BY PageInvariance, PTL DEF IInv

\* The page allocator implements its abstract specification.
THEOREM PagesImplementSpec == Spec => ImplementsPageSpec
<1>1. Init => Abstract!Init
  BY DEF Init, Abstract!Init, NoPage, Abstract!NoPage
<1>2. IInv /\ [Next]_vars => [Abstract!Next]_<<live, result>>
  BY NextStep
<1> QED BY <1>1, <1>2, PageInvariance, PTL DEF Spec, ImplementsPageSpec, Abstract!Spec
=============================================================================
