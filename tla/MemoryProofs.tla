---------------------------- MODULE MemoryProofs ----------------------------
(***************************************************************************)
(* The kernel's memory is in order for every size of memory, heap and      *)
(* page table, every set of harts, processes and requests: HeapTiled,      *)
(* ContiguousForDevices, PagesOwned, ProcessSeesOwnPages and TlbSound are  *)
(* invariants of ProcessMemory.                                            *)
(*                                                                         *)
(* The inductive invariant MemoryInv joins six facts about one state:      *)
(* the free nodes and allocations tile the heap (HeapWF), the tables of    *)
(* every root form a tree and the taken pages are partitioned among their  *)
(* owners (Sound), processes own distinct objects (ProcsOK), see their own *)
(* pages (AllSee), allocations for devices stay on consecutive pages       *)
(* (Contiguous), and harts cache what the tables hold (TlbOK).  None of    *)
(* them is inductive alone: giving back a page of the heap leaves the      *)
(* tables intact only because no page of the heap is a table, and          *)
(* page_free frees what it was given only because no end bit inside an     *)
(* allocation is missing.                                                  *)
(*                                                                         *)
(* The steps include the calls whose hart stops in the middle, in mmu_set  *)
(* or on the way to it.  Their pages go to an owner of their own, the      *)
(* orphans, and what they had mapped stays mapped, so every lemma on       *)
(* mappings is about the tables before the last one that failed too.  Of a *)
(* process whose making stops only the object is left: the facts above are *)
(* about Shape(proc), in which it is no process any more.                  *)
(*                                                                         *)
(* The module goes from the list of nodes to the tables, to the owners, to *)
(* what each operation does to all of them, to the steps.                  *)
(***************************************************************************)
EXTENDS ProcessMemory, LeastNumber, SequenceTheorems, FiniteSetTheorems
----------------------------------------------------------------------------
(* The list of free nodes: kmalloc.c without the pages below it *)

\* The operations on lists that common_alloc and kfree are made of, entry by
\* entry: a node is changed, taken out, put in.
LEMMA ReplaceAtIs ==
    ASSUME NEW S, NEW s \in Seq(S), NEW i \in 1 .. Len(s), NEW e \in S
    PROVE  /\ ReplaceAt(s, i, e) \in Seq(S)
           /\ Len(ReplaceAt(s, i, e)) = Len(s)
           /\ \A j \in 1 .. Len(s) : ReplaceAt(s, i, e)[j] = IF j = i THEN e ELSE s[j]
  BY ExceptSeq DEF ReplaceAt

\* RemoveAt closes the gap: the entries behind the place move up by one.
LEMMA RemoveAtIs ==
    ASSUME NEW S, NEW s \in Seq(S), NEW i \in 1 .. Len(s)
    PROVE  /\ RemoveAt(s, i) \in Seq(S)
           /\ Len(RemoveAt(s, i)) = Len(s) - 1
           /\ \A j \in 1 .. Len(s) - 1 : RemoveAt(s, i)[j] = IF j < i THEN s[j] ELSE s[j + 1]
<1> DEFINE u == SubSeq(s, 1, i - 1)
           w == SubSeq(s, i + 1, Len(s))
<1>1. /\ u \in Seq(S) /\ Len(u) = i - 1
      /\ \A j \in 1 .. i - 1 : u[j] = s[j]
  <2>1. 1 \in 1 .. Len(s) + 1 /\ i - 1 \in 1 - 1 .. Len(s)
    BY LenProperties
  <2> QED BY <2>1, SubSeqProperties, LenProperties
<1>2. /\ w \in Seq(S) /\ Len(w) = Len(s) - i
      /\ \A j \in 1 .. Len(s) - i : w[j] = s[i + j]
  <2>1. i + 1 \in 1 .. Len(s) + 1 /\ Len(s) \in i + 1 - 1 .. Len(s)
    BY LenProperties
  <2> QED BY <2>1, SubSeqProperties, LenProperties
<1>3. RemoveAt(s, i) = u \o w
  BY DEF RemoveAt
<1> HIDE DEF u, w
<1>4. /\ u \o w \in Seq(S) /\ Len(u \o w) = Len(s) - 1
      /\ \A j \in 1 .. Len(s) - 1 : (u \o w)[j] = IF j <= i - 1 THEN u[j] ELSE w[j - (i - 1)]
  <2>1. /\ u \o w \in Seq(S) /\ Len(u \o w) = Len(u) + Len(w)
        /\ \A j \in 1 .. Len(u) + Len(w) :
              (u \o w)[j] = IF j <= Len(u) THEN u[j] ELSE w[j - Len(u)]
    BY <1>1, <1>2, ConcatProperties
  <2>2. Len(u) + Len(w) = Len(s) - 1
    BY <1>1, <1>2, LenProperties
  <2> QED BY <1>1, <2>1, <2>2
<1>5. ASSUME NEW j \in 1 .. Len(s) - 1 PROVE (u \o w)[j] = IF j < i THEN s[j] ELSE s[j + 1]
  <2>1. CASE j < i
    BY <1>1, <1>4, <2>1, LenProperties
  <2>2. CASE ~(j < i)
    <3>1. j - (i - 1) \in 1 .. Len(s) - i /\ i + (j - (i - 1)) = j + 1
      BY <2>2, LenProperties
    <3> QED BY <1>2, <1>4, <2>2, <3>1, LenProperties
  <2> QED BY <2>1, <2>2
<1> QED BY <1>3, <1>4, <1>5

\* InsertAt makes room: the entries from the place on move down by one.
LEMMA InsertAtIs ==
    ASSUME NEW S, NEW s \in Seq(S), NEW i \in 1 .. Len(s) + 1, NEW e \in S
    PROVE  /\ InsertAt(s, i, e) \in Seq(S)
           /\ Len(InsertAt(s, i, e)) = Len(s) + 1
           /\ \A j \in 1 .. Len(s) + 1 :
                 InsertAt(s, i, e)[j] = IF j < i THEN s[j] ELSE IF j = i THEN e ELSE s[j - 1]
<1> DEFINE u == SubSeq(s, 1, i - 1)
           w == SubSeq(s, i, Len(s))
<1>1. /\ u \in Seq(S) /\ Len(u) = i - 1
      /\ \A j \in 1 .. i - 1 : u[j] = s[j]
  <2>1. 1 \in 1 .. Len(s) + 1 /\ i - 1 \in 1 - 1 .. Len(s)
    BY LenProperties
  <2> QED BY <2>1, SubSeqProperties, LenProperties
<1>2. /\ w \in Seq(S) /\ Len(w) = Len(s) - i + 1
      /\ \A j \in 1 .. Len(s) - i + 1 : w[j] = s[i + j - 1]
  <2>1. i \in 1 .. Len(s) + 1 /\ Len(s) \in i - 1 .. Len(s)
    BY LenProperties
  <2> QED BY <2>1, SubSeqProperties, LenProperties
<1>3. InsertAt(s, i, e) = (u \o <<e>>) \o w
  BY DEF InsertAt
<1> HIDE DEF u, w
<1> DEFINE x == u \o <<e>>
<1>4. /\ x \in Seq(S) /\ Len(x) = i
      /\ \A j \in 1 .. i : x[j] = IF j < i THEN s[j] ELSE e
  <2>1. <<e>> \in Seq(S) /\ Len(<<e>>) = 1 /\ <<e>>[1] = e
    OBVIOUS
  <2>2. /\ x \in Seq(S) /\ Len(x) = i
        /\ \A j \in 1 .. i : x[j] = IF j <= i - 1 THEN u[j] ELSE <<e>>[j - (i - 1)]
    BY <1>1, <2>1, ConcatProperties, LenProperties
  <2> QED BY <1>1, <2>1, <2>2, LenProperties
<1> HIDE DEF x
<1>5. /\ x \o w \in Seq(S) /\ Len(x \o w) = Len(s) + 1
      /\ \A j \in 1 .. Len(s) + 1 : (x \o w)[j] = IF j <= i THEN x[j] ELSE w[j - i]
  <2>1. /\ x \o w \in Seq(S) /\ Len(x \o w) = Len(x) + Len(w)
        /\ \A j \in 1 .. Len(x) + Len(w) :
              (x \o w)[j] = IF j <= Len(x) THEN x[j] ELSE w[j - Len(x)]
    BY <1>2, <1>4, ConcatProperties
  <2>2. Len(x) + Len(w) = Len(s) + 1
    BY <1>2, <1>4, LenProperties
  <2> QED BY <1>4, <2>1, <2>2
<1>6. ASSUME NEW j \in 1 .. Len(s) + 1
      PROVE  (x \o w)[j] = IF j < i THEN s[j] ELSE IF j = i THEN e ELSE s[j - 1]
  <2>1. CASE j <= i
    BY <1>4, <1>5, <2>1, LenProperties
  <2>2. CASE ~(j <= i)
    <3>1. j - i \in 1 .. Len(s) - i + 1 /\ i + (j - i) - 1 = j - 1
      BY <2>2, LenProperties
    <3> QED BY <1>2, <1>5, <2>2, <3>1, LenProperties
  <2> QED BY <2>1, <2>2
<1> QED BY <1>3, <1>5, <1>6 DEF x

(* The heap as a set of nodes *)

Fin(n) == n[1] + HDR + n[2]
Node == Nat \X Nat

\* The nodes N cover the heap up to b without gap or overlap.
Tiles(N, b) ==
    /\ N \subseteq Node
    /\ \A n \in N : Fin(n) <= b /\ (Fin(n) = b \/ \E o \in N : o[1] = Fin(n))
    /\ \A n, o \in N : n # o => Fin(n) <= o[1] \/ Fin(o) <= n[1]

\* The sizes of kmalloc.c are positive and a page has room for two headers.
LEMMA HeapSizes ==
    /\ HDR \in Nat /\ HDR > 0 /\ PAGE_SIZE \in Nat /\ PAGE_SIZE > 2 * HDR
    /\ WORD \in Nat /\ WORD > 0 /\ MaxHeapPages \in Nat
  BY HeapAssumption

\* A node of the free list is a pair of an address and a size.
LEMMA NodeForm == \A n \in Node : n[1] \in Nat /\ n[2] \in Nat /\ n = <<n[1], n[2]>>
  BY DEF Node

\* Nodes that start or end at the same place are the same.
LEMMA StartsDiffer ==
    ASSUME NEW b \in Nat, NEW N, Tiles(N, b), NEW n \in N, NEW o \in N,
           n[1] = o[1] \/ Fin(n) = Fin(o)
    PROVE  n = o
<1>1. n \in Node /\ o \in Node
  BY DEF Tiles
<1> QED BY <1>1, HeapSizes, NodeForm DEF Tiles, Fin

\* common_alloc splits a node.
LEMMA SplitTiles ==
    ASSUME NEW b \in Nat, NEW N, Tiles(N, b), NEW p \in N, NEW B \in Nat, p[2] >= B + HDR
    PROVE  Tiles((N \ {p}) \union {<<p[1], B>>, <<p[1] + HDR + B, p[2] - B - HDR>>}, b)
<1> DEFINE x == <<p[1], B>>
           y == <<p[1] + HDR + B, p[2] - B - HDR>>
           M == (N \ {p}) \union {x, y}
<1> USE HeapSizes
<1>1. p \in Node /\ p[1] \in Nat /\ p[2] \in Nat
  BY NodeForm DEF Tiles
<1>2. /\ x \in Node /\ y \in Node /\ x[1] = p[1] /\ Fin(x) = y[1] /\ Fin(y) = Fin(p)
      /\ y[1] \in Nat /\ p[1] < y[1] /\ y[1] <= p[1] + HDR + p[2] /\ Fin(p) = p[1] + HDR + p[2]
      /\ x # y /\ y[1] + HDR <= Fin(p)
  BY <1>1 DEF Node, Fin
<1> HIDE DEF x, y
<1>3. M \subseteq Node
  BY <1>2 DEF Tiles
<1>4. ASSUME NEW n \in M PROVE Fin(n) <= b /\ (Fin(n) = b \/ \E o \in M : o[1] = Fin(n))
  <2>1. CASE n = x
    <3>1. Fin(p) <= b
      BY DEF Tiles
    <3> QED BY <1>1, <1>2, <2>1, <3>1
  <2>2. CASE n # x
    <3>1. PICK m \in N : Fin(m) = Fin(n)
      BY <1>2, <2>2
    <3>2. Fin(n) <= b /\ (Fin(n) = b \/ \E o \in N : o[1] = Fin(n))
      BY <3>1 DEF Tiles
    <3>3. ASSUME NEW o \in N PROVE \E u \in M : u[1] = o[1]
      BY <1>2
    <3> QED BY <3>2, <3>3
  <2> QED BY <2>1, <2>2
<1>5. ASSUME NEW n \in N \ {p} PROVE (Fin(n) <= x[1] /\ Fin(n) <= y[1]) \/ (Fin(x) <= n[1] /\ Fin(y) <= n[1])
  <2>1. n \in Node
    BY DEF Tiles
  <2>2. Fin(n) <= p[1] \/ Fin(p) <= n[1]
    BY DEF Tiles
  <2>3. Fin(n) \in Nat /\ n[1] \in Nat
    BY <2>1, NodeForm DEF Fin
  <2> QED BY <1>1, <1>2, <2>2, <2>3
<1>6. ASSUME NEW n \in M, NEW o \in M, n # o PROVE Fin(n) <= o[1] \/ Fin(o) <= n[1]
  <2>1. CASE n \in N \ {p} /\ o \in N \ {p}
    BY <1>6, <2>1 DEF Tiles
  <2>2. CASE n \in {x, y} /\ o \in {x, y}
    BY <1>1, <1>2, <1>6, <2>2
  <2>3. CASE n \in {x, y} /\ o \in N \ {p}
    BY <1>5, <2>3
  <2>4. CASE n \in N \ {p} /\ o \in {x, y}
    BY <1>5, <2>4
  <2> QED BY <2>1, <2>2, <2>3, <2>4
<1> QED BY <1>3, <1>4, <1>6 DEF Tiles, x, y

\* coalesce_free_list joins a node to the one that ends where it starts.
LEMMA MergeTiles ==
    ASSUME NEW b \in Nat, NEW N, Tiles(N, b), NEW p \in N, NEW q \in N, Fin(p) = q[1]
    PROVE  Tiles((N \ {p, q}) \union {<<p[1], p[2] + HDR + q[2]>>}, b)
<1> DEFINE x == <<p[1], p[2] + HDR + q[2]>>
           M == (N \ {p, q}) \union {x}
<1> USE HeapSizes
<1>1. /\ p \in Node /\ p[1] \in Nat /\ p[2] \in Nat
      /\ q \in Node /\ q[1] \in Nat /\ q[2] \in Nat
  BY NodeForm DEF Tiles
<1>2. /\ x \in Node /\ x[1] = p[1] /\ Fin(x) = Fin(q) /\ Fin(p) = q[1]
      /\ Fin(p) \in Nat /\ Fin(q) \in Nat /\ p[1] < Fin(p) /\ q[1] < Fin(q)
  BY <1>1 DEF Node, Fin
<1> HIDE DEF x
<1>3. M \subseteq Node
  BY <1>2 DEF Tiles
<1>4. ASSUME NEW n \in M PROVE Fin(n) <= b /\ (Fin(n) = b \/ \E o \in M : o[1] = Fin(n))
  <2>1. PICK m \in N : Fin(m) = Fin(n) /\ m # p
    BY <1>1, <1>2
  <2>2. Fin(n) <= b /\ (Fin(n) = b \/ \E o \in N : o[1] = Fin(n))
    BY <2>1 DEF Tiles
  <2>3. Fin(n) # q[1]
    BY <1>2, <2>1, StartsDiffer
  <2>4. ASSUME NEW o \in N, o[1] = Fin(n) PROVE \E u \in M : u[1] = o[1]
    <3>1. CASE o = p
      BY <1>2, <3>1
    <3>2. CASE o # p
      BY <2>3, <2>4, <3>2
    <3> QED BY <3>1, <3>2
  <2> QED BY <2>2, <2>4
<1>5. ASSUME NEW n \in N \ {p, q} PROVE Fin(n) <= x[1] \/ Fin(x) <= n[1]
  <2>1. n \in Node
    BY DEF Tiles
  <2>2. (Fin(n) <= p[1] \/ Fin(p) <= n[1]) /\ (Fin(n) <= q[1] \/ Fin(q) <= n[1])
    BY DEF Tiles
  <2>3. Fin(n) \in Nat /\ n[1] \in Nat /\ n[1] < Fin(n)
    BY <2>1, NodeForm DEF Fin
  <2> QED BY <1>1, <1>2, <2>2, <2>3
<1>6. ASSUME NEW n \in M, NEW o \in M, n # o PROVE Fin(n) <= o[1] \/ Fin(o) <= n[1]
  <2>1. CASE n # x /\ o # x
    BY <1>6, <2>1 DEF Tiles
  <2>2. CASE n = x
    BY <1>5, <1>6, <2>2
  <2>3. CASE o = x
    BY <1>5, <1>6, <2>3
  <2> QED BY <2>1, <2>2, <2>3
<1> QED BY <1>3, <1>4, <1>6 DEF Tiles, x

\* common_alloc adds a node of s bytes at the end of the heap.
LEMMA GrowTiles ==
    ASSUME NEW b \in Nat, NEW N, Tiles(N, b), NEW s \in Nat
    PROVE  Tiles(N \union {<<b, s>>}, b + HDR + s)
<1> DEFINE x == <<b, s>>
           M == N \union {x}
<1> USE HeapSizes
<1>1. x \in Node /\ x[1] = b /\ Fin(x) = b + HDR + s
  BY DEF Node, Fin
<1> HIDE DEF x
<1>2. ASSUME NEW n \in N PROVE n \in Node /\ Fin(n) \in Nat /\ Fin(n) <= b /\ \E o \in M : o[1] = Fin(n)
  <2>1. n \in Node /\ Fin(n) <= b /\ (Fin(n) = b \/ \E o \in N : o[1] = Fin(n))
    BY DEF Tiles
  <2> QED BY <1>1, <2>1, NodeForm DEF Fin
<1>3. \A n \in M : n \in Node /\ Fin(n) <= b + HDR + s
                  /\ (Fin(n) = b + HDR + s \/ \E o \in M : o[1] = Fin(n))
  BY <1>1, <1>2
<1>4. ASSUME NEW n \in M, NEW o \in M, n # o PROVE Fin(n) <= o[1] \/ Fin(o) <= n[1]
  BY <1>1, <1>2, <1>4 DEF Tiles
<1> QED BY <1>3, <1>4 DEF Tiles, x

\* heap_shrink takes k bytes from the node at the end of the heap.
LEMMA ShrinkTiles ==
    ASSUME NEW b \in Nat, NEW N, Tiles(N, b), NEW p \in N, Fin(p) = b,
           NEW k \in Nat, k <= p[2]
    PROVE  Tiles((N \ {p}) \union {<<p[1], p[2] - k>>}, b - k)
<1> DEFINE x == <<p[1], p[2] - k>>
           M == (N \ {p}) \union {x}
<1> USE HeapSizes
<1>1. p \in Node /\ p[1] \in Nat /\ p[2] \in Nat
  BY NodeForm DEF Tiles
<1>2. x \in Node /\ x[1] = p[1] /\ Fin(x) = b - k /\ p[1] < b - k /\ Fin(x) <= b
  BY <1>1 DEF Node, Fin
<1> HIDE DEF x
<1>3. ASSUME NEW n \in N \ {p}
      PROVE  /\ n \in Node /\ Fin(n) \in Nat /\ Fin(n) <= p[1] /\ n[1] \in Nat
             /\ \E o \in M : o[1] = Fin(n)
  <2>1. n \in Node
    BY DEF Tiles
  <2>2. Fin(n) \in Nat /\ n[1] \in Nat /\ n[1] < Fin(n)
    BY <2>1, NodeForm DEF Fin
  <2>3. Fin(n) <= b
    BY DEF Tiles
  <2>4. Fin(n) <= p[1] \/ Fin(p) <= n[1]
    BY DEF Tiles
  <2>5. Fin(n) <= p[1]
    BY <1>1, <2>2, <2>3, <2>4
  <2>6. Fin(n) # b
    BY <1>1, <1>2, <2>5, <2>2
  <2>7. PICK o \in N : o[1] = Fin(n)
    BY <2>6 DEF Tiles
  <2> QED BY <1>2, <2>1, <2>2, <2>5, <2>7
<1>4. \A n \in M : n \in Node /\ Fin(n) <= b - k /\ (Fin(n) = b - k \/ \E o \in M : o[1] = Fin(n))
  BY <1>1, <1>2, <1>3
<1>5. ASSUME NEW n \in M, NEW o \in M, n # o PROVE Fin(n) <= o[1] \/ Fin(o) <= n[1]
  <2>1. CASE n # x /\ o # x
    BY <1>5, <2>1 DEF Tiles
  <2>2. CASE n = x
    BY <1>2, <1>3, <1>5, <2>2
  <2>3. CASE o = x
    BY <1>2, <1>3, <1>5, <2>3
  <2> QED BY <2>1, <2>2, <2>3
<1> QED BY <1>4, <1>5 DEF Tiles, x

(* The free list and the allocations *)

Allocation == [addr : Nat, size : Nat, asked : Nat, contiguous : BOOLEAN]
HeldNodes(H) == {<<a.addr, a.size>> : a \in H}
Ascending(l) == \A i, j \in 1 .. Len(l) : i < j => l[i][1] < l[j][1]

\* The inductive form of HeapTiled, for a free list l, allocations H and an end b.
HeapWF(l, H, b) ==
    /\ l \in Seq(Node) /\ H \subseteq Allocation /\ b \in Nat
    /\ Tiles({<<0, 0>>} \union ToSet(l) \union HeldNodes(H), b)
    /\ Ascending(l)
    /\ \A i \in 1 .. Len(l) : l[i][1] > 0 /\ \A a \in H : l[i][1] # a.addr
    /\ \A a \in H : /\ a.addr > 0 /\ a.asked <= a.size
                     /\ \A c \in H : a.addr = c.addr => a = c

\* The set of a list is the set of its entries.
LEMMA ToSetIs == \A S : \A l \in Seq(S) : ToSet(l) = {l[i] : i \in 1 .. Len(l)}
  BY LenProperties DEF ToSet

\* The entries of a free list, by index and as a set.
LEMMA ListIs ==
    ASSUME NEW l \in Seq(Node)
    PROVE  /\ Len(l) \in Nat
           /\ \A i \in 1 .. Len(l) : l[i] \in Node /\ l[i][1] \in Nat /\ l[i][2] \in Nat /\ l[i] \in ToSet(l)
           /\ \A n \in ToSet(l) : \E i \in 1 .. Len(l) : n = l[i]
<1>1. Len(l) \in Nat /\ \A i \in 1 .. Len(l) : l[i] \in Node
  BY LenProperties, ElementOfSeq
<1> QED BY <1>1, ToSetIs, NodeForm

\* One round of coalesce_free_list.
LEMMA JoinStep ==
    ASSUME NEW acc \in Seq(Node), NEW q \in Node, NEW R, NEW b \in Nat,
           Tiles(ToSet(acc) \union {q} \union R, b), Ascending(acc),
           \A k \in 1 .. Len(acc) : acc[k][1] < q[1],
           \A r \in R : r # q /\ r \notin ToSet(acc)
    PROVE  /\ JoinedTo(acc, q) \in Seq(Node) /\ Len(JoinedTo(acc, q)) > 0
           /\ Tiles(ToSet(JoinedTo(acc, q)) \union R, b)
           /\ Ascending(JoinedTo(acc, q))
           /\ \A k \in 1 .. Len(JoinedTo(acc, q)) :
                 \/ JoinedTo(acc, q)[k][1] = q[1]
                 \/ \E i \in 1 .. Len(acc) : JoinedTo(acc, q)[k][1] = acc[i][1]
           /\ \A n \in ToSet(JoinedTo(acc, q)) : n = q \/ n \in ToSet(acc)
                 \/ \E p \in ToSet(acc) : n[1] = p[1]
<1> DEFINE z == JoinedTo(acc, q)
           p == acc[Len(acc)]
           x == <<p[1], p[2] + HDR + q[2]>>
<1> USE HeapSizes
<1>1. Len(acc) \in Nat /\ q[1] \in Nat /\ q[2] \in Nat
  BY LenProperties, NodeForm
<1>2. CASE acc # <<>> /\ p[1] + HDR + p[2] = q[1]
  <2>1. Len(acc) > 0 /\ Len(acc) \in 1 .. Len(acc)
    BY <1>1, <1>2, EmptySeq
  <2>2. p \in Node /\ p[1] \in Nat /\ p[2] \in Nat /\ p \in ToSet(acc)
    BY <2>1, ListIs
  <2>3. x \in Node /\ x[1] = p[1]
    BY <2>2, <1>1 DEF Node
  <2>4. z = ReplaceAt(acc, Len(acc), x)
    BY <1>2 DEF JoinedTo
  <2> HIDE DEF x, z
  <2>5. /\ z \in Seq(Node) /\ Len(z) = Len(acc)
        /\ \A j \in 1 .. Len(acc) : z[j] = IF j = Len(acc) THEN x ELSE acc[j]
    <3>1. ASSUME NEW k \in 1 .. Len(acc)
          PROVE  /\ ReplaceAt(acc, k, x) \in Seq(Node) /\ Len(ReplaceAt(acc, k, x)) = Len(acc)
                 /\ \A j \in 1 .. Len(acc) :
                       ReplaceAt(acc, k, x)[j] = IF j = k THEN x ELSE acc[j]
      BY <2>3, ReplaceAtIs
    <3> QED BY <2>1, <2>4, <3>1
  <2>6. \A j \in 1 .. Len(acc) : z[j][1] = acc[j][1]
    BY <2>3, <2>5
  <2>7. Ascending(z)
    BY <2>5, <2>6 DEF Ascending
  <2>8. p # q /\ q \notin ToSet(acc)
    BY <1>1, <2>2, ListIs
  <2>9. ToSet(z) = (ToSet(acc) \ {p}) \union {x}
    <3>1. ASSUME NEW j \in 1 .. Len(acc) - 1 PROVE acc[j] # p
      <4>1. acc[j][1] < p[1]
        BY <1>1, <2>1 DEF Ascending
      <4> QED BY <4>1, <2>2
    <3>2. ToSet(z) \subseteq (ToSet(acc) \ {p}) \union {x}
      <4>1. ASSUME NEW j \in 1 .. Len(acc) PROVE z[j] \in (ToSet(acc) \ {p}) \union {x}
        <5>1. CASE j = Len(acc)
          BY <2>5, <5>1
        <5>2. CASE j # Len(acc)
          BY <1>1, <2>5, <3>1, <5>2, ListIs
        <5> QED BY <5>1, <5>2
      <4> QED BY <4>1, <2>5, ListIs
    <3>3. x \in ToSet(z)
      BY <2>1, <2>5, ListIs
    <3>4. ASSUME NEW n \in ToSet(acc) \ {p} PROVE n \in ToSet(z)
      <4>1. PICK j \in 1 .. Len(acc) : n = acc[j]
        BY ListIs
      <4>2. z[j] = n
        BY <2>5, <4>1
      <4> QED BY <4>1, <4>2, <2>5, ListIs
    <3> QED BY <3>2, <3>3, <3>4
  <2>10. Tiles(ToSet(z) \union R, b)
    <3> DEFINE N == ToSet(acc) \union {q} \union R
    <3>1. Fin(p) = q[1] /\ p \in N /\ q \in N
      BY <1>2, <2>2 DEF Fin
    <3>2. Tiles((N \ {p, q}) \union {x}, b)
      BY <3>1, MergeTiles DEF x
    <3>3. ToSet(z) \union R = (N \ {p, q}) \union {x}
      BY <2>2, <2>8, <2>9
    <3> QED BY <3>2, <3>3
  <2>11. \A n \in ToSet(z) : n \in ToSet(acc) \/ \E o \in ToSet(acc) : n[1] = o[1]
    BY <2>2, <2>3, <2>9
  <2> QED BY <2>1, <2>5, <2>6, <2>7, <2>10, <2>11 DEF z
<1>3. CASE ~(acc # <<>> /\ p[1] + HDR + p[2] = q[1])
  <2>1. z = Append(acc, q)
    BY <1>3 DEF JoinedTo
  <2> HIDE DEF z
  <2>2. /\ z \in Seq(Node) /\ Len(z) = Len(acc) + 1 /\ z[Len(acc) + 1] = q
        /\ \A j \in 1 .. Len(acc) : z[j] = acc[j]
    BY <2>1, AppendProperties
  <2>3. Ascending(z)
    BY <1>1, <2>2 DEF Ascending
  <2>4. ToSet(z) = ToSet(acc) \union {q}
    <3>1. ToSet(z) \subseteq ToSet(acc) \union {q}
      <4>1. ASSUME NEW j \in 1 .. Len(z) PROVE z[j] \in ToSet(acc) \union {q}
        <5>1. CASE j = Len(acc) + 1
          BY <2>2, <5>1
        <5>2. CASE j # Len(acc) + 1
          <6>1. j \in 1 .. Len(acc) /\ z[j] = acc[j]
            BY <1>1, <2>2, <5>2
          <6> QED BY <6>1, ListIs
        <5> QED BY <5>1, <5>2
      <4> QED BY <4>1, <2>2, ListIs
    <3>2. q \in ToSet(z)
      BY <1>1, <2>2, ListIs
    <3>3. ASSUME NEW n \in ToSet(acc) PROVE n \in ToSet(z)
      <4>1. PICK j \in 1 .. Len(acc) : n = acc[j]
        BY ListIs
      <4>2. j \in 1 .. Len(z) /\ z[j] = n
        BY <1>1, <2>2, <4>1
      <4> QED BY <4>2, <2>2, ListIs
    <3> QED BY <3>1, <3>2, <3>3
  <2>5. \A k \in 1 .. Len(z) : z[k][1] = q[1] \/ \E i \in 1 .. Len(acc) : z[k][1] = acc[i][1]
    BY <1>1, <2>2
  <2> QED BY <1>1, <2>2, <2>3, <2>4, <2>5 DEF z
<1> QED BY <1>2, <1>3

\* JoinedTo makes a list of nodes.
LEMMA JoinType ==
    ASSUME NEW acc \in Seq(Node), NEW q \in Node
    PROVE  JoinedTo(acc, q) \in Seq(Node)
<1> DEFINE p == acc[Len(acc)]
           x == <<p[1], p[2] + HDR + q[2]>>
<1>1. CASE acc # <<>> /\ p[1] + HDR + p[2] = q[1]
  <2>1. Len(acc) \in 1 .. Len(acc)
    BY <1>1, EmptySeq, LenProperties
  <2>2. x \in Node
    BY <2>1, ListIs, NodeForm, HeapSizes DEF Node
  <2>3. JoinedTo(acc, q) = ReplaceAt(acc, Len(acc), x)
    BY <1>1 DEF JoinedTo
  <2> HIDE DEF x
  <2>4. \A k \in 1 .. Len(acc) : ReplaceAt(acc, k, x) \in Seq(Node)
    BY <2>2, ReplaceAtIs
  <2> QED BY <2>1, <2>3, <2>4
<1>2. CASE ~(acc # <<>> /\ p[1] + HDR + p[2] = q[1])
  <2>1. JoinedTo(acc, q) = Append(acc, q)
    BY <1>2 DEF JoinedTo
  <2> QED BY <2>1, AppendProperties
<1> QED BY <1>1, <1>2

\* The rounds of coalesce_free_list.
LEMMA CoalesceRounds ==
    ASSUME NEW l \in Seq(Node)
    PROVE  \E c \in [0 .. Len(l) -> Seq(Node)] :
              /\ c[0] = <<>>
              /\ \A i \in 1 .. Len(l) : c[i] = JoinedTo(c[i - 1], l[i])
              /\ coalesce_free_list(l) = c[Len(l)]
<1> DEFINE n == Len(l)
           S == Seq(Node)
           F == [x \in (1 .. n) \X S |-> JoinedTo(x[2], l[x[1]])]
           G(g) == g = [i \in 0 .. n |-> IF i = 0 THEN <<>> ELSE JoinedTo(g[i - 1], l[i])]
           A == CHOOSE g : G(g)
<1>1. n \in Nat /\ <<>> \in S /\ \A i \in 1 .. n : l[i] \in Node
  BY ListIs, EmptySeq
<1>2. F \in [(1 .. n) \X S -> S]
  BY <1>1, JoinType
<1>3. coalesce_free_list(l) = A[n]
  BY DEF coalesce_free_list
<1> HIDE DEF S, n
<1>4. PICK c : c \in [0 .. n -> S] /\ c[0] = <<>> /\ \A i \in 1 .. n : c[i] = F[<<i, c[i - 1]>>]
  <2> HIDE DEF F
  <2>1. PICK c : c \in Rounds(n, S, <<>>, F)
    BY <1>1, <1>2, LoopHasValues
  <2> QED BY <2>1 DEF Rounds
<1>5. \A i \in 1 .. n : c[i] = JoinedTo(c[i - 1], l[i])
  BY <1>1, <1>4
<1>6. G(c)
  BY <1>1, <1>4, <1>5
<1>7. G(A)
  BY <1>6
<1> HIDE DEF A
<1>8. /\ A[0] = <<>> /\ \A i \in 1 .. n : A[i] = JoinedTo(A[i - 1], l[i])
      /\ A = [i \in 0 .. n |-> A[i]]
  BY <1>1, <1>7
<1>9. A \in [0 .. n -> S]
  <2> DEFINE T == {i \in 0 .. n : A[i] \in S}
  <2>1. 0 \in T
    BY <1>1, <1>8
  <2>2. \A i \in 0 .. n - 1 : i \in T => i + 1 \in T
    <3> SUFFICES ASSUME NEW i \in 0 .. n - 1, i \in T PROVE i + 1 \in T
      OBVIOUS
    <3>1. i + 1 \in 1 .. n /\ (i + 1) - 1 = i
      BY <1>1
    <3>2. A[i + 1] = JoinedTo(A[i], l[i + 1])
      BY <1>8, <3>1
    <3>3. A[i + 1] \in S
      BY <1>1, <3>1, <3>2, JoinType DEF S
    <3> QED BY <3>1, <3>3, <1>1
  <2> HIDE DEF T
  <2>3. \A i \in 0 .. n : i \in T
    BY <1>1, <2>1, <2>2, InductionUpTo
  <2> QED BY <1>8, <2>3 DEF T
<1> QED BY <1>3, <1>8, <1>9 DEF n, S

\* coalesce_free_list changes the cover, but it still is one.
LEMMA CoalesceKeeps ==
    ASSUME NEW l, NEW H, NEW b, HeapWF(l, H, b)
    PROVE  /\ HeapWF(coalesce_free_list(l), H, b)
           /\ Len(l) > 0 => Len(coalesce_free_list(l)) > 0
<1> DEFINE n == Len(l)
           Rest(i) == {l[j] : j \in i + 1 .. n} \union {<<0, 0>>} \union HeldNodes(H)
<1> USE HeapSizes
<1>1. /\ l \in Seq(Node) /\ n \in Nat /\ b \in Nat /\ Ascending(l)
      /\ \A i \in 1 .. n : l[i] \in Node /\ l[i][1] \in Nat /\ l[i] \in ToSet(l)
  BY ListIs DEF HeapWF
<1>2. PICK c \in [0 .. n -> Seq(Node)] :
         /\ c[0] = <<>>
         /\ \A i \in 1 .. n : c[i] = JoinedTo(c[i - 1], l[i])
         /\ coalesce_free_list(l) = c[n]
  BY <1>1, CoalesceRounds
<1> DEFINE Starts(i) == \A k \in 1 .. Len(c[i]) : \E j \in 1 .. i : c[i][k][1] = l[j][1]
           P(i) == /\ c[i] \in Seq(Node) /\ (i > 0 => Len(c[i]) > 0)
                   /\ Tiles(ToSet(c[i]) \union Rest(i), b)
                   /\ Ascending(c[i]) /\ Starts(i)
           T == {i \in 0 .. n : P(i)}
<1>3. 0 \in T
  <2>1. Len(c[0]) = 0 /\ c[0] \in Seq(Node) /\ ToSet(c[0]) = {}
    BY <1>2, EmptySeq, ToSetIs
  <2>2. Rest(0) = {<<0, 0>>} \union ToSet(l) \union HeldNodes(H)
    BY <1>1, ToSetIs
  <2>3. Tiles(ToSet(c[0]) \union Rest(0), b)
    BY <2>1, <2>2 DEF HeapWF
  <2>4. Ascending(c[0]) /\ Starts(0)
    BY <2>1 DEF Ascending
  <2>5. P(0)
    BY <2>1, <2>3, <2>4
  <2>6. 0 \in 0 .. n
    BY <1>1
  <2> HIDE DEF P
  <2> QED BY <2>5, <2>6
<1>4. ASSUME NEW i \in 0 .. n - 1, i \in T PROVE i + 1 \in T
  <2> DEFINE q == l[i + 1]
             acc == c[i]
  <2>1. i + 1 \in 1 .. n /\ (i + 1) - 1 = i /\ i \in 0 .. n /\ i + 1 \in 0 .. n
    BY <1>1
  <2>2. c[i + 1] = JoinedTo(acc, q)
    BY <1>2, <2>1
  <2>3. q \in Node /\ acc \in Seq(Node) /\ Ascending(acc) /\ Len(acc) \in Nat /\ Starts(i)
    BY <1>1, <1>4, <2>1, ListIs
  <2>4. {l[j] : j \in i + 1 .. n} = {q} \union {l[j] : j \in (i + 1) + 1 .. n}
    BY <1>1, <2>1
  <2>5. Tiles(ToSet(acc) \union {q} \union Rest(i + 1), b)
    <3>1. ToSet(acc) \union Rest(i) = ToSet(acc) \union {q} \union Rest(i + 1)
      BY <2>4
    <3>2. Tiles(ToSet(acc) \union Rest(i), b)
      BY <1>4
    <3> QED BY <3>1, <3>2
  <2>6. \A k \in 1 .. Len(acc) : acc[k][1] < q[1]
    <3> SUFFICES ASSUME NEW k \in 1 .. Len(acc) PROVE acc[k][1] < q[1]
      OBVIOUS
    <3>1. PICK j \in 1 .. i : acc[k][1] = l[j][1]
      BY <2>3
    <3>2. j \in 1 .. n /\ j < i + 1
      BY <1>1
    <3> QED BY <1>1, <2>1, <3>1, <3>2 DEF Ascending
  <2>7. ASSUME NEW r \in Rest(i + 1) PROVE r # q /\ r \notin ToSet(acc)
    <3>1. \A k \in 1 .. Len(acc) : \E j \in 1 .. n : j < i + 1 /\ acc[k][1] = l[j][1]
      BY <1>1, <2>3
    <3>2. CASE r \in {l[j] : j \in (i + 1) + 1 .. n}
      <4>1. PICK j \in (i + 1) + 1 .. n : r = l[j]
        BY <3>2
      <4>2. j \in 1 .. n /\ i + 1 < j
        BY <1>1
      <4>3. q[1] < r[1]
        BY <1>1, <2>1, <4>1, <4>2 DEF Ascending
      <4>4. q[1] \in Nat /\ r[1] \in Nat /\ \A k \in 1 .. Len(acc) : acc[k][1] \in Nat
        BY <1>1, <2>1, <2>3, <4>1, <4>2, ListIs
      <4> HIDE DEF q, acc
      <4>5. q # r /\ \A k \in 1 .. Len(acc) : acc[k] # r
        <5>1. q[1] # r[1]
          BY <4>3, <4>4
        <5>2. ASSUME NEW k \in 1 .. Len(acc) PROVE acc[k] # r
          <6>1. acc[k][1] < q[1] /\ acc[k][1] \in Nat
            BY <2>6, <4>4
          <6>2. acc[k][1] # r[1]
            BY <6>1, <4>3, <4>4
          <6> QED BY <6>2
        <5> QED BY <5>1, <5>2
      <4> QED BY <2>3, <4>5, ListIs
    <3>3. CASE r = <<0, 0>>
      <4>1. r[1] = 0 /\ \A j \in 1 .. n : l[j][1] > 0
        BY <3>3 DEF HeapWF
      <4>2. q[1] > 0 /\ \A k \in 1 .. Len(acc) : acc[k][1] > 0
        BY <2>1, <3>1, <4>1
      <4>3. q # r /\ \A k \in 1 .. Len(acc) : acc[k] # r
        BY <4>1, <4>2
      <4> QED BY <2>3, <4>3, ListIs
    <3>4. CASE r \in HeldNodes(H)
      <4>1. PICK a \in H : r = <<a.addr, a.size>>
        BY <3>4 DEF HeldNodes
      <4>2. r[1] = a.addr /\ \A j \in 1 .. n : l[j][1] # a.addr
        BY <4>1 DEF HeapWF
      <4>3. q[1] # r[1] /\ \A k \in 1 .. Len(acc) : acc[k][1] # r[1]
        BY <2>1, <3>1, <4>2
      <4>4. q # r /\ \A k \in 1 .. Len(acc) : acc[k] # r
        BY <4>3
      <4> QED BY <2>3, <4>4, ListIs
    <3> QED BY <3>2, <3>3, <3>4
  <2>8. /\ c[i + 1] \in Seq(Node) /\ Len(c[i + 1]) > 0
        /\ Tiles(ToSet(c[i + 1]) \union Rest(i + 1), b)
        /\ Ascending(c[i + 1])
        /\ \A k \in 1 .. Len(c[i + 1]) :
              c[i + 1][k][1] = q[1] \/ \E m \in 1 .. Len(acc) : c[i + 1][k][1] = acc[m][1]
    <3> DEFINE R == Rest(i + 1)
    <3>1. /\ Tiles(ToSet(acc) \union {q} \union R, b)
          /\ \A r \in R : r # q /\ r \notin ToSet(acc)
      BY <2>5, <2>7
    <3> HIDE DEF q, acc, R
    <3>2. /\ JoinedTo(acc, q) \in Seq(Node) /\ Len(JoinedTo(acc, q)) > 0
          /\ Tiles(ToSet(JoinedTo(acc, q)) \union R, b)
          /\ Ascending(JoinedTo(acc, q))
          /\ \A k \in 1 .. Len(JoinedTo(acc, q)) :
                \/ JoinedTo(acc, q)[k][1] = q[1]
                \/ \E m \in 1 .. Len(acc) : JoinedTo(acc, q)[k][1] = acc[m][1]
      BY <1>1, <2>3, <2>6, <3>1, JoinStep
    <3> QED BY <2>2, <3>2 DEF R
  <2>9. Starts(i + 1)
    <3> SUFFICES ASSUME NEW k \in 1 .. Len(c[i + 1])
                 PROVE  \E j \in 1 .. i + 1 : c[i + 1][k][1] = l[j][1]
      OBVIOUS
    <3>1. i + 1 \in 1 .. i + 1 /\ \A j \in 1 .. i : j \in 1 .. i + 1
      BY <2>1
    <3>2. CASE c[i + 1][k][1] = q[1]
      BY <3>1, <3>2
    <3>3. CASE \E m \in 1 .. Len(acc) : c[i + 1][k][1] = acc[m][1]
      <4>1. PICK m \in 1 .. Len(acc) : c[i + 1][k][1] = acc[m][1]
        BY <3>3
      <4>2. PICK j \in 1 .. i : acc[m][1] = l[j][1]
        BY <2>3
      <4> QED BY <3>1, <4>1, <4>2
    <3> QED BY <2>8, <3>2, <3>3
  <2> QED BY <2>1, <2>8, <2>9
<1>5. n \in T
  <2> HIDE DEF T, n
  <2>1. n \in Nat /\ n \in 0 .. n
    BY <1>1
  <2>2. \A i \in 0 .. n : i \in T
    BY <2>1, <1>3, <1>4, InductionUpTo
  <2> QED BY <2>1, <2>2
<1>6. P(n)
  BY <1>5 DEF T
<1>7. Rest(n) = {<<0, 0>>} \union HeldNodes(H)
  BY <1>1
<1>8. Tiles({<<0, 0>>} \union ToSet(c[n]) \union HeldNodes(H), b)
  <2>1. ToSet(c[n]) \union Rest(n) = {<<0, 0>>} \union ToSet(c[n]) \union HeldNodes(H)
    BY <1>7
  <2> QED BY <1>6, <2>1
<1>9. \A k \in 1 .. Len(c[n]) : c[n][k][1] > 0 /\ \A a \in H : c[n][k][1] # a.addr
  BY <1>6 DEF HeapWF
<1> QED BY <1>1, <1>2, <1>6, <1>8, <1>9 DEF HeapWF

\* common_alloc's growth of the heap: a node of sz bytes at its end.
LEMMA GrowKeeps ==
    ASSUME NEW l, NEW H, NEW b, HeapWF(l, H, b), NEW sz \in Nat
    PROVE  HeapWF(Append(l, <<b, sz>>), H, b + HDR + sz)
<1> DEFINE x == <<b, sz>>
           z == Append(l, x)
           N == {<<0, 0>>} \union ToSet(l) \union HeldNodes(H)
<1> USE HeapSizes
<1>1. l \in Seq(Node) /\ b \in Nat /\ Ascending(l) /\ Tiles(N, b) /\ H \subseteq Allocation
  BY DEF HeapWF
<1>2. x \in Node /\ x[1] = b
  BY <1>1 DEF Node
<1>3. Tiles(N \union {x}, b + HDR + sz)
  BY <1>1, GrowTiles
<1>4. \A n \in N : n[1] \in Nat /\ n[1] < b
  <2> SUFFICES ASSUME NEW n \in N PROVE n[1] \in Nat /\ n[1] < b
    OBVIOUS
  <2>1. n \in Node /\ Fin(n) <= b
    BY <1>1 DEF Tiles
  <2> QED BY <1>1, <2>1, NodeForm DEF Fin
<1>5. Len(l) \in Nat /\ \A i \in 1 .. Len(l) : l[i] \in N
  BY <1>1, ListIs
<1>6. \A a \in H : a.addr < b
  <2> SUFFICES ASSUME NEW a \in H PROVE a.addr < b
    OBVIOUS
  <2>1. <<a.addr, a.size>> \in N
    BY DEF HeldNodes
  <2> HIDE DEF N
  <2>2. <<a.addr, a.size>>[1] < b
    BY <1>4, <2>1
  <2> QED BY <2>2
<1> HIDE DEF x, z
<1>7. /\ z \in Seq(Node) /\ Len(z) = Len(l) + 1 /\ z[Len(l) + 1] = x
      /\ \A j \in 1 .. Len(l) : z[j] = l[j]
  BY <1>1, <1>2, AppendProperties DEF z
<1>8. ToSet(z) = ToSet(l) \union {x}
  <2>1. ASSUME NEW j \in 1 .. Len(z) PROVE z[j] \in ToSet(l) \union {x}
    <3>1. CASE j = Len(l) + 1
      BY <1>7, <3>1
    <3>2. CASE j # Len(l) + 1
      <4>1. j \in 1 .. Len(l) /\ z[j] = l[j]
        BY <1>5, <1>7, <3>2
      <4> QED BY <1>1, <4>1, ListIs
    <3> QED BY <3>1, <3>2
  <2>2. ASSUME NEW j \in 1 .. Len(l) PROVE l[j] \in ToSet(z)
    <3>1. j \in 1 .. Len(z) /\ z[j] = l[j]
      BY <1>5, <1>7
    <3> QED BY <1>7, <3>1, ListIs
  <2>3. x \in ToSet(z)
    <3>1. Len(z) \in 1 .. Len(z) /\ z[Len(z)] = x
      BY <1>5, <1>7
    <3> QED BY <1>7, <3>1, ListIs
  <2>4. ToSet(z) \subseteq ToSet(l) \union {x}
    BY <1>7, <2>1, ListIs
  <2>5. ToSet(l) \subseteq ToSet(z)
    BY <1>1, <2>2, ListIs
  <2> QED BY <2>3, <2>4, <2>5
<1>9. Tiles({<<0, 0>>} \union ToSet(z) \union HeldNodes(H), b + HDR + sz)
  <2>1. {<<0, 0>>} \union ToSet(z) \union HeldNodes(H) = N \union {x}
    BY <1>8
  <2> QED BY <1>3, <2>1
<1>10. Ascending(z)
  <2> SUFFICES ASSUME NEW i \in 1 .. Len(z), NEW j \in 1 .. Len(z), i < j
               PROVE  z[i][1] < z[j][1]
    BY DEF Ascending
  <2>1. i \in 1 .. Len(l) /\ z[i] = l[i]
    BY <1>5, <1>7
  <2>2. CASE j = Len(l) + 1
    <3> HIDE DEF N
    <3> QED BY <1>2, <1>4, <1>5, <1>7, <2>1, <2>2
  <2>3. CASE j # Len(l) + 1
    <3>1. j \in 1 .. Len(l) /\ z[j] = l[j]
      BY <1>5, <1>7, <2>3
    <3> QED BY <1>1, <2>1, <3>1 DEF Ascending
  <2> QED BY <2>2, <2>3
<1>11. ASSUME NEW i \in 1 .. Len(z) PROVE z[i][1] > 0 /\ \A a \in H : z[i][1] # a.addr
  <2>1. CASE i = Len(l) + 1
    <3>1. z[i][1] = b
      BY <1>2, <1>7, <2>1
    <3>2. b > 0
      <4>1. <<0, 0>> \in N /\ <<0, 0>>[1] = 0
        OBVIOUS
      <4> HIDE DEF N
      <4> QED BY <1>1, <1>4, <4>1
    <3>3. \A a \in H : a.addr \in Nat
      BY <1>1 DEF Allocation
    <3> QED BY <1>1, <1>6, <3>1, <3>2, <3>3
  <2>2. CASE i # Len(l) + 1
    <3>1. i \in 1 .. Len(l) /\ z[i] = l[i]
      BY <1>5, <1>7, <2>2
    <3> QED BY <3>1 DEF HeapWF
  <2> QED BY <2>1, <2>2
<1>12. /\ b + HDR + sz \in Nat
       /\ \A a \in H : /\ a.addr > 0 /\ a.asked <= a.size
                        /\ \A c \in H : a.addr = c.addr => a = c
  BY <1>1 DEF HeapWF
<1>13. HeapWF(z, H, b + HDR + sz)
  BY <1>1, <1>7, <1>9, <1>10, <1>11, <1>12 DEF HeapWF
<1> QED BY <1>13 DEF z, x

\* What the list operations do to the set of nodes.
LEMMA AscendingDiffer ==
    ASSUME NEW l \in Seq(Node), Ascending(l), NEW i \in 1 .. Len(l), NEW j \in 1 .. Len(l),
           l[i][1] = l[j][1]
    PROVE  i = j
<1>1. Len(l) \in Nat /\ l[i][1] \in Nat /\ l[j][1] \in Nat
  BY ListIs
<1>2. ~(i < j) /\ ~(j < i)
  BY <1>1 DEF Ascending
<1> QED BY <1>1, <1>2

\* In an ascending list a changed node is the only difference of the sets.
LEMMA ReplaceSet ==
    ASSUME NEW l \in Seq(Node), Ascending(l), NEW i \in 1 .. Len(l), NEW e \in Node
    PROVE  ToSet(ReplaceAt(l, i, e)) = (ToSet(l) \ {l[i]}) \union {e}
<1> DEFINE z == ReplaceAt(l, i, e)
<1>1. /\ z \in Seq(Node) /\ Len(z) = Len(l)
      /\ \A j \in 1 .. Len(l) : z[j] = IF j = i THEN e ELSE l[j]
  BY ReplaceAtIs
<1> HIDE DEF z
<1>2. \A j \in 1 .. Len(l) : j # i => l[j] # l[i]
  BY AscendingDiffer
<1>3. \A j \in 1 .. Len(l) : z[j] \in (ToSet(l) \ {l[i]}) \union {e}
  BY <1>1, <1>2, ListIs
<1>4. e \in ToSet(z)
  BY <1>1, ListIs
<1>5. ASSUME NEW n \in ToSet(l) \ {l[i]} PROVE n \in ToSet(z)
  <2>1. PICK j \in 1 .. Len(l) : n = l[j]
    BY ListIs
  <2>2. j \in 1 .. Len(z) /\ z[j] = n
    BY <1>1, <2>1
  <2> QED BY <1>1, <2>2, ListIs
<1>6. ToSet(z) \subseteq (ToSet(l) \ {l[i]}) \union {e}
  BY <1>1, <1>3, ListIs
<1>7. ToSet(z) = (ToSet(l) \ {l[i]}) \union {e}
  BY <1>4, <1>5, <1>6
<1> QED BY <1>7 DEF z

\* In an ascending list a node that is taken out is gone from the set.
LEMMA RemoveSet ==
    ASSUME NEW l \in Seq(Node), Ascending(l), NEW i \in 1 .. Len(l)
    PROVE  ToSet(RemoveAt(l, i)) = ToSet(l) \ {l[i]}
<1> DEFINE z == RemoveAt(l, i)
<1>1. /\ z \in Seq(Node) /\ Len(z) = Len(l) - 1
      /\ \A j \in 1 .. Len(l) - 1 : z[j] = IF j < i THEN l[j] ELSE l[j + 1]
  BY RemoveAtIs
<1> HIDE DEF z
<1>2. Len(l) \in Nat /\ \A j \in 1 .. Len(l) : j # i => l[j] # l[i]
  BY AscendingDiffer, ListIs
<1>3. ASSUME NEW j \in 1 .. Len(z) PROVE z[j] \in ToSet(l) \ {l[i]}
  <2>1. PICK k \in 1 .. Len(l) : k # i /\ z[j] = l[k]
    <3>1. CASE j < i
      BY <1>1, <1>2, <3>1
    <3>2. CASE ~(j < i)
      <4>1. j + 1 \in 1 .. Len(l) /\ j + 1 # i /\ z[j] = l[j + 1]
        BY <1>1, <1>2, <3>2
      <4> QED BY <4>1
    <3> QED BY <3>1, <3>2
  <2> QED BY <1>2, <2>1, ListIs
<1>4. ASSUME NEW n \in ToSet(l) \ {l[i]} PROVE n \in ToSet(z)
  <2>1. PICK j \in 1 .. Len(l) : n = l[j] /\ j # i
    BY ListIs
  <2>2. PICK k \in 1 .. Len(z) : z[k] = n
    <3>1. CASE j < i
      <4>1. j \in 1 .. Len(z) /\ z[j] = n
        BY <1>1, <1>2, <2>1, <3>1
      <4> QED BY <4>1
    <3>2. CASE ~(j < i)
      <4>1. j - 1 \in 1 .. Len(l) - 1 /\ ~(j - 1 < i) /\ (j - 1) + 1 = j
        BY <1>2, <2>1, <3>2
      <4>2. j - 1 \in 1 .. Len(z) /\ z[j - 1] = n
        BY <1>1, <2>1, <4>1
      <4> QED BY <4>2
    <3> QED BY <3>1, <3>2
  <2> QED BY <1>1, <2>2, ListIs
<1>5. ToSet(z) \subseteq ToSet(l) \ {l[i]}
  BY <1>1, <1>3, ListIs
<1>6. ToSet(z) = ToSet(l) \ {l[i]}
  BY <1>4, <1>5
<1> QED BY <1>6 DEF z

\* A node that is put in is added to the set.
LEMMA InsertSet ==
    ASSUME NEW l \in Seq(Node), NEW i \in 1 .. Len(l) + 1, NEW e \in Node
    PROVE  ToSet(InsertAt(l, i, e)) = ToSet(l) \union {e}
<1> DEFINE z == InsertAt(l, i, e)
<1>1. /\ z \in Seq(Node) /\ Len(z) = Len(l) + 1
      /\ \A j \in 1 .. Len(l) + 1 : z[j] = IF j < i THEN l[j] ELSE IF j = i THEN e ELSE l[j - 1]
  BY InsertAtIs
<1> HIDE DEF z
<1>2. Len(l) \in Nat
  BY ListIs
<1>3. ASSUME NEW j \in 1 .. Len(z) PROVE z[j] \in ToSet(l) \union {e}
  <2>1. z[j] = e \/ \E k \in 1 .. Len(l) : z[j] = l[k]
    <3>1. CASE j < i
      BY <1>1, <1>2, <3>1
    <3>2. CASE j > i
      <4>1. j - 1 \in 1 .. Len(l) /\ z[j] = l[j - 1]
        BY <1>1, <1>2, <3>2
      <4> QED BY <4>1
    <3>3. CASE j = i
      BY <1>1, <1>2, <3>3
    <3> QED BY <1>1, <1>2, <3>1, <3>2, <3>3
  <2> QED BY <2>1, ListIs
<1>4. ASSUME NEW n \in ToSet(l) PROVE n \in ToSet(z)
  <2>1. PICK j \in 1 .. Len(l) : n = l[j]
    BY ListIs
  <2>2. PICK k \in 1 .. Len(z) : z[k] = n
    <3>1. CASE j < i
      <4>1. j \in 1 .. Len(z) /\ z[j] = n
        BY <1>1, <1>2, <2>1, <3>1
      <4> QED BY <4>1
    <3>2. CASE ~(j < i)
      <4>1. j + 1 \in 1 .. Len(l) + 1 /\ ~(j + 1 < i) /\ j + 1 # i /\ (j + 1) - 1 = j
        BY <1>2, <2>1, <3>2
      <4>2. j + 1 \in 1 .. Len(z) /\ z[j + 1] = n
        BY <1>1, <2>1, <4>1
      <4> QED BY <4>2
    <3> QED BY <3>1, <3>2
  <2> QED BY <1>1, <2>2, ListIs
<1>5. e \in ToSet(z)
  <2>1. i \in 1 .. Len(z) /\ z[i] = e
    BY <1>1, <1>2
  <2> QED BY <1>1, <2>1, ListIs
<1>6. ToSet(z) \subseteq ToSet(l) \union {e}
  BY <1>1, <1>3, ListIs
<1>7. ToSet(z) = ToSet(l) \union {e}
  BY <1>4, <1>5, <1>6
<1> QED BY <1>7 DEF z

\* The node that common_alloc hands out, for a request of at most `bytes'.
Given(p, bytes, request, contiguous) ==
    [addr |-> p[1], asked |-> request, contiguous |-> contiguous,
     size |-> IF Split(p, bytes) THEN bytes ELSE p[2]]

\* common_alloc takes a node out of the list, whole or split.
LEMMA CarveKeeps ==
    ASSUME NEW l, NEW H, NEW b, HeapWF(l, H, b), NEW i \in 1 .. Len(l),
           NEW bytes \in Nat, NEW request \in Nat, NEW contiguous \in BOOLEAN,
           request <= bytes, bytes <= l[i][2]
    PROVE  /\ HeapWF(Carved(l, l[i], bytes), H \union {Given(l[i], bytes, request, contiguous)}, b)
           /\ Given(l[i], bytes, request, contiguous) \notin H
<1> DEFINE p == l[i]
           got == Given(p, bytes, request, contiguous)
           q == <<p[1] + HDR + bytes, p[2] - bytes - HDR>>
           N == {<<0, 0>>} \union ToSet(l) \union HeldNodes(H)
           G == H \union {got}
<1> USE HeapSizes
<1>1. /\ l \in Seq(Node) /\ b \in Nat /\ Ascending(l) /\ Tiles(N, b) /\ H \subseteq Allocation
      /\ Len(l) \in Nat
  BY ListIs DEF HeapWF
<1>2. p \in Node /\ p[1] \in Nat /\ p[2] \in Nat /\ p \in N /\ p = <<p[1], p[2]>> /\ p \in ToSet(l)
  BY <1>1, ListIs, NodeForm
<1>3. /\ got \in Allocation /\ got.addr = p[1] /\ got.asked <= got.size
      /\ got.size = IF Split(p, bytes) THEN bytes ELSE p[2]
  BY <1>2 DEF Allocation, Given, Split
<1> DEFINE j == CHOOSE k \in DOMAIN l : l[k] = p
<1>4. j = i
  <2>1. DOMAIN l = 1 .. Len(l)
    BY <1>1, LenProperties
  <2>2. j \in 1 .. Len(l) /\ l[j] = p
    BY <2>1
  <2> QED BY <1>1, <2>2, AscendingDiffer
<1>5. Carved(l, p, bytes) = IF Split(p, bytes) THEN ReplaceAt(l, i, q) ELSE RemoveAt(l, i)
  <2>1. Carved(l, p, bytes) = IF Split(p, bytes) THEN ReplaceAt(l, j, q) ELSE RemoveAt(l, j)
    BY DEF Carved
  <2> HIDE DEF j, q, p
  <2> QED BY <1>4, <2>1
<1>6. HeldNodes(G) = HeldNodes(H) \union {<<got.addr, got.size>>}
  BY DEF HeldNodes
<1>7. p \notin HeldNodes(H) /\ p # <<0, 0>>
  BY <1>2 DEF HeapWF, HeldNodes
<1>8. \A a \in G : /\ a.addr > 0 /\ a.asked <= a.size
                    /\ \A c \in G : a.addr = c.addr => a = c
  <2>1. p[1] > 0 /\ \A a \in H : a.addr # p[1]
    BY DEF HeapWF
  <2> HIDE DEF got
  <2>2. \A a \in H : /\ a.addr > 0 /\ a.asked <= a.size
                     /\ \A c \in H : a.addr = c.addr => a = c
    BY DEF HeapWF
  <2> QED BY <1>3, <2>1, <2>2
<1>9. got \notin H
  BY <1>3 DEF HeapWF
<1> HIDE DEF got, j
<1>10. CASE Split(p, bytes)
  <2> DEFINE z == ReplaceAt(l, i, q)
             x == <<p[1], bytes>>
  <2>1. p[2] >= bytes + HDR /\ q \in Node /\ q[1] = p[1] + HDR + bytes
    BY <1>2, <1>10 DEF Split, Node
  <2> HIDE DEF q
  <2>2. /\ z \in Seq(Node) /\ Len(z) = Len(l)
        /\ \A k \in 1 .. Len(l) : z[k] = IF k = i THEN q ELSE l[k]
    BY <1>1, <2>1, ReplaceAtIs
  <2>3. ToSet(z) = (ToSet(l) \ {p}) \union {q}
    BY <1>1, <2>1, ReplaceSet
  <2> HIDE DEF z
  <2>4. Tiles((N \ {p}) \union {x, q}, b)
    <3> HIDE DEF N
    <3> QED BY <1>1, <1>2, <2>1, SplitTiles DEF q
  <2>5. {<<0, 0>>} \union ToSet(z) \union HeldNodes(G) = (N \ {p}) \union {x, q}
    BY <1>3, <1>6, <1>7, <1>10, <2>3
  <2>6. ASSUME NEW n \in N, n # p PROVE n[1] \in Nat /\ n[1] # q[1] /\ (p[1] < n[1] => q[1] < n[1])
    <3>1. n \in Node /\ (Fin(n) <= p[1] \/ Fin(p) <= n[1])
      BY <1>1, <1>2, <2>6 DEF Tiles
    <3>2. n[1] \in Nat /\ n[2] \in Nat /\ n[1] < Fin(n) /\ Fin(n) \in Nat
      BY <3>1, NodeForm DEF Fin
    <3>3. p[1] \in Nat /\ p[2] \in Nat /\ HDR \in Nat /\ HDR > 0 /\ Fin(p) = p[1] + HDR + p[2]
      BY <1>2, NodeForm DEF Fin
    <3> DEFINE p1 == p[1]
               p2 == p[2]
               n1 == n[1]
               fn == Fin(n)
               q1 == q[1]
    <3>4. /\ p1 \in Nat /\ p2 \in Nat /\ n1 \in Nat /\ fn \in Nat /\ n1 < fn /\ bytes \in Nat
          /\ HDR \in Nat /\ HDR > 0 /\ p2 >= bytes + HDR /\ q1 = p1 + HDR + bytes
          /\ (fn <= p1 \/ p1 + HDR + p2 <= n1)
      BY <2>1, <3>1, <3>2, <3>3
    <3> HIDE DEF p1, p2, n1, fn, q1
    <3>5. n1 # q1 /\ (p1 < n1 => q1 < n1)
      BY <3>4
    <3> QED BY <3>2, <3>5 DEF n1, p1, q1
  <2>7. \A k \in 1 .. Len(l) : l[k] \in N /\ (k # i => l[k] # p)
    BY <1>1, AscendingDiffer, ListIs
  <2>8. Ascending(z)
    <3> SUFFICES ASSUME NEW k \in 1 .. Len(l), NEW m \in 1 .. Len(l), k < m
                 PROVE  z[k][1] < z[m][1]
      BY <2>2 DEF Ascending
    <3>1. l[k][1] < l[m][1] /\ l[k][1] \in Nat /\ l[m][1] \in Nat
      BY <1>1, ListIs DEF Ascending
    <3>2. CASE k = i
      <4>1. z[k] = q /\ z[m] = l[m] /\ l[m] \in N /\ l[m] # p
        BY <1>1, <2>2, <2>7, <3>2
      <4> HIDE DEF N
      <4> QED BY <2>6, <3>1, <3>2, <4>1
    <3>3. CASE m = i
      <4>1. z[k] = l[k] /\ z[m] = q
        BY <1>1, <2>2, <3>3
      <4> QED BY <1>2, <2>1, <3>1, <3>3, <4>1
    <3>4. CASE k # i /\ m # i
      BY <2>2, <3>1, <3>4
    <3> QED BY <3>2, <3>3, <3>4
  <2>9. ASSUME NEW k \in 1 .. Len(z) PROVE z[k][1] > 0 /\ \A a \in G : z[k][1] # a.addr
    <3>1. CASE k = i
      <4>1. z[k][1] = q[1] /\ q[1] > 0 /\ q[1] # got.addr
        BY <1>2, <1>3, <2>1, <2>2, <3>1
      <4>2. ASSUME NEW a \in H PROVE q[1] # a.addr
        <5>1. <<a.addr, a.size>> \in N /\ <<a.addr, a.size>> # p
          BY <1>7 DEF HeldNodes
        <5> HIDE DEF N
        <5>2. <<a.addr, a.size>>[1] # q[1]
          BY <2>6, <5>1
        <5> QED BY <5>2
      <4> QED BY <4>1, <4>2
    <3>2. CASE k # i
      <4>1. z[k] = l[k] /\ l[k][1] > 0 /\ \A a \in H : l[k][1] # a.addr
        BY <2>2, <3>2 DEF HeapWF
      <4>2. l[k][1] # p[1]
        BY <1>1, <2>2, <3>2, AscendingDiffer
      <4> QED BY <1>3, <4>1, <4>2
    <3> QED BY <3>1, <3>2
  <2>10. HeapWF(z, G, b)
    BY <1>1, <1>3, <1>8, <2>2, <2>4, <2>5, <2>8, <2>9 DEF HeapWF
  <2> QED BY <1>5, <1>9, <1>10, <2>10 DEF z, got, q
<1>11. CASE ~Split(p, bytes)
  <2> DEFINE z == RemoveAt(l, i)
  <2>1. /\ z \in Seq(Node) /\ Len(z) = Len(l) - 1
        /\ \A k \in 1 .. Len(l) - 1 : z[k] = IF k < i THEN l[k] ELSE l[k + 1]
    BY <1>1, RemoveAtIs
  <2>2. ToSet(z) = ToSet(l) \ {p}
    BY <1>1, RemoveSet
  <2> HIDE DEF z
  <2>3. {<<0, 0>>} \union ToSet(z) \union HeldNodes(G) = N
    BY <1>2, <1>3, <1>6, <1>11, <2>2
  <2>4. Ascending(z)
    <3> SUFFICES ASSUME NEW k \in 1 .. Len(z), NEW m \in 1 .. Len(z), k < m
                 PROVE  z[k][1] < z[m][1]
      BY DEF Ascending
    <3>1. k \in 1 .. Len(l) /\ k + 1 \in 1 .. Len(l) /\ m \in 1 .. Len(l) /\ m + 1 \in 1 .. Len(l)
      BY <1>1, <2>1
    <3>2. l[k][1] < l[m][1] /\ l[k + 1][1] < l[m + 1][1] /\ l[k][1] < l[m + 1][1]
      BY <1>1, <3>1 DEF Ascending
    <3>3. /\ z[k] = IF k < i THEN l[k] ELSE l[k + 1]
          /\ z[m] = IF m < i THEN l[m] ELSE l[m + 1]
      BY <1>1, <2>1
    <3>4. ~(m < i /\ ~(k < i))
      BY <1>1, <3>1
    <3>5. CASE k < i /\ m < i
      BY <3>2, <3>3, <3>5
    <3>6. CASE k < i /\ ~(m < i)
      BY <3>2, <3>3, <3>6
    <3>7. CASE ~(k < i) /\ ~(m < i)
      BY <3>2, <3>3, <3>7
    <3> QED BY <3>4, <3>5, <3>6, <3>7
  <2>5. ASSUME NEW k \in 1 .. Len(z) PROVE z[k][1] > 0 /\ \A a \in G : z[k][1] # a.addr
    <3>1. PICK m \in 1 .. Len(l) : m # i /\ z[k] = l[m]
      <4>1. CASE k < i
        BY <1>1, <2>1, <4>1
      <4>2. CASE ~(k < i)
        <5>1. k + 1 \in 1 .. Len(l) /\ k + 1 # i /\ z[k] = l[k + 1]
          BY <1>1, <2>1, <4>2
        <5> QED BY <5>1
      <4> QED BY <4>1, <4>2
    <3>2. l[m][1] > 0 /\ \A a \in H : l[m][1] # a.addr
      BY DEF HeapWF
    <3>3. l[m][1] # p[1]
      BY <1>1, <3>1, AscendingDiffer
    <3> QED BY <1>3, <3>1, <3>2, <3>3
  <2>6. HeapWF(z, G, b)
    BY <1>1, <1>3, <1>8, <2>1, <2>3, <2>4, <2>5 DEF HeapWF
  <2> QED BY <1>5, <1>9, <1>11, <2>6 DEF z, got
<1> QED BY <1>10, <1>11

\* kfree puts the node of an allocation back into the list.
LEMMA InsertKeeps ==
    ASSUME NEW l, NEW H, NEW b, HeapWF(l, H, b), NEW a \in H
    PROVE  /\ HeapWF(Inserted(l, <<a.addr, a.size>>), H \ {a}, b)
           /\ Len(Inserted(l, <<a.addr, a.size>>)) > 0
<1> DEFINE q == <<a.addr, a.size>>
           S == {i \in DOMAIN l : l[i][1] >= q[1]}
           k == IF S = {} THEN Len(l) + 1 ELSE Min(S)
           z == InsertAt(l, k, q)
           G == H \ {a}
<1>1. /\ l \in Seq(Node) /\ b \in Nat /\ Ascending(l) /\ H \subseteq Allocation
      /\ Len(l) \in Nat /\ DOMAIN l = 1 .. Len(l)
      /\ Tiles({<<0, 0>>} \union ToSet(l) \union HeldNodes(H), b)
      /\ \A i \in 1 .. Len(l) : l[i][1] \in Nat
  BY ListIs, LenProperties DEF HeapWF
<1>2. q \in Node /\ q[1] = a.addr /\ q[1] \in Nat
  BY <1>1 DEF Node, Allocation
<1>3. Inserted(l, q) = z
  BY DEF Inserted
<1> HIDE DEF q
<1>4. /\ k \in 1 .. Len(l) + 1
      /\ \A i \in 1 .. Len(l) : (i < k => l[i][1] < q[1]) /\ (i >= k => l[i][1] > q[1])
  <2>1. ASSUME NEW i \in 1 .. Len(l) PROVE l[i][1] # q[1]
    BY <1>2 DEF HeapWF
  <2>2. CASE S = {}
    <3>1. k = Len(l) + 1
      BY <2>2
    <3>2. \A i \in 1 .. Len(l) : ~(l[i][1] >= q[1])
      BY <1>1, <2>2
    <3> QED BY <1>1, <1>2, <3>1, <3>2
  <2>3. CASE S # {}
    <3>1. k = Min(S)
      BY <2>3
    <3>2. S \subseteq Nat
      BY <1>1
    <3>3. \E x \in S : \A y \in S : x <= y
      BY <2>3, <3>2, LeastNatural
    <3>4. k \in S /\ \A y \in S : k <= y
      BY <3>1, <3>3 DEF Min
    <3>5. k \in 1 .. Len(l) /\ l[k][1] >= q[1]
      BY <1>1, <3>4
    <3> HIDE DEF k
    <3>6. ASSUME NEW i \in 1 .. Len(l), i < k PROVE l[i][1] < q[1]
      <4>1. i \notin S
        BY <1>1, <3>4, <3>5, <3>6
      <4> QED BY <1>1, <1>2, <4>1
    <3>7. ASSUME NEW i \in 1 .. Len(l), i >= k PROVE l[i][1] > q[1]
      <4>1. l[i][1] >= l[k][1]
        BY <1>1, <3>5, <3>7 DEF Ascending
      <4> QED BY <1>1, <1>2, <2>1, <3>5, <4>1
    <3> QED BY <1>1, <3>5, <3>6, <3>7
  <2> QED BY <2>2, <2>3
<1> HIDE DEF k
<1>5. /\ z \in Seq(Node) /\ Len(z) = Len(l) + 1
      /\ \A j \in 1 .. Len(l) + 1 : z[j] = IF j < k THEN l[j] ELSE IF j = k THEN q ELSE l[j - 1]
  BY <1>1, <1>2, <1>4, InsertAtIs
<1>6. ToSet(z) = ToSet(l) \union {q}
  BY <1>1, <1>2, <1>4, InsertSet
<1> HIDE DEF z
<1>7. HeldNodes(G) \union {q} = HeldNodes(H)
  BY DEF HeldNodes, q
<1>8. Tiles({<<0, 0>>} \union ToSet(z) \union HeldNodes(G), b)
  <2>1. {<<0, 0>>} \union ToSet(z) \union HeldNodes(G) = {<<0, 0>>} \union ToSet(l) \union HeldNodes(H)
    BY <1>6, <1>7
  <2> QED BY <1>1, <2>1
<1>9. Ascending(z)
  <2> SUFFICES ASSUME NEW i \in 1 .. Len(z), NEW j \in 1 .. Len(z), i < j
               PROVE  z[i][1] < z[j][1]
    BY DEF Ascending
  <2>1. CASE j < k
    <3>1. i \in 1 .. Len(l) /\ j \in 1 .. Len(l) /\ z[i] = l[i] /\ z[j] = l[j]
      BY <1>1, <1>4, <1>5, <2>1
    <3> QED BY <1>1, <3>1 DEF Ascending
  <2>2. CASE j = k
    <3>1. i \in 1 .. Len(l) /\ i < k /\ z[i] = l[i] /\ z[j] = q
      BY <1>1, <1>4, <1>5, <2>2
    <3> QED BY <1>4, <3>1
  <2>3. CASE j > k /\ i = k
    <3>1. j - 1 \in 1 .. Len(l) /\ j - 1 >= k /\ z[j] = l[j - 1] /\ z[i] = q
      BY <1>1, <1>4, <1>5, <2>3
    <3> QED BY <1>1, <1>2, <1>4, <3>1
  <2>4. CASE j > k /\ i < k
    <3>1. /\ j - 1 \in 1 .. Len(l) /\ z[j] = l[j - 1] /\ i \in 1 .. Len(l) /\ z[i] = l[i]
          /\ i < j - 1
      BY <1>1, <1>4, <1>5, <2>4
    <3> QED BY <1>1, <3>1 DEF Ascending
  <2>5. CASE j > k /\ i > k
    <3>1. /\ j - 1 \in 1 .. Len(l) /\ z[j] = l[j - 1] /\ i - 1 \in 1 .. Len(l) /\ z[i] = l[i - 1]
          /\ i - 1 < j - 1
      BY <1>1, <1>4, <1>5, <2>5
    <3> QED BY <1>1, <3>1 DEF Ascending
  <2> QED BY <1>1, <1>4, <1>5, <2>1, <2>2, <2>3, <2>4, <2>5
<1>10. ASSUME NEW i \in 1 .. Len(z) PROVE z[i][1] > 0 /\ \A c \in G : z[i][1] # c.addr
  <2>1. z[i] = q \/ \E j \in 1 .. Len(l) : z[i] = l[j]
    <3>1. CASE i < k
      BY <1>1, <1>4, <1>5, <3>1
    <3>2. CASE i > k
      <4>1. i - 1 \in 1 .. Len(l) /\ z[i] = l[i - 1]
        BY <1>1, <1>4, <1>5, <3>2
      <4> QED BY <4>1
    <3>3. CASE i = k
      BY <1>1, <1>4, <1>5, <3>3
    <3> QED BY <1>1, <1>4, <1>5, <3>1, <3>2, <3>3
  <2>2. q[1] > 0 /\ \A c \in G : q[1] # c.addr
    BY <1>2 DEF HeapWF
  <2>3. \A j \in 1 .. Len(l) : l[j][1] > 0 /\ \A c \in H : l[j][1] # c.addr
    BY DEF HeapWF
  <2> QED BY <2>1, <2>2, <2>3
<1>11. \A c \in G : /\ c.addr > 0 /\ c.asked <= c.size
                     /\ \A d \in G : c.addr = d.addr => c = d
  BY DEF HeapWF
<1>12. HeapWF(z, G, b)
  BY <1>1, <1>5, <1>8, <1>9, <1>10, <1>11 DEF HeapWF
<1>13. Len(z) > 0
  BY <1>1, <1>5
<1> QED BY <1>3, <1>12, <1>13 DEF q

\* heap_shrink takes bytes from the last node, which ends the heap.
LEMMA ShrinkKeeps ==
    ASSUME NEW l, NEW H, NEW b, HeapWF(l, H, b), NEW i \in 1 .. Len(l),
           NEW k \in Nat, k <= l[i][2], k = 0 \/ Fin(l[i]) = b
    PROVE  HeapWF(ReplaceAt(l, i, <<l[i][1], l[i][2] - k>>), H, b - k)
<1> DEFINE p == l[i]
           x == <<p[1], p[2] - k>>
           z == ReplaceAt(l, i, x)
           N == {<<0, 0>>} \union ToSet(l) \union HeldNodes(H)
<1> USE HeapSizes
<1>1. /\ l \in Seq(Node) /\ b \in Nat /\ Ascending(l) /\ H \subseteq Allocation
      /\ Len(l) \in Nat /\ Tiles(N, b)
  BY ListIs DEF HeapWF
<1>2. p \in Node /\ p[1] \in Nat /\ p[2] \in Nat /\ p \in ToSet(l) /\ p = <<p[1], p[2]>>
  BY <1>1, ListIs, NodeForm
<1>3. x \in Node /\ x[1] = p[1]
  BY <1>2 DEF Node
<1> HIDE DEF x
<1>4. /\ z \in Seq(Node) /\ Len(z) = Len(l)
      /\ \A j \in 1 .. Len(l) : z[j] = IF j = i THEN x ELSE l[j]
  BY <1>1, <1>3, ReplaceAtIs
<1>5. ToSet(z) = (ToSet(l) \ {p}) \union {x}
  BY <1>1, <1>3, ReplaceSet
<1> HIDE DEF z
<1>6. \A j \in 1 .. Len(l) : z[j][1] = l[j][1]
  BY <1>3, <1>4
<1>7. p \notin HeldNodes(H) /\ p # <<0, 0>>
  BY <1>2 DEF HeapWF, HeldNodes
<1>8. {<<0, 0>>} \union ToSet(z) \union HeldNodes(H) = (N \ {p}) \union {x}
  BY <1>5, <1>7
<1>9. Tiles((N \ {p}) \union {x}, b - k) /\ b - k \in Nat
  <2>1. CASE k = 0
    <3>1. x = p /\ b - k = b
      BY <1>1, <1>2, <2>1 DEF x
    <3>2. (N \ {p}) \union {x} = N
      BY <1>2, <3>1
    <3> QED BY <1>1, <3>1, <3>2
  <2>2. CASE Fin(p) = b
    <3>1. p \in N
      BY <1>2
    <3> HIDE DEF N
    <3>2. Tiles((N \ {p}) \union {x}, b - k)
      BY <1>1, <2>2, <3>1, ShrinkTiles DEF x
    <3>3. b - k \in Nat
      BY <1>1, <1>2, <2>2 DEF Fin
    <3> QED BY <3>2, <3>3
  <2> QED BY <2>1, <2>2
<1>10. Ascending(z)
  BY <1>1, <1>4, <1>6 DEF Ascending
<1>11. /\ \A j \in 1 .. Len(z) : z[j][1] > 0 /\ \A a \in H : z[j][1] # a.addr
       /\ \A a \in H : /\ a.addr > 0 /\ a.asked <= a.size
                        /\ \A c \in H : a.addr = c.addr => a = c
  BY <1>4, <1>6 DEF HeapWF
<1>12. HeapWF(z, H, b - k)
  BY <1>1, <1>4, <1>8, <1>9, <1>10, <1>11 DEF HeapWF
<1> QED BY <1>12 DEF z, x

\* Sizes in whole units.
LEMMA WholeUnits ==
    ASSUME NEW a \in Nat, NEW d \in Nat, d > 0
    PROVE  /\ (a + d - 1) \div d \in Nat
           /\ ((a + d - 1) \div d) * d \in Nat
           /\ ((a + d - 1) \div d) * d >= a
           /\ a > 0 => (a + d - 1) \div d > 0
<1> DEFINE e == a + d - 1
           q == e \div d
<1>1. e \in Nat
  OBVIOUS
<1>2. q \in Nat /\ e < q * d + d /\ q * d <= e
  <2> HIDE DEF e
  <2> QED BY <1>1
<1> HIDE DEF q
<1>3. q * d \in Nat
  BY <1>2
<1>4. q * d >= a
  BY <1>2, <1>3
<1>5. ASSUME a > 0 PROVE q > 0
  <2>1. CASE q = 0
    <3>1. q * d = 0
      BY <2>1
    <3> QED BY <1>2, <1>5, <3>1
  <2> QED BY <1>2, <2>1
<1> QED BY <1>2, <1>3, <1>4, <1>5 DEF q

\* Rounding down to a multiple of d loses less than d.
LEMMA UnitsWithin ==
    \A a, d \in Nat : d > 0 => /\ a \div d \in Nat /\ (a \div d) * d \in Nat
                              /\ (a \div d) * d <= a /\ a < (a \div d) * d + d
  OBVIOUS

\* The rounding of common_alloc never asks for less than the caller did.
LEMMA RoundedIs ==
    ASSUME NEW request \in Nat
    PROVE  Rounded(request) \in Nat /\ Rounded(request) >= request
  BY HeapSizes, WholeUnits DEF Rounded

\* The pages by which the heap grows hold the request and its header.
LEMMA PagesToAlloc ==
    ASSUME NEW bytes \in Nat
    PROVE  /\ pages_to_alloc(bytes) \in Nat /\ pages_to_alloc(bytes) > 0
           /\ pages_to_alloc(bytes) * PAGE_SIZE \in Nat
           /\ pages_to_alloc(bytes) * PAGE_SIZE >= bytes + HDR
<1>1. bytes + HDR \in Nat /\ bytes + HDR > 0 /\ PAGE_SIZE \in Nat /\ PAGE_SIZE > 0
  BY HeapSizes
<1> QED BY <1>1, WholeUnits DEF pages_to_alloc

\* The first node with room.
LEMMA FirstNodeIs ==
    ASSUME freelist \in Seq(Node), NEW bytes \in Nat
    PROVE  \/ FirstNodeFor(bytes) = NoNode
           \/ \E i \in 1 .. Len(freelist) :
                 FirstNodeFor(bytes) = freelist[i] /\ bytes <= freelist[i][2]
<1> DEFINE fits == {i \in DOMAIN freelist : freelist[i][2] >= bytes}
<1>1. DOMAIN freelist = 1 .. Len(freelist) /\ Len(freelist) \in Nat
  BY LenProperties
<1>2. CASE fits = {}
  BY <1>2 DEF FirstNodeFor
<1>3. CASE fits # {}
  <2>1. fits \subseteq Nat
    BY <1>1
  <2>2. \E x \in fits : \A y \in fits : x <= y
    BY <1>3, <2>1, LeastNatural
  <2>3. Min(fits) \in fits
    BY <2>2 DEF Min
  <2>4. FirstNodeFor(bytes) = freelist[Min(fits)]
    BY <1>3 DEF FirstNodeFor
  <2>5. Min(fits) \in 1 .. Len(freelist) /\ freelist[Min(fits)][2] >= bytes
    BY <1>1, <2>3
  <2>6. freelist[Min(fits)][2] \in Nat
    BY <2>5, ListIs
  <2> QED BY <2>4, <2>5, <2>6
<1> QED BY <1>2, <1>3

HeapOK == HeapWF(freelist, held, brk)

\* common_alloc: a call that gets something leaves a heap in order, and one that stops
\* leaves the heap it found and pages that nobody had.
AllocOutcome(h, request, contiguous, r) ==
    \/ /\ r.got = NULL /\ r.freelist = freelist /\ r.brk = brk
       /\ r.mem = mem /\ r.tlb = tlb[h] /\ r.behind = behind /\ r.lost = {}
    \/ \E n \in Nat :
          /\ n > 0 /\ r.reach = brk + n * PAGE_SIZE /\ FirstFit(mem.taken, n) # NoPage
          /\ r.mem = Grown(mem, n) /\ r.mem.fault
          /\ r.lost = FirstFit(mem.taken, n) .. FirstFit(mem.taken, n) + n - 1
          /\ r.got = NULL /\ r.freelist = freelist /\ r.brk = brk
          /\ r.tlb = tlb[h] /\ r.behind = behind
    \/ /\ r.reach = r.brk /\ r.lost = {}
       /\ r.got \in Allocation /\ r.got \notin held /\ r.got # NULL
       /\ r.got.asked = request /\ r.got.contiguous = contiguous
       /\ HeapWF(r.freelist, held \union {r.got}, r.brk)
       /\ \/ /\ ~contiguous /\ r.brk = brk /\ r.mem = mem /\ r.behind = behind
             /\ r.tlb = Cached(mem, brk, tlb[h])
          \/ \E n \in Nat :
                /\ n > 0 /\ r.brk = brk + n * PAGE_SIZE /\ FirstFit(mem.taken, n) # NoPage
                /\ r.mem = Grown(mem, n) /\ ~r.mem.fault /\ r.behind = Harts \ {h}
                /\ r.tlb = Cached(Grown(mem, n), r.brk, sfence(tlb[h]))
                /\ r.got.addr = brk
\* common_alloc on a heap in order answers NULL, stops, or serves the request from a node of
\* the list, or from new pages, and leaves a heap in order with one allocation more.
LEMMA AllocKeeps ==
    ASSUME HeapOK, NEW h, NEW request \in Nat, NEW contiguous \in BOOLEAN,
           NEW r, r = common_alloc(h, request, contiguous)
    PROVE  AllocOutcome(h, request, contiguous, r)
<1> DEFINE bytes == Rounded(request)
           p == FirstNodeFor(bytes)
           n == pages_to_alloc(bytes)
           grow == NeedsPages(p, contiguous)
<1> USE HeapSizes
<1>1. /\ bytes \in Nat /\ request <= bytes
      /\ n \in Nat /\ n > 0 /\ n * PAGE_SIZE \in Nat /\ n * PAGE_SIZE >= bytes + HDR
  BY RoundedIs, PagesToAlloc
<1>2. /\ freelist \in Seq(Node) /\ brk \in Nat /\ HeapWF(freelist, held, brk)
      /\ Len(freelist) \in Nat
  BY ListIs DEF HeapOK, HeapWF
<1>3. p = NoNode \/ \E i \in 1 .. Len(freelist) : p = freelist[i] /\ bytes <= freelist[i][2]
  BY <1>1, <1>2, FirstNodeIs
<1>4. NULL \notin Allocation
  BY DEF NULL, NoPage, Allocation
<1> HIDE DEF bytes, p, n
<1>5. CASE ~grow
  <2>1. ~contiguous /\ p # NoNode
    BY <1>5 DEF NeedsPages
  <2>2. PICK i \in 1 .. Len(freelist) : p = freelist[i] /\ bytes <= freelist[i][2]
    BY <1>3, <2>1
  <2> DEFINE got == Given(p, bytes, request, contiguous)
  <2>3. r = [behind |-> behind, mem |-> mem, freelist |-> Carved(freelist, p, bytes), brk |-> brk,
             tlb |-> Cached(mem, brk, tlb[h]), got |-> got, reach |-> brk, stops |-> FALSE,
             lost |-> {}]
    BY <1>5 DEF common_alloc, bytes, p, n, Given
  <2>4. HeapWF(Carved(freelist, p, bytes), held \union {got}, brk) /\ got \notin held
    BY <1>1, <1>2, <2>2, CarveKeeps
  <2>5. got \in Allocation
    BY <2>4 DEF HeapWF
  <2>6. got.asked = request /\ got.contiguous = contiguous
    BY DEF Given
  <2> HIDE DEF got
  <2> QED BY <1>4, <2>1, <2>3, <2>4, <2>5, <2>6 DEF AllocOutcome
<1>6. CASE grow /\ FirstFit(mem.taken, n) = NoPage
  <2>1. r = [mem |-> mem, freelist |-> freelist, brk |-> brk, tlb |-> tlb[h],
             behind |-> behind, got |-> NULL, reach |-> brk, stops |-> FALSE, lost |-> {}]
    BY <1>6 DEF common_alloc, bytes, p, n
  <2> QED BY <2>1 DEF AllocOutcome
<1>8. CASE grow /\ FirstFit(mem.taken, n) # NoPage /\ Grown(mem, n).fault
  <2>1. r = [mem |-> Grown(mem, n), freelist |-> freelist, brk |-> brk, tlb |-> tlb[h],
             behind |-> behind, got |-> NULL, reach |-> brk + n * PAGE_SIZE, stops |-> TRUE,
             lost |-> FirstFit(mem.taken, n) .. FirstFit(mem.taken, n) + n - 1]
    BY <1>8 DEF common_alloc, bytes, p, n
  <2> QED BY <1>1, <1>8, <2>1 DEF AllocOutcome
<1>7. CASE grow /\ FirstFit(mem.taken, n) # NoPage /\ ~Grown(mem, n).fault
  <2> DEFINE node == <<brk, n * PAGE_SIZE - HDR>>
             list == Append(freelist, node)
             got == Given(node, bytes, request, contiguous)
             b == brk + n * PAGE_SIZE
  <2>1. r = [behind |-> Harts \ {h}, mem |-> Grown(mem, n), freelist |-> Carved(list, node, bytes),
             brk |-> b, tlb |-> Cached(Grown(mem, n), b, sfence(tlb[h])), got |-> got,
             reach |-> b, stops |-> FALSE, lost |-> {}]
    BY <1>7 DEF common_alloc, bytes, p, n, Given
  <2>2. n * PAGE_SIZE - HDR \in Nat /\ brk + HDR + (n * PAGE_SIZE - HDR) = b
    BY <1>1, <1>2
  <2>3. HeapWF(list, held, b)
    <3> DEFINE sz == n * PAGE_SIZE - HDR
    <3>1. sz \in Nat /\ brk + HDR + sz = b
      BY <2>2
    <3> HIDE DEF sz, b
    <3>2. HeapWF(Append(freelist, <<brk, sz>>), held, brk + HDR + sz)
      BY <1>2, <3>1, GrowKeeps
    <3> QED BY <3>1, <3>2 DEF sz
  <2>4. node \in Node /\ node[2] = n * PAGE_SIZE - HDR /\ node[1] = brk
    BY <1>2, <2>2 DEF Node
  <2> HIDE DEF node
  <2>5. list \in Seq(Node) /\ Len(list) = Len(freelist) + 1 /\ list[Len(freelist) + 1] = node
    BY <1>2, <2>4, AppendProperties
  <2>6. bytes <= node[2]
    BY <1>1, <2>4
  <2>7. HeapWF(Carved(list, node, bytes), held \union {got}, b) /\ got \notin held
    <3> DEFINE j == Len(freelist) + 1
    <3>1. j \in 1 .. Len(list) /\ list[j] = node
      BY <1>2, <2>5
    <3> HIDE DEF j, list, b
    <3>2. \A i \in 1 .. Len(list) : list[i] = node =>
             HeapWF(Carved(list, node, bytes), held \union {got}, b) /\ got \notin held
      BY <1>1, <2>3, <2>6, CarveKeeps
    <3> QED BY <3>1, <3>2
  <2>8. got \in Allocation
    BY <2>7 DEF HeapWF
  <2>9. got.asked = request /\ got.contiguous = contiguous /\ got.addr = brk
    BY <2>4 DEF Given
  <2> HIDE DEF got
  <2> QED BY <1>1, <1>4, <1>7, <2>1, <2>7, <2>8, <2>9 DEF AllocOutcome
<1> QED BY <1>5, <1>6, <1>7, <1>8

\* kfree: the heap is in order without the allocation, n pages shorter.
FreeOutcome(h, m, a, r, n) ==
    /\ HeapWF(r.freelist, held \ {a}, r.brk)
    /\ n * PAGE_SIZE \in Nat /\ r.brk = brk - n * PAGE_SIZE /\ r.brk > 0
    /\ r.mem = PagesDropped(m, brk \div PAGE_SIZE, n)
    /\ r.tlb = Cached(r.mem, r.brk, tlb[h])
    /\ r.behind = IF n = 0 THEN behind ELSE behind \union (Harts \ {h})
\* kfree of an allocation leaves a heap in order, some pages shorter.
LEMMA FreeKeeps ==
    ASSUME HeapOK, NEW h, NEW m, NEW a \in held, NEW r, r = kfree(h, m, a)
    PROVE  \E n \in Nat : FreeOutcome(h, m, a, r, n)
<1> DEFINE l == coalesce_free_list(Inserted(freelist, <<a.addr, a.size>>))
           last == l[Len(l)]
           all == ShrinkPages(l, brk)
           n == IF m.fault /\ all > 0 THEN 1 ELSE all
           b == brk - n * PAGE_SIZE
<1> USE HeapSizes
<1>1. HeapWF(l, held \ {a}, brk) /\ Len(l) > 0
  <2> DEFINE k == Inserted(freelist, <<a.addr, a.size>>)
  <2>1. HeapWF(k, held \ {a}, brk) /\ Len(k) > 0
    BY InsertKeeps DEF HeapOK
  <2> HIDE DEF k
  <2>2. HeapWF(coalesce_free_list(k), held \ {a}, brk) /\ Len(coalesce_free_list(k)) > 0
    BY <2>1, CoalesceKeeps
  <2> QED BY <2>2 DEF k
<1>2. r = [mem |-> PagesDropped(m, brk \div PAGE_SIZE, n), brk |-> b,
           tlb |-> Cached(PagesDropped(m, brk \div PAGE_SIZE, n), b, tlb[h]),
           behind |-> IF n = 0 THEN behind ELSE behind \union (Harts \ {h}),
           stops |-> m.fault /\ n > 0,
           freelist |-> ReplaceAt(l, Len(l), <<last[1], last[2] - n * PAGE_SIZE>>)]
  BY DEF kfree, heap_shrink
<1> HIDE DEF l
<1>3. /\ l \in Seq(Node) /\ brk \in Nat /\ Len(l) \in 1 .. Len(l)
      /\ last[1] \in Nat /\ last[2] \in Nat
  BY <1>1, ListIs DEF HeapWF
<1>4. n \in Nat /\ n * PAGE_SIZE \in Nat /\ n * PAGE_SIZE <= last[2] /\ (n = 0 \/ Fin(last) = brk)
  <2>1. CASE Fin(last) # brk
    <3>1. all = 0 /\ n = 0
      BY <2>1 DEF ShrinkPages, Fin
    <3> QED BY <1>3, <3>1
  <2>2. CASE Fin(last) = brk
    <3>1. all = last[2] \div PAGE_SIZE
      BY <2>2 DEF ShrinkPages, Fin
    <3> HIDE DEF all, last
    <3>2. all \in Nat /\ all * PAGE_SIZE <= last[2]
      BY <1>3, <3>1, UnitsWithin
    <3>3. n \in Nat /\ n * PAGE_SIZE \in Nat /\ n * PAGE_SIZE <= last[2]
      <4>1. CASE n = all
        BY <3>2, <4>1
      <4>2. CASE all > 0 /\ n = 1
        <5>1. PAGE_SIZE <= all * PAGE_SIZE
          BY <3>2, <4>2
        <5> QED BY <1>3, <3>2, <4>2, <5>1
      <4> QED BY <4>1, <4>2
    <3> QED BY <2>2, <3>3
  <2> QED BY <2>1, <2>2
<1> DEFINE k == n * PAGE_SIZE
<1>5. k \in Nat /\ k <= last[2] /\ (k = 0 \/ Fin(last) = brk) /\ b = brk - k
  BY <1>4
<1> HIDE DEF all, n, k, b
<1>6. HeapWF(ReplaceAt(l, Len(l), <<last[1], last[2] - k>>), held \ {a}, brk - k)
  <2>1. ASSUME NEW i \in 1 .. Len(l), k <= l[i][2], k = 0 \/ Fin(l[i]) = brk
        PROVE  HeapWF(ReplaceAt(l, i, <<l[i][1], l[i][2] - k>>), held \ {a}, brk - k)
    BY <1>1, <1>5, <2>1, ShrinkKeeps
  <2> QED BY <1>3, <1>5, <2>1
<1>7. HeapWF(r.freelist, held \ {a}, r.brk)
  BY <1>2, <1>5, <1>6 DEF k
<1>8. r.brk > 0
  <2>1. Tiles({<<0, 0>>} \union ToSet(r.freelist) \union HeldNodes(held \ {a}), r.brk) /\ r.brk \in Nat
    BY <1>7 DEF HeapWF
  <2>2. Fin(<<0, 0>>) <= r.brk
    BY <2>1 DEF Tiles
  <2> QED BY <2>1, <2>2 DEF Fin
<1>9. /\ n \in Nat /\ n * PAGE_SIZE \in Nat /\ r.brk = brk - n * PAGE_SIZE
      /\ r.mem = PagesDropped(m, brk \div PAGE_SIZE, n)
      /\ r.tlb = Cached(r.mem, r.brk, tlb[h])
      /\ r.behind = IF n = 0 THEN behind ELSE behind \union (Harts \ {h})
  BY <1>2, <1>4, <1>5 DEF b, k
<1>10. FreeOutcome(h, m, a, r, n)
  BY <1>7, <1>8, <1>9 DEF FreeOutcome
<1> QED BY <1>9, <1>10

\* HeapTiled in the words of the inductive form.
LEMMA TiledFromWF == HeapOK => HeapTiled
<1> SUFFICES ASSUME HeapOK PROVE HeapTiled
  OBVIOUS
<1>1. /\ freelist \in Seq(Node) /\ held \subseteq Allocation /\ brk \in Nat /\ Tiles(Nodes, brk)
      /\ Len(freelist) \in Nat /\ DOMAIN freelist = 1 .. Len(freelist)
  <2>1. Nodes = {<<0, 0>>} \union ToSet(freelist) \union HeldNodes(held)
    BY DEF Nodes, HeldNodes
  <2>2. /\ freelist \in Seq(Node) /\ held \subseteq Allocation /\ brk \in Nat
        /\ Tiles({<<0, 0>>} \union ToSet(freelist) \union HeldNodes(held), brk)
    BY DEF HeapOK, HeapWF
  <2> QED BY <2>1, <2>2, LenProperties
<1>2. \A n \in Nodes : LET end == n[1] + HDR + n[2]
                      IN end = brk \/ \E o \in Nodes : o[1] = end
  BY <1>1 DEF Tiles, Fin
<1>3. \A n, o \in Nodes : n # o => n[1] + HDR + n[2] <= o[1] \/ o[1] + HDR + o[2] <= n[1]
  BY <1>1 DEF Tiles, Fin
<1>4. ASSUME NEW a \in held
      PROVE  /\ a.asked <= a.size /\ a.addr > 0
             /\ <<a.addr, a.size>> \notin ToSet(freelist)
             /\ \A b \in held : a # b => a.addr # b.addr
  <2>1. /\ a.asked <= a.size /\ a.addr > 0 /\ \A b \in held : a # b => a.addr # b.addr
        /\ \A i \in 1 .. Len(freelist) : freelist[i][1] # a.addr
    BY DEF HeapOK, HeapWF
  <2>2. \A i \in 1 .. Len(freelist) : freelist[i] # <<a.addr, a.size>>
    BY <2>1
  <2> QED BY <1>1, <2>1, <2>2, ListIs
<1>5. ASSUME NEW i \in DOMAIN freelist
      PROVE  freelist[i][1] > IF i = 1 THEN 0 ELSE freelist[i - 1][1]
  <2>1. i \in 1 .. Len(freelist) /\ freelist[i][1] > 0 /\ Ascending(freelist)
    BY <1>1 DEF HeapOK, HeapWF
  <2>2. CASE i # 1
    <3>1. i - 1 \in 1 .. Len(freelist) /\ i - 1 < i
      BY <1>1, <2>1, <2>2
    <3>2. freelist[i - 1][1] < freelist[i][1]
      BY <2>1, <3>1 DEF Ascending
    <3>3. freelist[i - 1][1] \in Nat /\ freelist[i][1] \in Nat
      BY <1>1, <2>1, <3>1, ListIs
    <3> QED BY <2>2, <3>2, <3>3
  <2> QED BY <2>1, <2>2
<1> QED BY <1>2, <1>3, <1>4, <1>5 DEF HeapTiled

(* Virtual pages and the entries of tables *)

\* A number is known by its quotient and remainder.
LEMMA DivMod ==
    \A d \in Nat \ {0} : \A a \in Nat :
       /\ a \div d \in Nat /\ a % d \in 0 .. d - 1 /\ a = d * (a \div d) + (a % d)
  OBVIOUS

\* Quotient and remainder of a number given by them.
LEMMA DivIs ==
    ASSUME NEW d \in Nat \ {0}, NEW q \in Nat, NEW r \in 0 .. d - 1
    PROVE  (d * q + r) \div d = q /\ (d * q + r) % d = r
  OBVIOUS

\* Dividing twice is dividing by the product.
LEMMA DivTwice ==
    ASSUME NEW d \in Nat \ {0}, NEW a \in Nat
    PROVE  a \div (d * d) = (a \div d) \div d
<1> DEFINE q == a \div d
           p == q \div d
           s == q % d
           r == a % d
<1>1. q \in Nat /\ r \in 0 .. d - 1 /\ a = d * q + r
  BY DivMod
<1> HIDE DEF q, r
<1>2. p \in Nat /\ s \in 0 .. d - 1 /\ q = d * p + s
  BY <1>1, DivMod
<1> HIDE DEF p, s
<1>3. a = (d * d) * p + (d * s + r)
  <2>1. d * (d * p + s) = (d * d) * p + d * s
    BY <1>2
  <2> QED BY <1>1, <1>2, <2>1
<1>4. d * s + r \in 0 .. d * d - 1
  <2>1. d * s <= d * (d - 1)
    BY <1>2
  <2>2. d * (d - 1) = d * d - d
    OBVIOUS
  <2>3. d * s \in Nat /\ d * d \in Nat
    BY <1>2
  <2> QED BY <1>1, <2>1, <2>2, <2>3
<1>5. d * d \in Nat \ {0}
  OBVIOUS
<1> DEFINE e == d * d
           t == d * s + r
<1>6. e \in Nat \ {0} /\ t \in 0 .. e - 1 /\ a = e * p + t
  BY <1>3, <1>4, <1>5
<1> HIDE DEF e, t
<1>7. a \div e = p
  BY <1>2, <1>6, DivIs
<1> QED BY <1>7 DEF e, p, q

\* The three indices of a virtual page are indices, and they name the page.
LEMMA VpnIsIndex ==
    ASSUME NEW v \in VirtualPages
    PROVE  vpn(v, 0) \in Indices /\ vpn(v, 1) \in Indices /\ vpn(v, 2) \in Indices
<1>1. v \in Nat /\ Fanout \in Nat \ {0} /\ Fanout * Fanout \in Nat \ {0}
  BY FanoutAssumption DEF VirtualPages
<1>2. v \div Fanout \in Nat /\ v \div (Fanout * Fanout) \in Nat
  BY <1>1, DivMod
<1>3. \A a \in Nat : a % Fanout \in 0 .. Fanout - 1
  BY <1>1, DivMod
<1> QED BY <1>1, <1>2, <1>3 DEF vpn, Indices

\* A virtual page is known by its three indices.
LEMMA VpnInjective ==
    ASSUME NEW v \in VirtualPages, NEW w \in VirtualPages,
           vpn(v, 0) = vpn(w, 0), vpn(v, 1) = vpn(w, 1), vpn(v, 2) = vpn(w, 2)
    PROVE  v = w
<1> DEFINE F == Fanout
<1>1. F \in Nat \ {0} /\ v \in Nat /\ w \in Nat
  BY FanoutAssumption DEF VirtualPages
<1>2. ASSUME NEW x \in VirtualPages
      PROVE  /\ (x \div F) \div F \in Nat /\ (x \div F) \div F < F
             /\ vpn(x, 2) = (x \div F) \div F
  <2>1. x \in Nat /\ x < F * F * F
    BY <1>1 DEF VirtualPages
  <2> HIDE DEF F
  <2>2. x \div (F * F) = (x \div F) \div F
    BY <1>1, <2>1, DivTwice
  <2> DEFINE e == F * F
             q == x \div e
  <2>3. e \in Nat \ {0}
    BY <1>1
  <2>4. x < e * F
    BY <2>1
  <2> HIDE DEF e
  <2>5. q \in Nat /\ x >= e * q
    <3>1. q \in Nat /\ x % e \in 0 .. e - 1 /\ x = e * q + (x % e)
      BY <2>1, <2>3, DivMod
    <3> DEFINE y == x % e
    <3> HIDE DEF q, y
    <3>2. y \in 0 .. e - 1 /\ x = e * q + y /\ e * q \in Int
      BY <2>3, <3>1 DEF y
    <3> QED BY <2>3, <3>1, <3>2
  <2>6. q < F
    <3> HIDE DEF q
    <3>1. SUFFICES ASSUME q >= F PROVE FALSE
      BY <1>1, <2>5
    <3>2. e * q >= e * F
      BY <1>1, <2>3, <2>5, <3>1
    <3> QED BY <1>1, <2>1, <2>3, <2>4, <2>5, <3>2
  <2>7. q % F = q
    <3> HIDE DEF q
    <3> QED BY <1>1, <2>5, <2>6
  <2>8. vpn(x, 2) = q
    BY <2>7 DEF vpn, e, q, F
  <2> QED BY <2>2, <2>5, <2>6, <2>8 DEF e, q
<1>3. (v \div F) \div F = (w \div F) \div F
  BY <1>2
<1>4. (v \div F) % F = (w \div F) % F /\ v % F = w % F
  BY DEF vpn
<1> HIDE DEF F
<1>5. v \div F \in Nat /\ w \div F \in Nat
  BY <1>1, DivMod
<1>6. v \div F = w \div F
  <2>1. /\ v \div F = F * ((v \div F) \div F) + ((v \div F) % F)
        /\ w \div F = F * ((w \div F) \div F) + ((w \div F) % F)
    BY <1>1, <1>5, DivMod
  <2> QED BY <1>3, <1>4, <2>1
<1>7. v = F * (v \div F) + (v % F) /\ w = F * (w \div F) + (w % F)
  BY <1>1, DivMod
<1> QED BY <1>4, <1>6, <1>7
----------------------------------------------------------------------------
(* Page tables and the page allocator *)

Entry == {Invalid} \union {Branch(p) : p \in Pages} \union {Leaf(x) : x \in Int}
EntryTable == [Indices -> Entry]
TableMaps == UNION {[D -> EntryTable] : D \in SUBSET Pages}
Memory == [taken : SUBSET Pages, last : SUBSET Pages, tables : TableMaps, fault : BOOLEAN]

\* The three kinds of entries.
LEMMA EntryIs ==
    \A e \in Entry : \/ e = Invalid /\ e.kind = "invalid" /\ e.page = NoPage
                     \/ e.kind = "branch" /\ e.page \in Pages /\ e = Branch(e.page)
                     \/ e.kind = "leaf" /\ e.page \in Int /\ e = Leaf(e.page)
  BY DEF Entry, Invalid, Branch, Leaf

\* What mmu.c writes into a table is an entry.
LEMMA EntryMakes ==
    /\ Invalid \in Entry /\ Invalid.kind = "invalid" /\ Invalid.page = NoPage
    /\ \A p \in Pages : Branch(p) \in Entry /\ Branch(p).kind = "branch" /\ Branch(p).page = p
    /\ \A x \in Int : Leaf(x) \in Entry /\ Leaf(x).kind = "leaf" /\ Leaf(x).page = x
  BY DEF Entry, Invalid, Branch, Leaf

\* NULL is no page, and pages are numbers.
LEMMA NoPageIs == NoPage \notin Pages /\ NoPage \in Int /\ Pages \subseteq Int /\ Pages \subseteq Nat
  BY PagesAssumption DEF NoPage, Pages

\* What a member of TableMaps is, and how to show that something is one.
LEMMA TableMapIs ==
    \A f \in TableMaps :
       /\ DOMAIN f \subseteq Pages /\ f = [t \in DOMAIN f |-> f[t]]
       /\ \A t \in DOMAIN f : f[t] \in EntryTable
       /\ \A t \in DOMAIN f : \A i \in Indices : f[t][i] \in Entry
<1> SUFFICES ASSUME NEW f \in TableMaps
             PROVE  /\ DOMAIN f \subseteq Pages /\ f = [t \in DOMAIN f |-> f[t]]
                    /\ \A t \in DOMAIN f : f[t] \in EntryTable
                    /\ \A t \in DOMAIN f : \A i \in Indices : f[t][i] \in Entry
  OBVIOUS
<1>1. PICK D \in SUBSET Pages : f \in [D -> EntryTable]
  BY DEF TableMaps
<1> QED BY <1>1 DEF EntryTable

\* A map from pages to tables is a member of TableMaps.
LEMMA TableMapMakes ==
    ASSUME NEW f, f = [t \in DOMAIN f |-> f[t]], DOMAIN f \subseteq Pages,
           \A t \in DOMAIN f : f[t] \in EntryTable
    PROVE  f \in TableMaps
<1>1. f \in [DOMAIN f -> EntryTable]
  OBVIOUS
<1> QED BY <1>1 DEF TableMaps

\* The fields of a memory.
LEMMA MemoryIs ==
    \A m \in Memory :
       /\ m.taken \subseteq Pages /\ m.last \subseteq Pages /\ m.fault \in BOOLEAN
       /\ m.tables \in TableMaps /\ DOMAIN m.tables \subseteq Pages
       /\ \A t \in DOMAIN m.tables : m.tables[t] \in EntryTable
       /\ \A t \in DOMAIN m.tables : \A i \in Indices : m.tables[t][i] \in Entry
  BY TableMapIs DEF Memory

(* The tree below a root *)

Mid(m, r) == {x \in Pages : \E i \in Indices : m.tables[r][i] = Branch(x)}
Low(m, r) == {x \in Pages : \E t \in Mid(m, r) : \E i \in Indices : m.tables[t][i] = Branch(x)}
Tree(m, r) ==
    /\ {r} \union Mid(m, r) \union Low(m, r) \subseteq DOMAIN m.tables
    /\ r \notin Mid(m, r) /\ r \notin Low(m, r) /\ Mid(m, r) \cap Low(m, r) = {}
    /\ \A t \in {r} \union Mid(m, r) : \A i \in Indices : m.tables[t][i].kind # "leaf"
    /\ \A t \in Low(m, r) : \A i \in Indices : m.tables[t][i].kind # "branch"
    /\ \A t, u \in {r} \union Mid(m, r) : \A i, j \in Indices :
          m.tables[t][i] = m.tables[u][j] /\ m.tables[t][i].kind = "branch" => t = u /\ i = j

\* The tables of a root are the root and the tables one and two links below.
LEMMA TablesOfIs ==
    ASSUME NEW m, NEW r
    PROVE  TablesOf(m, r) = {r} \union Mid(m, r) \union Low(m, r)
<1>1. ASSUME NEW ts
      PROVE  Branches(m, ts) = {x \in Pages : \E t \in ts : \E i \in Indices : m.tables[t][i] = Branch(x)}
  <2> DEFINE B == {x \in Pages : \E t \in ts : \E i \in Indices : m.tables[t][i] = Branch(x)}
  <2>1. ASSUME NEW x \in Branches(m, ts) PROVE x \in B
    <3>1. PICK e \in {m.tables[t][i] : t \in ts, i \in Indices} \cap {Branch(p) : p \in Pages} : x = e.page
      BY DEF Branches
    <3>2. PICK t \in ts, i \in Indices : e = m.tables[t][i]
      BY <3>1
    <3>3. PICK p \in Pages : e = Branch(p)
      BY <3>1
    <3>4. x = p
      BY <3>1, <3>3 DEF Branch
    <3> QED BY <3>2, <3>3, <3>4
  <2>2. ASSUME NEW x \in B PROVE x \in Branches(m, ts)
    <3>1. PICK t \in ts, i \in Indices : m.tables[t][i] = Branch(x)
      OBVIOUS
    <3>2. Branch(x).page = x
      BY DEF Branch
    <3>3. Branch(x) \in {m.tables[u][j] : u \in ts, j \in Indices} \cap {Branch(p) : p \in Pages}
      <4>1. x \in Pages
        OBVIOUS
      <4>2. m.tables[t][i] \in {m.tables[u][j] : u \in ts, j \in Indices}
        BY <3>1
      <4> QED BY <3>1, <4>1, <4>2
    <3> QED BY <3>2, <3>3 DEF Branches
  <2> QED BY <2>1, <2>2
<1>2. Branches(m, {r}) = Mid(m, r)
  BY <1>1 DEF Mid
<1>3. Branches(m, Mid(m, r)) = Low(m, r)
  BY <1>1 DEF Low
<1> QED BY <1>2, <1>3 DEF TablesOf

\* A step of the walk: in a table that is not of the lowest level.
LEMMA WalkStep ==
    ASSUME NEW m \in Memory, NEW r, Tree(m, r), NEW t \in {r} \union Mid(m, r), NEW i \in Indices
    PROVE  \/ m.tables[t][i] = Invalid
           \/ /\ m.tables[t][i] = Branch(m.tables[t][i].page) /\ m.tables[t][i].page \in Pages
              /\ m.tables[t][i].kind = "branch"
              /\ t = r => m.tables[t][i].page \in Mid(m, r)
              /\ t \in Mid(m, r) => m.tables[t][i].page \in Low(m, r)
<1>1. t \in DOMAIN m.tables /\ m.tables[t][i].kind # "leaf"
  BY DEF Tree
<1>2. m.tables[t][i] \in Entry
  BY <1>1, MemoryIs
<1> DEFINE e == m.tables[t][i]
<1>3. e = Invalid \/ (e.kind = "branch" /\ e.page \in Pages /\ e = Branch(e.page))
  BY <1>1, <1>2, EntryIs
<1>4. ASSUME e = Branch(e.page), e.page \in Pages, t = r PROVE e.page \in Mid(m, r)
  BY <1>4 DEF Mid
<1>5. ASSUME e = Branch(e.page), e.page \in Pages, t \in Mid(m, r) PROVE e.page \in Low(m, r)
  BY <1>5 DEF Low
<1> HIDE DEF e
<1>6. \/ e = Invalid
      \/ /\ e = Branch(e.page) /\ e.page \in Pages /\ e.kind = "branch"
         /\ t = r => e.page \in Mid(m, r)
         /\ t \in Mid(m, r) => e.page \in Low(m, r)
  BY <1>3, <1>4, <1>5
<1> QED BY <1>6 DEF e

\* The way to the table of the lowest level: it ends at an invalid entry of the
\* root, at one of a table in the middle, or it is there.
Walk(m, r, v) ==
    IF m.tables[r][vpn(v, 2)] = Invalid THEN NoPage
    ELSE IF m.tables[Below(m, r, v, 2)][vpn(v, 1)] = Invalid THEN NoPage
    ELSE Below(m, Below(m, r, v, 2), v, 1)

\* In a tree the walk of mmu_translate ends with an invalid entry or at a table of the
\* last level, and the translation is what stands there.
LEMMA WalkIs ==
    ASSUME NEW m \in Memory, NEW r, Tree(m, r), NEW v \in VirtualPages
    PROVE  /\ \/ Walk(m, r, v) = NoPage
              \/ /\ Walk(m, r, v) \in Low(m, r)
                 /\ Below(m, r, v, 2) \in Mid(m, r)
                 /\ m.tables[r][vpn(v, 2)] = Branch(Below(m, r, v, 2))
                 /\ m.tables[Below(m, r, v, 2)][vpn(v, 1)] = Branch(Walk(m, r, v))
                 /\ Walk(m, r, v) \in Pages
           /\ mmu_translate(m, r, v) = IF Walk(m, r, v) = NoPage THEN NoPage
                                      ELSE m.tables[Walk(m, r, v)][vpn(v, 0)].page
<1> DEFINE e2 == m.tables[r][vpn(v, 2)]
           t1 == Below(m, r, v, 2)
           e1 == m.tables[t1][vpn(v, 1)]
           t0 == Below(m, t1, v, 1)
           e0 == m.tables[t0][vpn(v, 0)]
<1>1. vpn(v, 0) \in Indices /\ vpn(v, 1) \in Indices /\ vpn(v, 2) \in Indices
  BY VpnIsIndex
<1>2. t1 = e2.page /\ t0 = e1.page
  BY DEF Below
<1>3. e2 = Invalid \/ (e2 = Branch(t1) /\ e2.kind = "branch" /\ t1 \in Mid(m, r))
  BY <1>1, <1>2, WalkStep
<1>4. t1 \in Mid(m, r) =>
        e1 = Invalid \/ (e1 = Branch(t0) /\ e1.kind = "branch" /\ t0 \in Low(m, r) /\ t0 \in Pages)
  <2> HIDE DEF t1, e2
  <2> QED BY <1>1, <1>2, WalkStep
<1>5. mmu_translate(m, r, v) =
        IF e2.kind = "branch" THEN IF e1.kind = "branch" THEN e0.page ELSE e1.page ELSE e2.page
  BY <1>2 DEF mmu_translate
<1>6. Walk(m, r, v) = IF e2 = Invalid THEN NoPage ELSE IF e1 = Invalid THEN NoPage ELSE t0
  BY DEF Walk
<1>7. \A p : Branch(p) # Invalid
  BY DEF Branch, Invalid
<1> HIDE DEF e2, t1, e1, t0, e0
<1>8. CASE e2 = Invalid
  BY <1>5, <1>6, <1>8, EntryMakes
<1>9. CASE e2 # Invalid /\ e1 = Invalid
  BY <1>3, <1>5, <1>6, <1>9, EntryMakes
<1>10. CASE e2 # Invalid /\ e1 # Invalid
  <2>1. Walk(m, r, v) = t0 /\ t0 # NoPage
    BY <1>3, <1>4, <1>6, <1>10, NoPageIs
  <2>2. mmu_translate(m, r, v) = e0.page
    BY <1>3, <1>4, <1>5, <1>10
  <2>3. t1 \in Mid(m, r) /\ e2 = Branch(t1) /\ e1 = Branch(t0) /\ t0 \in Low(m, r) /\ t0 \in Pages
    BY <1>3, <1>4, <1>10
  <2> QED BY <2>1, <2>2, <2>3 DEF e2, t1, e1, e0
<1> QED BY <1>8, <1>9, <1>10

\* Two walks that end at the same table take the same way.
LEMMA WalkInjective ==
    ASSUME NEW m \in Memory, NEW r, Tree(m, r), NEW v \in VirtualPages, NEW w \in VirtualPages,
           Walk(m, r, v) = Walk(m, r, w), Walk(m, r, v) # NoPage, vpn(v, 0) = vpn(w, 0)
    PROVE  v = w
<1> DEFINE tv == Below(m, r, v, 2)
           tw == Below(m, r, w, 2)
<1>1. /\ vpn(v, 1) \in Indices /\ vpn(v, 2) \in Indices
      /\ vpn(w, 1) \in Indices /\ vpn(w, 2) \in Indices
  BY VpnIsIndex
<1>2. /\ tv \in Mid(m, r) /\ tw \in Mid(m, r) /\ Walk(m, r, v) \in Pages
      /\ m.tables[r][vpn(v, 2)] = Branch(tv) /\ m.tables[r][vpn(w, 2)] = Branch(tw)
      /\ m.tables[tv][vpn(v, 1)] = Branch(Walk(m, r, v))
      /\ m.tables[tw][vpn(w, 1)] = Branch(Walk(m, r, v))
  BY WalkIs
<1>3. \A p : Branch(p).kind = "branch"
  BY DEF Branch
<1> HIDE DEF tv, tw
<1>4. tv = tw /\ vpn(v, 1) = vpn(w, 1)
  BY <1>1, <1>2, <1>3 DEF Tree
<1>5. vpn(v, 2) = vpn(w, 2)
  BY <1>1, <1>2, <1>3, <1>4 DEF Tree
<1> QED BY <1>4, <1>5, VpnInjective

\* What does not touch the tables below a root changes nothing for it.
LEMMA FrameStep ==
    ASSUME NEW m \in Memory, NEW r, Tree(m, r), NEW m2 \in Memory,
           \A t \in TablesOf(m, r) : t \in DOMAIN m2.tables /\ m2.tables[t] = m.tables[t]
    PROVE  /\ Tree(m2, r) /\ TablesOf(m2, r) = TablesOf(m, r)
           /\ \A v \in VirtualPages : mmu_translate(m2, r, v) = mmu_translate(m, r, v)
<1>1. \A t \in {r} \union Mid(m, r) \union Low(m, r) : t \in DOMAIN m2.tables /\ m2.tables[t] = m.tables[t]
  BY TablesOfIs
<1>2. Mid(m2, r) = Mid(m, r)
  BY <1>1 DEF Mid
<1>3. Low(m2, r) = Low(m, r)
  BY <1>1, <1>2 DEF Low
<1>4. Tree(m2, r)
  BY <1>1, <1>2, <1>3 DEF Tree
<1>5. ASSUME NEW v \in VirtualPages PROVE mmu_translate(m2, r, v) = mmu_translate(m, r, v)
  <2>1. Below(m2, r, v, 2) = Below(m, r, v, 2)
    BY <1>1 DEF Below
  <2>2. vpn(v, 2) \in Indices
    BY VpnIsIndex
  <2>3. m.tables[r][vpn(v, 2)] = Invalid \/ Below(m, r, v, 2) \in Mid(m, r)
    BY <2>2, WalkStep DEF Below
  <2>4. Walk(m2, r, v) = Walk(m, r, v)
    BY <1>1, <2>1, <2>3 DEF Walk, Below
  <2>5. Walk(m, r, v) = NoPage \/ Walk(m, r, v) \in Low(m, r)
    BY WalkIs
  <2> QED BY <1>1, <1>4, <2>4, <2>5, WalkIs
<1> QED BY <1>2, <1>3, <1>4, <1>5, TablesOfIs

\* An empty table is hung in at an invalid entry.
LinkedAt(m, t, i, p, m2) ==
    /\ DOMAIN m2.tables = DOMAIN m.tables \union {p}
    /\ \A j \in Indices : m2.tables[p][j] = Invalid
    /\ \A u \in DOMAIN m.tables \ {t} : m2.tables[u] = m.tables[u]
    /\ \A j \in Indices : m2.tables[t][j] = IF j = i THEN Branch(p) ELSE m.tables[t][j]
\* A new empty table linked at an invalid entry leaves the tree a tree, with one table
\* more and the translations as they were.
LEMMA LinkStep ==
    ASSUME NEW m \in Memory, NEW r, Tree(m, r), NEW t \in {r} \union Mid(m, r), NEW i \in Indices,
           m.tables[t][i] = Invalid, NEW p \in Pages, p \notin DOMAIN m.tables,
           NEW m2 \in Memory, LinkedAt(m, t, i, p, m2)
    PROVE  /\ Tree(m2, r) /\ TablesOf(m2, r) = TablesOf(m, r) \union {p}
           /\ Mid(m, r) \subseteq Mid(m2, r) /\ (t = r => p \in Mid(m2, r))
           /\ \A v \in VirtualPages : mmu_translate(m2, r, v) = mmu_translate(m, r, v)
<1>1. {r} \union Mid(m, r) \union Low(m, r) \subseteq DOMAIN m.tables
  BY DEF Tree
<1>2. /\ r # p /\ t # p /\ p \notin Mid(m, r) /\ p \notin Low(m, r) /\ t \in DOMAIN m.tables
      /\ r \notin Mid(m, r) /\ Mid(m, r) \cap Low(m, r) = {} /\ r \notin Low(m, r)
  BY <1>1 DEF Tree
<1>3. /\ \A a, b \in Pages : Branch(a) = Branch(b) => a = b
      /\ \A a : Branch(a) # Invalid /\ Branch(a).kind = "branch"
      /\ Invalid.kind = "invalid"
  BY DEF Branch, Invalid
<1>4. /\ \A u \in DOMAIN m.tables : \A j \in Indices :
            m2.tables[u][j] = IF u = t /\ j = i THEN Branch(p) ELSE m.tables[u][j]
      /\ \A j \in Indices : m2.tables[p][j] = Invalid
  BY <1>2 DEF LinkedAt
<1>5. \A u \in DOMAIN m.tables : \A j \in Indices : \A x \in Pages :
         m2.tables[u][j] = Branch(x) <=> (m.tables[u][j] = Branch(x) \/ (u = t /\ j = i /\ x = p))
  BY <1>3, <1>4
<1>6. Mid(m2, r) = Mid(m, r) \union (IF t = r THEN {p} ELSE {})
  <2>1. ASSUME NEW x \in Pages
        PROVE  x \in Mid(m2, r) <=> (x \in Mid(m, r) \/ (t = r /\ x = p))
    <3>1. r \in DOMAIN m.tables
      BY <1>1
    <3> QED BY <1>5, <3>1 DEF Mid
  <2> QED BY <2>1 DEF Mid
<1>7. Low(m2, r) = Low(m, r) \union (IF t = r THEN {} ELSE {p})
  <2>1. ASSUME NEW x \in Pages
        PROVE  x \in Low(m2, r) <=> (x \in Low(m, r) \/ (t # r /\ x = p))
    <3>1. \A u \in Mid(m, r) : u \in DOMAIN m.tables
      BY <1>1
    <3>2. ASSUME x \in Low(m2, r) PROVE x \in Low(m, r) \/ (t # r /\ x = p)
      <4>1. PICK u \in Mid(m2, r), j \in Indices : m2.tables[u][j] = Branch(x)
        BY <3>2 DEF Low
      <4>2. u \in Mid(m, r)
        BY <1>3, <1>4, <1>6, <4>1
      <4>3. m.tables[u][j] = Branch(x) \/ (u = t /\ j = i /\ x = p)
        BY <1>5, <3>1, <4>1, <4>2
      <4> QED BY <1>2, <4>2, <4>3 DEF Low
    <3>3. ASSUME x \in Low(m, r) PROVE x \in Low(m2, r)
      <4>1. PICK u \in Mid(m, r), j \in Indices : m.tables[u][j] = Branch(x)
        BY <3>3 DEF Low
      <4>2. m2.tables[u][j] = Branch(x) /\ u \in Mid(m2, r)
        BY <1>5, <1>6, <3>1, <4>1
      <4> QED BY <4>2 DEF Low
    <3>4. ASSUME t # r, x = p PROVE x \in Low(m2, r)
      <4>1. t \in Mid(m, r) /\ m2.tables[t][i] = Branch(p) /\ t \in Mid(m2, r)
        BY <1>2, <1>4, <1>6, <3>4
      <4> QED BY <3>4, <4>1 DEF Low
    <3> QED BY <3>2, <3>3, <3>4
  <2> QED BY <2>1 DEF Low
<1>8. TablesOf(m2, r) = TablesOf(m, r) \union {p}
  BY <1>6, <1>7, TablesOfIs
<1>9. Tree(m2, r)
  <2>1. {r} \union Mid(m2, r) \union Low(m2, r) \subseteq DOMAIN m2.tables
    BY <1>1, <1>6, <1>7 DEF LinkedAt
  <2>2. r \notin Mid(m2, r) /\ r \notin Low(m2, r) /\ Mid(m2, r) \cap Low(m2, r) = {}
    BY <1>2, <1>6, <1>7
  <2>3. ASSUME NEW u \in {r} \union Mid(m2, r), NEW j \in Indices PROVE m2.tables[u][j].kind # "leaf"
    <3>1. CASE u = p
      BY <1>3, <1>4, <3>1
    <3>2. CASE u # p
      <4>1. u \in {r} \union Mid(m, r) /\ u \in DOMAIN m.tables
        BY <1>1, <1>6, <3>2
      <4>2. m.tables[u][j].kind # "leaf"
        BY <4>1 DEF Tree
      <4> QED BY <1>3, <1>4, <4>1, <4>2
    <3> QED BY <3>1, <3>2
  <2>4. ASSUME NEW u \in Low(m2, r), NEW j \in Indices PROVE m2.tables[u][j].kind # "branch"
    <3>1. CASE u = p
      BY <1>3, <1>4, <3>1
    <3>2. CASE u # p
      <4>1. u \in Low(m, r) /\ u \in DOMAIN m.tables /\ u # t
        BY <1>1, <1>2, <1>7, <3>2
      <4>2. m.tables[u][j].kind # "branch"
        BY <4>1 DEF Tree
      <4> QED BY <1>4, <4>1, <4>2
    <3> QED BY <3>1, <3>2
  <2>5. ASSUME NEW a \in {r} \union Mid(m2, r), NEW b \in {r} \union Mid(m2, r),
               NEW j \in Indices, NEW k \in Indices,
               m2.tables[a][j] = m2.tables[b][k], m2.tables[a][j].kind = "branch"
        PROVE  a = b /\ j = k
    <3>1. a # p /\ b # p
      BY <1>3, <1>4, <2>5
    <3>2. a \in {r} \union Mid(m, r) /\ b \in {r} \union Mid(m, r) /\ a \in DOMAIN m.tables /\ b \in DOMAIN m.tables
      BY <1>1, <1>6, <3>1
    <3>3. \A u \in {r} \union Mid(m, r) : \A l \in Indices : m.tables[u][l] # Branch(p)
      BY <1>2 DEF Mid, Low
    <3>4. CASE a = t /\ j = i
      BY <1>4, <2>5, <3>2, <3>3, <3>4
    <3>5. CASE b = t /\ k = i
      BY <1>4, <2>5, <3>2, <3>3, <3>5
    <3>6. CASE ~(a = t /\ j = i) /\ ~(b = t /\ k = i)
      BY <1>4, <2>5, <3>2, <3>6 DEF Tree
    <3> QED BY <3>4, <3>5, <3>6
  <2> QED BY <2>1, <2>2, <2>3, <2>4, <2>5 DEF Tree
<1>10. ASSUME NEW v \in VirtualPages PROVE mmu_translate(m2, r, v) = mmu_translate(m, r, v)
  <2>1. vpn(v, 0) \in Indices /\ vpn(v, 1) \in Indices /\ vpn(v, 2) \in Indices
    BY VpnIsIndex
  <2> DEFINE t1 == Below(m, r, v, 2)
  <2>2. CASE Walk(m, r, v) # NoPage
    <3>1. /\ Walk(m, r, v) \in Low(m, r) /\ t1 \in Mid(m, r) /\ Walk(m, r, v) \in Pages
          /\ m.tables[r][vpn(v, 2)] = Branch(t1)
          /\ m.tables[t1][vpn(v, 1)] = Branch(Walk(m, r, v))
      BY <2>2, WalkIs
    <3> HIDE DEF t1
    <3>2. /\ m2.tables[r][vpn(v, 2)] = Branch(t1)
          /\ m2.tables[t1][vpn(v, 1)] = Branch(Walk(m, r, v))
          /\ m2.tables[Walk(m, r, v)] = m.tables[Walk(m, r, v)]
      <4>1. t1 \in Pages
        BY <3>1 DEF Mid
      <4>2. m2.tables[Walk(m, r, v)] = m.tables[Walk(m, r, v)]
        BY <1>1, <1>2, <3>1 DEF LinkedAt
      <4> QED BY <1>1, <1>5, <2>1, <3>1, <4>1, <4>2
    <3>3. Walk(m2, r, v) = Walk(m, r, v)
      <4>1. Below(m2, r, v, 2) = t1
        BY <3>2 DEF Below, Branch
      <4>2. Below(m2, t1, v, 1) = Walk(m, r, v)
        BY <3>2 DEF Below, Branch
      <4> QED BY <1>3, <3>2, <4>1, <4>2 DEF Walk
    <3> QED BY <1>9, <2>2, <3>2, <3>3, WalkIs
  <2>3. CASE Walk(m, r, v) = NoPage
    <3>1. mmu_translate(m, r, v) = NoPage
      BY <2>3, WalkIs
    <3>2. CASE Walk(m2, r, v) = NoPage
      BY <1>9, <3>1, <3>2, WalkIs
    <3>3. CASE Walk(m2, r, v) # NoPage
      <4> DEFINE s1 == Below(m2, r, v, 2)
      <4>1. /\ Walk(m2, r, v) \in Low(m2, r) /\ s1 \in Mid(m2, r) /\ Walk(m2, r, v) \in Pages
            /\ m2.tables[r][vpn(v, 2)] = Branch(s1)
            /\ m2.tables[s1][vpn(v, 1)] = Branch(Walk(m2, r, v))
        BY <1>9, <3>3, WalkIs
      <4> HIDE DEF s1
      <4>2. s1 # p /\ s1 \in Mid(m, r) /\ s1 \in DOMAIN m.tables /\ s1 \in Pages
        BY <1>1, <1>3, <1>4, <1>6, <2>1, <4>1 DEF Mid
      <4>3. m.tables[r][vpn(v, 2)] = Branch(s1)
        BY <1>1, <1>5, <2>1, <4>1, <4>2
      <4>4. s1 = t1
        BY <4>3 DEF Below, Branch
      <4>5. CASE Walk(m2, r, v) = p
        <5>1. \A j \in Indices : m2.tables[p][j].page = NoPage
          BY <1>4 DEF Invalid
        <5> QED BY <1>9, <2>1, <3>1, <4>5, <5>1, WalkIs
      <4>6. CASE Walk(m2, r, v) # p
        <5>1. m.tables[s1][vpn(v, 1)] = Branch(Walk(m2, r, v))
          BY <1>5, <2>1, <4>1, <4>2, <4>6
        <5>2. Walk(m, r, v) = Walk(m2, r, v)
          <6>1. Below(m, s1, v, 1) = Walk(m2, r, v)
            BY <5>1 DEF Below, Branch
          <6> QED BY <1>3, <4>3, <4>4, <5>1, <6>1 DEF Walk
        <5> QED BY <2>3, <3>3, <5>2
      <4> QED BY <4>5, <4>6
    <3> QED BY <3>2, <3>3
  <2> QED BY <2>2, <2>3
<1> QED BY <1>6, <1>8, <1>9, <1>10

\* An entry of the lowest level is written.
WrittenAt(m, t, i, e, m2) ==
    /\ DOMAIN m2.tables = DOMAIN m.tables
    /\ \A u \in DOMAIN m.tables \ {t} : m2.tables[u] = m.tables[u]
    /\ \A j \in Indices : m2.tables[t][j] = IF j = i THEN e ELSE m.tables[t][j]
\* Writing a leaf or an invalid entry at the end of a walk changes the translation of
\* that virtual page and of no other.
LEMMA WriteStep ==
    ASSUME NEW m \in Memory, NEW r, Tree(m, r), NEW v \in VirtualPages, Walk(m, r, v) # NoPage,
           NEW e \in Entry, e.kind # "branch",
           NEW m2 \in Memory, WrittenAt(m, Walk(m, r, v), vpn(v, 0), e, m2)
    PROVE  /\ Tree(m2, r) /\ TablesOf(m2, r) = TablesOf(m, r)
           /\ \A w \in VirtualPages :
                 mmu_translate(m2, r, w) = IF w = v THEN e.page ELSE mmu_translate(m, r, w)
<1> DEFINE t == Walk(m, r, v)
           i == vpn(v, 0)
<1>1. t \in Low(m, r) /\ i \in Indices
  BY WalkIs, VpnIsIndex
<1>2. /\ {r} \union Mid(m, r) \union Low(m, r) \subseteq DOMAIN m.tables
      /\ t \notin {r} \union Mid(m, r)
  BY <1>1 DEF Tree
<1>3. /\ \A u \in {r} \union Mid(m, r) : m2.tables[u] = m.tables[u]
      /\ DOMAIN m2.tables = DOMAIN m.tables
      /\ \A u \in DOMAIN m.tables : \A j \in Indices :
            m2.tables[u][j] = IF u = t /\ j = i THEN e ELSE m.tables[u][j]
  BY <1>2 DEF WrittenAt
<1>4. Mid(m2, r) = Mid(m, r)
  BY <1>3 DEF Mid
<1>5. Low(m2, r) = Low(m, r)
  BY <1>3, <1>4 DEF Low
<1>6. Tree(m2, r)
  <2>1. \A u \in Low(m2, r) : \A j \in Indices : m2.tables[u][j].kind # "branch"
    BY <1>2, <1>3, <1>5 DEF Tree
  <2> QED BY <1>3, <1>4, <1>5, <2>1 DEF Tree
<1>7. ASSUME NEW w \in VirtualPages
      PROVE  mmu_translate(m2, r, w) = IF w = v THEN e.page ELSE mmu_translate(m, r, w)
  <2>1. vpn(w, 2) \in Indices /\ vpn(w, 0) \in Indices
    BY VpnIsIndex
  <2>2. Walk(m2, r, w) = Walk(m, r, w)
    <3>1. m.tables[r][vpn(w, 2)] = Invalid \/ Below(m, r, w, 2) \in Mid(m, r)
      BY <2>1, WalkStep DEF Below
    <3>2. m2.tables[r] = m.tables[r] /\ Below(m2, r, w, 2) = Below(m, r, w, 2)
      BY <1>3 DEF Below
    <3>3. CASE Below(m, r, w, 2) \in Mid(m, r)
      <4>1. m2.tables[Below(m, r, w, 2)] = m.tables[Below(m, r, w, 2)]
        BY <1>3, <3>3
      <4>2. Below(m2, Below(m, r, w, 2), w, 1) = Below(m, Below(m, r, w, 2), w, 1)
        BY <4>1 DEF Below
      <4> QED BY <3>2, <4>1, <4>2 DEF Walk
    <3>4. CASE m.tables[r][vpn(w, 2)] = Invalid
      BY <3>2, <3>4 DEF Walk
    <3> QED BY <3>1, <3>3, <3>4
  <2>3. CASE Walk(m, r, w) = NoPage
    BY <1>6, <2>2, <2>3, WalkIs
  <2>4. CASE Walk(m, r, w) # NoPage
    <3>1. Walk(m, r, w) \in DOMAIN m.tables
      BY <1>2, <2>4, WalkIs
    <3>2. mmu_translate(m2, r, w) = m2.tables[Walk(m, r, w)][vpn(w, 0)].page
      BY <1>6, <2>2, <2>4, WalkIs
    <3>3. mmu_translate(m, r, w) = m.tables[Walk(m, r, w)][vpn(w, 0)].page
      BY <2>4, WalkIs
    <3>4. Walk(m, r, w) = t /\ vpn(w, 0) = i <=> w = v
      BY <2>4, WalkInjective
    <3> QED BY <1>3, <2>1, <3>1, <3>2, <3>3, <3>4
  <2> QED BY <2>3, <2>4
<1> QED BY <1>4, <1>5, <1>6, <1>7, TablesOfIs

\* The first fit exists when anything fits, and NoPage is answered otherwise.
LEMMA FirstFitFound ==
    ASSUME NEW T, NEW n \in Nat
    PROVE  \/ /\ FirstFit(T, n) = NoPage
              /\ \A i \in 0 .. ScanPages - 1 : ~Fits(T, n, i)
           \/ /\ FirstFit(T, n) \in 0 .. ScanPages - 1
              /\ FirstFit(T, n) # NoPage
              /\ Fits(T, n, FirstFit(T, n))
<1>1. CASE ~ \E i \in 0 .. ScanPages - 1 : Fits(T, n, i)
  BY <1>1 DEF FirstFit
<1>2. CASE \E i \in 0 .. ScanPages - 1 : Fits(T, n, i)
  <2> DEFINE S == {i \in 0 .. ScanPages - 1 : Fits(T, n, i)}
  <2>1. S \subseteq Nat /\ S # {}
    BY <1>2, PagesAssumption
  <2>2. PICK x \in S : \A y \in S : x <= y
    BY <2>1, LeastNatural
  <2>3. x \in 0 .. ScanPages - 1 /\ Fits(T, n, x)
    BY <2>2
  <2>4. ASSUME NEW k \in 0 .. x - 1 PROVE ~Fits(T, n, k)
    <3>1. k \in 0 .. ScanPages - 1 /\ k < x
      BY <2>3, PagesAssumption
    <3> QED BY <3>1, <2>2
  <2>5. \E i \in 0 .. ScanPages - 1 :
           Fits(T, n, i) /\ \A k \in 0 .. i - 1 : ~Fits(T, n, k)
    BY <2>3, <2>4
  <2>6. FirstFit(T, n) \in 0 .. ScanPages - 1 /\ Fits(T, n, FirstFit(T, n))
    BY <2>5, <1>2 DEF FirstFit
  <2> QED BY <2>6, PagesAssumption DEF NoPage
<1> QED BY <1>1, <1>2

\* The loop of page_free stops at one page only.
LEMMA FreeStopIs ==
    ASSUME NEW T, NEW L, NEW loc \in Nat, NEW e, StopsAt(T, L, loc, e)
    PROVE  FreeStop(T, L, loc) = e
<1> DEFINE x == FreeStop(T, L, loc)
<1>1. e \in loc .. TotalPages
  BY DEF StopsAt
<1>2. x \in loc .. TotalPages /\ StopsAt(T, L, loc, x)
  BY <1>1 DEF FreeStop
<1> HIDE DEF x
<1>3. ~(x < e) /\ ~(e < x)
  BY <1>1, <1>2, PagesAssumption DEF StopsAt
<1>4. x = e
  BY <1>1, <1>2, <1>3, PagesAssumption
<1> QED BY <1>4 DEF x

(* The calls of page.c on a memory *)

MemOK(m) == m \in Memory /\ DOMAIN m.tables \subseteq m.taken

\* A fault changes the fault bit only.
LEMMA FaultIs ==
    ASSUME NEW m \in Memory
    PROVE  /\ Fault(m) \in Memory /\ Fault(m).fault /\ Fault(m).taken = m.taken
           /\ Fault(m).last = m.last /\ Fault(m).tables = m.tables
  BY DEF Fault, Memory

\* The pages that page_znalloc finds are pages, and free.
LEMMA FitIs ==
    ASSUME NEW T, NEW n \in Nat, FirstFit(T, n) # NoPage
    PROVE  /\ FirstFit(T, n) \in Pages /\ FirstFit(T, n) + Need(n) - 1 \in Pages
           /\ Need(n) \in Nat /\ Need(n) > 0 /\ n <= Need(n)
           /\ (FirstFit(T, n) .. FirstFit(T, n) + Need(n) - 1) \subseteq Pages
           /\ (FirstFit(T, n) .. FirstFit(T, n) + Need(n) - 1) \cap T = {}
<1> DEFINE f == FirstFit(T, n)
<1>1. Need(n) \in Nat /\ Need(n) > 0 /\ n <= Need(n)
  BY DEF Need
<1>2. f \in 0 .. ScanPages - 1 /\ Fits(T, n, f)
  BY FirstFitFound
<1> HIDE DEF f
<1>3. f + Need(n) <= TotalPages /\ \A k \in f .. f + Need(n) - 1 : k \notin T
  BY <1>2 DEF Fits
<1>4. f \in Pages /\ f + Need(n) - 1 \in Pages
  BY <1>1, <1>2, <1>3, PagesAssumption DEF Pages
<1>5. (f .. f + Need(n) - 1) \subseteq Pages
  BY <1>1, <1>2, <1>3, PagesAssumption DEF Pages
<1> QED BY <1>1, <1>3, <1>4, <1>5 DEF f

\* page_znalloc: the run it found is taken and its last page marked.
LEMMA TakenIs ==
    ASSUME NEW m, MemOK(m), NEW n \in Nat, FirstFit(m.taken, n) # NoPage
    PROVE  LET f == FirstFit(m.taken, n)
           IN /\ MemOK(Taken(m, n))
              /\ Taken(m, n).taken = m.taken \union (f .. f + Need(n) - 1)
              /\ Taken(m, n).last = m.last \union {f + Need(n) - 1}
              /\ Taken(m, n).tables = m.tables /\ Taken(m, n).fault = m.fault
<1> DEFINE f == FirstFit(m.taken, n)
           m2 == [m EXCEPT !.taken = @ \union (f .. f + Need(n) - 1),
                           !.last = @ \union {f + Need(n) - 1}]
<1>1. Taken(m, n) = m2
  BY DEF Taken
<1>2. f + Need(n) - 1 \in Pages /\ (f .. f + Need(n) - 1) \subseteq Pages
  BY FitIs
<1> HIDE DEF f
<1>3. m \in Memory
  BY DEF MemOK
<1>4. /\ m2.taken = m.taken \union (f .. f + Need(n) - 1)
      /\ m2.last = m.last \union {f + Need(n) - 1}
      /\ m2.tables = m.tables /\ m2.fault = m.fault
  BY <1>3 DEF Memory
<1>5. m2 \in Memory
  BY <1>2, <1>3 DEF Memory
<1> HIDE DEF m2
<1>6. MemOK(m2)
  BY <1>4, <1>5 DEF MemOK
<1> QED BY <1>1, <1>4, <1>6 DEF f

\* A table is a page nobody had, and empty; without a page there is a fault.
LEMMA NewTableIs ==
    ASSUME NEW m, MemOK(m)
    PROVE  LET p == FirstFit(m.taken, 1)
               m2 == NewTable(m)
           IN \/ p = NoPage /\ m2 = Fault(m)
              \/ /\ p \in Pages /\ p \notin m.taken /\ MemOK(m2)
                 /\ m2.taken = m.taken \union {p} /\ m2.last = m.last \union {p}
                 /\ m2.fault = m.fault
                 /\ DOMAIN m2.tables = DOMAIN m.tables \union {p}
                 /\ m2.tables[p] = NoEntries
                 /\ \A t \in DOMAIN m.tables : m2.tables[t] = m.tables[t]
<1> DEFINE p == FirstFit(m.taken, 1)
           m1 == Taken(m, 1)
           f == [t \in DOMAIN m.tables \union {p} |-> IF t = p THEN NoEntries ELSE m.tables[t]]
           m2 == [m1 EXCEPT !.tables = f]
<1>1. CASE p = NoPage
  BY <1>1 DEF NewTable
<1>2. CASE p # NoPage
  <2>1. /\ MemOK(m1) /\ m1.taken = m.taken \union (p .. p + Need(1) - 1)
        /\ m1.last = m.last \union {p + Need(1) - 1}
        /\ m1.tables = m.tables /\ m1.fault = m.fault
    BY <1>2, TakenIs
  <2>2. p \in Pages /\ (p .. p + Need(1) - 1) \cap m.taken = {}
    BY <1>2, FitIs
  <2>3. p .. p + Need(1) - 1 = {p} /\ p + Need(1) - 1 = p
    <3> HIDE DEF p
    <3>1. Need(1) = 1 /\ p \in Nat
      BY <2>2, NoPageIs DEF Need
    <3> QED BY <3>1
  <2>4. NewTable(m) = m2
    <3>1. NewTable(m) = [m1 EXCEPT !.tables = [t \in DOMAIN m1.tables \union {p} |->
                                      IF t = p THEN NoEntries ELSE m1.tables[t]]]
      <4>1. m1 = [taken |-> m1.taken, last |-> m1.last, tables |-> m1.tables, fault |-> m1.fault]
        BY <2>1 DEF MemOK, Memory
      <4> HIDE DEF m1
      <4> QED BY <1>2, <4>1 DEF NewTable, m1
    <3> QED BY <2>1, <3>1
  <2> HIDE DEF p, m1
  <2>5. m.tables \in TableMaps /\ DOMAIN m.tables \subseteq m.taken /\ m \in Memory
    BY MemoryIs DEF MemOK
  <2>6. NoEntries \in EntryTable
    BY EntryMakes DEF NoEntries, EntryTable
  <2>7. /\ DOMAIN f = DOMAIN m.tables \union {p} /\ f[p] = NoEntries
        /\ \A t \in DOMAIN m.tables : f[t] = m.tables[t]
    BY <2>2, <2>3, <2>5
  <2>8. f \in TableMaps
    <3>1. \A t \in DOMAIN f : f[t] \in EntryTable
      BY <2>5, <2>6, <2>7, TableMapIs
    <3>2. DOMAIN f \subseteq Pages
      BY <2>2, <2>5, <2>7, TableMapIs
    <3>3. f = [t \in DOMAIN f |-> f[t]]
      OBVIOUS
    <3> HIDE DEF f
    <3> QED BY <3>1, <3>2, <3>3, TableMapMakes
  <2> HIDE DEF f
  <2>9. m2 \in Memory /\ m2.taken = m1.taken /\ m2.last = m1.last /\ m2.tables = f /\ m2.fault = m1.fault
    BY <2>1, <2>8 DEF MemOK, Memory
  <2> HIDE DEF m2
  <2>10. MemOK(m2)
    BY <2>1, <2>3, <2>5, <2>7, <2>9 DEF MemOK
  <2> QED BY <2>1, <2>2, <2>3, <2>4, <2>7, <2>9, <2>10 DEF p
<1> QED BY <1>1, <1>2

\* m2 is m with the pages of N, which nobody had, as further tables below r.
Extended(m, r, N, m2) ==
    /\ MemOK(m2) /\ Tree(m2, r) /\ (m.fault => m2.fault)
    /\ N \subseteq Pages /\ N \cap m.taken = {}
    /\ m2.taken = m.taken \union N /\ m2.last = m.last \union N
    /\ DOMAIN m2.tables = DOMAIN m.tables \union N
    /\ TablesOf(m2, r) = TablesOf(m, r) \union N
    /\ \A t \in DOMAIN m.tables \ TablesOf(m, r) : m2.tables[t] = m.tables[t]

\* Nothing done is an extension by no table.
LEMMA ExtendedNot ==
    ASSUME NEW m, NEW r, MemOK(m), Tree(m, r)
    PROVE  Extended(m, r, {}, m)
  BY DEF Extended

\* A fault behind an extension leaves the extension.
LEMMA ExtendedFault ==
    ASSUME NEW m, NEW r, NEW N, NEW d, Extended(m, r, N, d)
    PROVE  /\ Extended(m, r, N, Fault(d)) /\ Fault(d).fault
           /\ \A w \in VirtualPages : mmu_translate(Fault(d), r, w) = mmu_translate(d, r, w)
<1> DEFINE m2 == Fault(d)
<1>1. d \in Memory /\ Tree(d, r)
  BY DEF Extended, MemOK
<1>2. m2 \in Memory /\ m2.fault /\ m2.taken = d.taken /\ m2.last = d.last /\ m2.tables = d.tables
  BY <1>1, FaultIs
<1> HIDE DEF m2
<1>3. \A t \in TablesOf(d, r) : t \in DOMAIN m2.tables /\ m2.tables[t] = d.tables[t]
  BY <1>1, <1>2, TablesOfIs DEF Tree
<1>4. /\ Tree(m2, r) /\ TablesOf(m2, r) = TablesOf(d, r)
      /\ \A w \in VirtualPages : mmu_translate(m2, r, w) = mmu_translate(d, r, w)
  BY <1>1, <1>2, <1>3, FrameStep
<1>5. MemOK(m2)
  BY <1>2 DEF Extended, MemOK
<1>6. Extended(m, r, N, m2)
  BY <1>2, <1>4, <1>5 DEF Extended
<1> QED BY <1>2, <1>4, <1>6 DEF m2

\* One extension after the other is an extension.
LEMMA ExtendedTwice ==
    ASSUME NEW m, NEW r, MemOK(m), NEW N, NEW m2, Extended(m, r, N, m2),
           NEW M, NEW m3, Extended(m2, r, M, m3)
    PROVE  Extended(m, r, N \union M, m3)
<1>1. ASSUME NEW t \in DOMAIN m.tables \ TablesOf(m, r) PROVE m3.tables[t] = m.tables[t]
  <2>1. t \in m.taken /\ t \notin N
    BY DEF Extended, MemOK
  <2>2. t \in DOMAIN m2.tables \ TablesOf(m2, r)
    BY <2>1 DEF Extended
  <2> QED BY <2>2 DEF Extended
<1> QED BY <1>1 DEF Extended

\* A mapping that came to a fault: it has left some tables behind, and what is not
\* in W is mapped as before.
CutShort(m, r, W, m2) ==
    /\ m2.fault
    /\ \E N \in SUBSET Pages :
          /\ Extended(m, r, N, m2)
          /\ \A w \in VirtualPages \ W : mmu_translate(m2, r, w) = mmu_translate(m, r, w)
\* An extension and then a mapping that came to a fault.
LEMMA CutTwice ==
    ASSUME NEW m, NEW r, MemOK(m), NEW N \in SUBSET Pages, NEW m2, Extended(m, r, N, m2), NEW W,
           \A w \in VirtualPages \ W : mmu_translate(m2, r, w) = mmu_translate(m, r, w),
           NEW m3, CutShort(m2, r, {}, m3)
    PROVE  CutShort(m, r, W, m3)
<1>1. PICK M \in SUBSET Pages :
          /\ Extended(m2, r, M, m3)
          /\ \A w \in VirtualPages \ {} : mmu_translate(m3, r, w) = mmu_translate(m2, r, w)
  BY DEF CutShort
<1>2. Extended(m, r, N \union M, m3) /\ N \union M \in SUBSET Pages
  BY <1>1, ExtendedTwice
<1>3. \A w \in VirtualPages \ W : mmu_translate(m3, r, w) = mmu_translate(m, r, w)
  BY <1>1
<1>4. m3.fault
  BY DEF CutShort
<1> HIDE DEF CutShort
<1> QED BY <1>2, <1>3, <1>4, Zenon DEF CutShort

\* Linked, on a memory with the new table.
DescentOutcome(m, r, t, i, m2) ==
    \/ /\ m2 = Fault(m)
       /\ FirstFit(m.taken, 1) = NoPage /\ m.tables[t][i] = Invalid
    \/ \E N \in {{}, {FirstFit(m.taken, 1)}} :
          /\ Extended(m, r, N, m2) /\ ~m2.fault
          /\ m.tables[t][i] # Invalid => N = {} /\ m2 = m
          /\ Mid(m, r) \subseteq Mid(m2, r)
          /\ \A u \in DOMAIN m.tables \ {t} : m2.tables[u] = m.tables[u]
          /\ m2.tables[t][i] # Invalid
          /\ \A w \in VirtualPages : mmu_translate(m2, r, w) = mmu_translate(m, r, w)
\* One level of the descent of mmu_map.
LEMMA DescendKeeps ==
    ASSUME NEW m, MemOK(m), ~m.fault, NEW r, Tree(m, r), NEW t \in {r} \union Mid(m, r),
           NEW v, NEW level, NEW i \in Indices, i = vpn(v, level),
           NEW m2, m2 = Descended(m, t, v, level)
    PROVE  DescentOutcome(m, r, t, i, m2)
<1> DEFINE p == FirstFit(m.taken, 1)
           n == NewTable(m)
<1>1. m \in Memory /\ DOMAIN m.tables \subseteq m.taken /\ t \in DOMAIN m.tables
  BY DEF MemOK, Tree
<1>2. CASE m.tables[t][i] # Invalid
  <2>1. m.tables[t][i].kind = "branch"
    BY <1>1, <1>2, WalkStep
  <2>2. m2 = m
    BY <2>1 DEF Descended
  <2>3. Extended(m, r, {}, m)
    BY ExtendedNot
  <2> QED BY <1>2, <2>2, <2>3 DEF DescentOutcome
<1>3. CASE m.tables[t][i] = Invalid
  <2>1. m.tables[t][i].kind = "invalid"
    BY <1>3, EntryMakes
  <2>2. m2 = Linked(n, t, i, p)
    BY <2>1 DEF Descended
  <2>3. CASE p = NoPage
    <3>1. n = Fault(m)
      BY <2>3, NewTableIs, NoPageIs
    <3>2. m2 = n
      BY <1>1, <2>2, <3>1, FaultIs DEF Linked
    <3> QED BY <1>3, <2>3, <3>1, <3>2 DEF DescentOutcome
  <2>4. CASE p # NoPage
    <3>1. /\ p \in Pages /\ p \notin m.taken /\ MemOK(n)
          /\ n.taken = m.taken \union {p} /\ n.last = m.last \union {p} /\ n.fault = m.fault
          /\ DOMAIN n.tables = DOMAIN m.tables \union {p} /\ n.tables[p] = NoEntries
          /\ \A u \in DOMAIN m.tables : n.tables[u] = m.tables[u]
      BY <2>4, NewTableIs
    <3> HIDE DEF p, n
    <3>2. n \in Memory /\ t \in DOMAIN n.tables /\ t # p
      BY <1>1, <3>1 DEF MemOK
    <3> DEFINE g == [n.tables[t] EXCEPT ![i] = Branch(p)]
               f == [n.tables EXCEPT ![t] = g]
    <3>3. m2 = [n EXCEPT !.tables = f]
      BY <2>2, <3>1, <3>2 DEF Linked
    <3>4. g \in EntryTable /\ \A j \in Indices : g[j] = IF j = i THEN Branch(p) ELSE n.tables[t][j]
      BY <3>1, <3>2, MemoryIs, EntryMakes DEF EntryTable
    <3> HIDE DEF g
    <3>5. /\ DOMAIN f = DOMAIN n.tables /\ f[t] = g
          /\ \A u \in DOMAIN n.tables \ {t} : f[u] = n.tables[u]
          /\ f = [u \in DOMAIN f |-> f[u]]
      BY <3>2
    <3>6. f \in TableMaps
      <4>1. DOMAIN f \subseteq Pages /\ \A u \in DOMAIN f : f[u] \in EntryTable
        BY <3>2, <3>4, <3>5, MemoryIs
      <4> HIDE DEF f
      <4> QED BY <3>5, <4>1, TableMapMakes
    <3> HIDE DEF f
    <3>7. m2 \in Memory /\ m2.taken = n.taken /\ m2.last = n.last /\ m2.tables = f /\ m2.fault = n.fault
      BY <3>2, <3>3, <3>6 DEF Memory
    <3>8. MemOK(m2) /\ ~m2.fault
      BY <3>1, <3>5, <3>7 DEF MemOK
    <3>9. LinkedAt(m, t, i, p, m2)
      <4>1. \A j \in Indices : m2.tables[p][j] = Invalid
        BY <3>1, <3>2, <3>5, <3>7 DEF NoEntries
      <4> QED BY <1>1, <3>1, <3>4, <3>5, <3>7, <4>1 DEF LinkedAt
    <3>10. /\ Tree(m2, r) /\ TablesOf(m2, r) = TablesOf(m, r) \union {p}
           /\ Mid(m, r) \subseteq Mid(m2, r)
           /\ \A w \in VirtualPages : mmu_translate(m2, r, w) = mmu_translate(m, r, w)
      BY <1>1, <1>3, <3>1, <3>7, <3>9, LinkStep
    <3>11. \A u \in DOMAIN m.tables \ {t} : m2.tables[u] = m.tables[u]
      BY <3>9 DEF LinkedAt
    <3>12. m2.tables[t][i] # Invalid
      BY <3>4, <3>5, <3>7 DEF Branch, Invalid
    <3>13. t \in TablesOf(m, r)
      BY TablesOfIs
    <3>14. Extended(m, r, {p}, m2)
      BY <3>1, <3>5, <3>7, <3>8, <3>10, <3>11, <3>13 DEF Extended
    <3> QED BY <1>3, <3>8, <3>10, <3>11, <3>12, <3>14 DEF p, DescentOutcome
  <2> QED BY <2>3, <2>4
<1> QED BY <1>2, <1>3

\* A fault is final.
LEMMA SetOfFault ==
    ASSUME NEW m, m.fault, NEW r, NEW v, NEW e
    PROVE  mmu_set(m, r, v, e) = m
  BY DEF mmu_set, Descended, SetLevel2

\* mmu_set: the kernel runs into a NULL, for want of a page; or the entry of v is
\* written, and no other virtual page is mapped in another way than before.
SetOutcome(m, r, v, e, m2) ==
    \/ /\ CutShort(m, r, {}, m2) /\ mmu_translate(m, r, v) = NoPage
       /\ \E T \in {m.taken, m.taken \union {FirstFit(m.taken, 1)}} :
             FirstFit(T, 1) = NoPage
    \/ \E N \in SUBSET Pages :
          /\ Extended(m, r, N, m2) /\ ~m2.fault
          /\ mmu_translate(m, r, v) # NoPage => N = {}
          /\ \A w \in VirtualPages :
                mmu_translate(m2, r, w) = IF w = v THEN e.page ELSE mmu_translate(m, r, w)
\* mmu_map of one page, and mmu_unmap: the two levels of the descent and the entry.
LEMMA SetKeeps ==
    ASSUME NEW m, MemOK(m), ~m.fault, NEW r, Tree(m, r), NEW v \in VirtualPages,
           NEW e \in Entry, e.kind # "branch", NEW m2, m2 = mmu_set(m, r, v, e)
    PROVE  SetOutcome(m, r, v, e, m2)
<1> DEFINE i2 == vpn(v, 2)
           i1 == vpn(v, 1)
           i0 == vpn(v, 0)
           a == Descended(m, r, v, 2)
           t1 == Below(a, r, v, 2)
           b == Descended(a, t1, v, 1)
           t0 == Below(b, t1, v, 1)
<1>1. i2 \in Indices /\ i1 \in Indices /\ i0 \in Indices
  BY VpnIsIndex
<1>2. m \in Memory
  BY DEF MemOK
<1>3. m2 = IF a.fault THEN a ELSE IF b.fault THEN b ELSE [b EXCEPT !.tables[t0][i0] = e]
  BY DEF mmu_set, SetLevel2, SetLevel1, SetLevel0
<1>4. /\ mmu_translate(m, r, v) # NoPage => m.tables[r][i2] # Invalid
      /\ mmu_translate(m, r, v) # NoPage => m.tables[Below(m, r, v, 2)][i1] # Invalid
  <2>1. mmu_translate(m, r, v) # NoPage => Walk(m, r, v) # NoPage
    BY <1>2, WalkIs
  <2> QED BY <2>1 DEF Walk
<1>5. \/ /\ a = Fault(m) /\ FirstFit(m.taken, 1) = NoPage /\ m.tables[r][i2] = Invalid
      \/ \E N \in {{}, {FirstFit(m.taken, 1)}} :
            /\ Extended(m, r, N, a) /\ ~a.fault
            /\ m.tables[r][i2] # Invalid => N = {} /\ a = m
            /\ a.tables[r][i2] # Invalid
            /\ \A w \in VirtualPages : mmu_translate(a, r, w) = mmu_translate(m, r, w)
  <2>1. DescentOutcome(m, r, r, i2, a)
    BY <1>1, DescendKeeps
  <2> QED BY <2>1 DEF DescentOutcome
<1> HIDE DEF a
<1>6. CASE a.fault
  <2>1. m2 = a
    BY <1>3, <1>6
  <2>2. m2 = Fault(m) /\ FirstFit(m.taken, 1) = NoPage /\ m.tables[r][i2] = Invalid
    BY <1>5, <1>6, <2>1
  <2>3. Extended(m, r, {}, m)
    BY ExtendedNot
  <2>4. /\ Extended(m, r, {}, m2) /\ m2.fault
        /\ \A w \in VirtualPages : mmu_translate(m2, r, w) = mmu_translate(m, r, w)
    BY <2>2, <2>3, ExtendedFault
  <2>5. CutShort(m, r, {}, m2)
    BY <2>4 DEF CutShort
  <2> QED BY <1>4, <2>2, <2>5 DEF SetOutcome
<1>7. CASE ~a.fault
  <2>1. PICK N \in {{}, {FirstFit(m.taken, 1)}} :
            /\ Extended(m, r, N, a) /\ ~a.fault
            /\ m.tables[r][i2] # Invalid => N = {} /\ a = m
            /\ a.tables[r][i2] # Invalid
            /\ \A w \in VirtualPages : mmu_translate(a, r, w) = mmu_translate(m, r, w)
    <3>1. a # Fault(m)
      BY <1>2, <1>7, FaultIs
    <3> QED BY <1>5, <3>1
  <2>2. /\ MemOK(a) /\ Tree(a, r) /\ a.taken = m.taken \union N /\ a \in Memory
        /\ r \in DOMAIN a.tables
    BY <2>1 DEF Extended, MemOK, Tree
  <2>3. t1 \in Mid(a, r) /\ a.tables[r][i2] = Branch(t1) /\ t1 # r
    BY <1>1, <2>1, <2>2, WalkStep DEF Below, Tree
  <2> HIDE DEF t1
  <2>4. \/ /\ b = Fault(a) /\ FirstFit(a.taken, 1) = NoPage /\ a.tables[t1][i1] = Invalid
        \/ \E M \in {{}, {FirstFit(a.taken, 1)}} :
              /\ Extended(a, r, M, b) /\ ~b.fault
              /\ a.tables[t1][i1] # Invalid => M = {} /\ b = a
              /\ Mid(a, r) \subseteq Mid(b, r)
              /\ \A u \in DOMAIN a.tables \ {t1} : b.tables[u] = a.tables[u]
              /\ b.tables[t1][i1] # Invalid
              /\ \A w \in VirtualPages : mmu_translate(b, r, w) = mmu_translate(a, r, w)
    <3>1. DescentOutcome(a, r, t1, i1, b)
      BY <1>1, <1>7, <2>2, <2>3, DescendKeeps
    <3> QED BY <3>1 DEF DescentOutcome
  <2>5. mmu_translate(m, r, v) # NoPage => a = m /\ a.tables[t1][i1] # Invalid
    BY <1>4, <2>1 DEF t1
  <2> HIDE DEF b
  <2>6. CASE b.fault
    <3>1. m2 = b
      BY <1>3, <1>7, <2>6
    <3>3. b = Fault(a) /\ FirstFit(a.taken, 1) = NoPage /\ mmu_translate(m, r, v) = NoPage
      BY <2>4, <2>5, <2>6
    <3>4. a.taken = m.taken \/ a.taken = m.taken \union {FirstFit(m.taken, 1)}
      BY <2>1, <2>2
    <3>8. Extended(m, r, N, a) /\ m2 = Fault(a)
      BY <2>1, <3>1, <3>3
    <3>9. /\ Extended(m, r, N, m2) /\ m2.fault
          /\ \A w \in VirtualPages : mmu_translate(m2, r, w) = mmu_translate(a, r, w)
      <4>1. /\ Extended(m, r, N, Fault(a)) /\ Fault(a).fault
            /\ \A w \in VirtualPages : mmu_translate(Fault(a), r, w) = mmu_translate(a, r, w)
        BY <3>8, ExtendedFault
      <4> QED BY <3>8, <4>1
    <3>5. N \in SUBSET Pages /\ Extended(m, r, N, m2) /\ m2.fault
      BY <3>9 DEF Extended
    <3>6. \A w \in VirtualPages \ {} : mmu_translate(m2, r, w) = mmu_translate(m, r, w)
      BY <2>1, <3>9
    <3>7. CutShort(m, r, {}, m2)
      BY <3>5, <3>6, Zenon DEF CutShort
    <3> QED BY <3>3, <3>4, <3>7 DEF SetOutcome
  <2>7. CASE ~b.fault
    <3>1. PICK M \in {{}, {FirstFit(a.taken, 1)}} :
              /\ Extended(a, r, M, b) /\ ~b.fault
              /\ a.tables[t1][i1] # Invalid => M = {} /\ b = a
              /\ Mid(a, r) \subseteq Mid(b, r)
              /\ \A u \in DOMAIN a.tables \ {t1} : b.tables[u] = a.tables[u]
              /\ b.tables[t1][i1] # Invalid
              /\ \A w \in VirtualPages : mmu_translate(b, r, w) = mmu_translate(a, r, w)
      <4>1. b # Fault(a)
        BY <2>2, <2>7, FaultIs
      <4> QED BY <2>4, <4>1
    <3>2. MemOK(b) /\ Tree(b, r) /\ b \in Memory
      BY <3>1 DEF Extended, MemOK
    <3>3. b.tables[r][i2] = Branch(t1) /\ t1 \in Mid(b, r)
      BY <2>2, <2>3, <3>1
    <3>4. t0 \in Low(b, r) /\ b.tables[t1][i1] = Branch(t0) /\ t0 \in Pages
      BY <1>1, <3>1, <3>2, <3>3, WalkStep DEF Below
    <3>5. Walk(b, r, v) = t0
      <4>1. Below(b, r, v, 2) = t1
        BY <3>3 DEF Below, Branch
      <4> QED BY <3>1, <3>3, <4>1 DEF Walk, Branch, Invalid
    <3>6. t0 \in DOMAIN b.tables /\ t0 \in TablesOf(b, r) /\ t0 # NoPage
      BY <3>2, <3>4, TablesOfIs, NoPageIs DEF Tree
    <3> HIDE DEF t0
    <3> DEFINE g == [b.tables[t0] EXCEPT ![i0] = e]
               f == [b.tables EXCEPT ![t0] = g]
    <3>7. m2 = [b EXCEPT !.tables = f]
      BY <1>3, <1>7, <2>7, <3>2 DEF Memory
    <3>8. g \in EntryTable /\ \A j \in Indices : g[j] = IF j = i0 THEN e ELSE b.tables[t0][j]
      BY <1>1, <3>2, <3>6, MemoryIs DEF EntryTable
    <3> HIDE DEF g
    <3>9. /\ DOMAIN f = DOMAIN b.tables /\ f[t0] = g
          /\ \A u \in DOMAIN b.tables \ {t0} : f[u] = b.tables[u]
          /\ f = [u \in DOMAIN f |-> f[u]]
      BY <3>6
    <3>10. f \in TableMaps
      <4>1. DOMAIN f \subseteq Pages /\ \A u \in DOMAIN f : f[u] \in EntryTable
        BY <3>2, <3>8, <3>9, MemoryIs
      <4> HIDE DEF f
      <4> QED BY <3>9, <4>1, TableMapMakes
    <3> HIDE DEF f
    <3>11. /\ m2 \in Memory /\ m2.taken = b.taken /\ m2.last = b.last
           /\ m2.tables = f /\ m2.fault = b.fault
      BY <3>2, <3>7, <3>10 DEF Memory
    <3>12. WrittenAt(b, t0, i0, e, m2)
      BY <3>8, <3>9, <3>11 DEF WrittenAt
    <3>13. /\ Tree(m2, r) /\ TablesOf(m2, r) = TablesOf(b, r)
           /\ \A w \in VirtualPages :
                 mmu_translate(m2, r, w) = IF w = v THEN e.page ELSE mmu_translate(b, r, w)
      <4>1. WrittenAt(b, Walk(b, r, v), vpn(v, 0), e, m2) /\ Walk(b, r, v) # NoPage
        BY <3>5, <3>6, <3>12
      <4> QED BY <3>2, <3>11, <4>1, WriteStep
    <3>14. Extended(b, r, {}, m2)
      <4>1. MemOK(m2) /\ ~m2.fault
        BY <2>7, <3>2, <3>9, <3>11 DEF MemOK
      <4>2. DOMAIN m2.tables = DOMAIN b.tables
            /\ \A t \in DOMAIN b.tables \ TablesOf(b, r) : m2.tables[t] = b.tables[t]
        BY <3>6, <3>9, <3>11
      <4> QED BY <3>11, <3>13, <4>1, <4>2 DEF Extended
    <3>15. Extended(m, r, N \union M, m2)
      <4>1. Extended(m, r, N \union M, b)
        BY <2>1, <3>1, ExtendedTwice
      <4>2. Extended(m, r, (N \union M) \union {}, m2)
        BY <3>14, <4>1, ExtendedTwice
      <4> QED BY <4>2
    <3>16. mmu_translate(m, r, v) # NoPage => N \union M = {}
      BY <1>4, <2>1, <2>5, <3>1
    <3>17. N \union M \subseteq Pages
      BY <3>15 DEF Extended
    <3>18. \A w \in VirtualPages :
              mmu_translate(m2, r, w) = IF w = v THEN e.page ELSE mmu_translate(m, r, w)
      BY <2>1, <3>1, <3>13
    <3> DEFINE K == N \union M
    <3> HIDE DEF K
    <3>19. K \in SUBSET Pages /\ Extended(m, r, K, m2) /\ (mmu_translate(m, r, v) # NoPage => K = {})
      BY <3>15, <3>16, <3>17 DEF K
    <3>21. ~m2.fault
      BY <2>7, <3>11
    <3>20. \E X \in SUBSET Pages :
              /\ Extended(m, r, X, m2) /\ ~m2.fault
              /\ mmu_translate(m, r, v) # NoPage => X = {}
              /\ \A w \in VirtualPages :
                    mmu_translate(m2, r, w) = IF w = v THEN e.page ELSE mmu_translate(m, r, w)
      BY <3>18, <3>19, <3>21, Zenon
    <3> QED BY <3>20, Zenon DEF SetOutcome
  <2> QED BY <2>6, <2>7
<1> QED BY <1>6, <1>7

\* mmu_map_multiple: the same for n pages in a row.
MapOutcome(m, r, v, p, n, m2) ==
    \/ CutShort(m, r, v .. v + n - 1, m2)
    \/ \E N \in SUBSET Pages :
          /\ Extended(m, r, N, m2) /\ ~m2.fault
          /\ \A w \in VirtualPages :
                mmu_translate(m2, r, w) = IF w \in v .. v + n - 1 THEN p + (w - v)
                                         ELSE mmu_translate(m, r, w)
\* One more round of mmu_map_multiple.
LEMMA MapRound ==
    ASSUME NEW m, MemOK(m), NEW r, NEW v \in Nat, NEW p \in Int, NEW n \in Nat,
           v + n \in VirtualPages, NEW m2, MapOutcome(m, r, v, p, n, m2)
    PROVE  MapOutcome(m, r, v, p, n + 1, mmu_map(m2, r, v + n, p + n))
<1> DEFINE m3 == mmu_map(m2, r, v + n, p + n)
           e == Leaf(p + n)
<1>1. m3 = mmu_set(m2, r, v + n, e)
  BY DEF mmu_map
<1>2. CASE CutShort(m, r, v .. v + n - 1, m2)
  <2>1. m3 = m2
    BY <1>1, <1>2, SetOfFault DEF CutShort
  <2>2. v .. v + n - 1 \subseteq v .. v + (n + 1) - 1
    OBVIOUS
  <2>3. CutShort(m, r, v .. v + (n + 1) - 1, m2)
    BY <1>2, <2>2 DEF CutShort
  <2> QED BY <2>1, <2>3 DEF MapOutcome
<1>3. CASE \E N \in SUBSET Pages :
              /\ Extended(m, r, N, m2) /\ ~m2.fault
              /\ \A w \in VirtualPages :
                    mmu_translate(m2, r, w) = IF w \in v .. v + n - 1 THEN p + (w - v)
                                             ELSE mmu_translate(m, r, w)
  <2>1. PICK N \in SUBSET Pages :
              /\ Extended(m, r, N, m2) /\ ~m2.fault
              /\ \A w \in VirtualPages :
                    mmu_translate(m2, r, w) = IF w \in v .. v + n - 1 THEN p + (w - v)
                                             ELSE mmu_translate(m, r, w)
    BY <1>3
  <2>2. MemOK(m2) /\ ~m2.fault /\ Tree(m2, r)
    BY <2>1 DEF Extended
  <2>3. e \in Entry /\ e.kind # "branch" /\ e.page = p + n
    BY EntryMakes
  <2> HIDE DEF e, m3
  <2>4. SetOutcome(m2, r, v + n, e, m3)
    BY <1>1, <2>2, <2>3, SetKeeps
  <2>5. CASE CutShort(m2, r, {}, m3)
    <3> DEFINE W == v .. v + (n + 1) - 1
    <3>1. \A w \in VirtualPages \ W : w \notin v .. v + n - 1
      BY DEF VirtualPages
    <3>2. \A w \in VirtualPages \ W : mmu_translate(m2, r, w) = mmu_translate(m, r, w)
      BY <2>1, <3>1
    <3> HIDE DEF W
    <3>3. CutShort(m, r, W, m3)
      BY <2>1, <2>5, <3>2, CutTwice
    <3> QED BY <3>3 DEF MapOutcome, m3, W
  <2>6. CASE \E M \in SUBSET Pages :
                 /\ Extended(m2, r, M, m3) /\ ~m3.fault
                 /\ \A w \in VirtualPages :
                       mmu_translate(m3, r, w) = IF w = v + n THEN e.page ELSE mmu_translate(m2, r, w)
    <3>1. PICK M \in SUBSET Pages :
                 /\ Extended(m2, r, M, m3) /\ ~m3.fault
                 /\ \A w \in VirtualPages :
                       mmu_translate(m3, r, w) = IF w = v + n THEN e.page ELSE mmu_translate(m2, r, w)
      BY <2>6
    <3>2. Extended(m, r, N \union M, m3)
      BY <2>1, <3>1, ExtendedTwice
    <3>3. ASSUME NEW w \in VirtualPages
          PROVE  mmu_translate(m3, r, w) = IF w \in v .. v + (n + 1) - 1 THEN p + (w - v)
                                          ELSE mmu_translate(m, r, w)
      <4>1. w \in Int
        BY DEF VirtualPages
      <4>2. CASE w = v + n
        <5>1. mmu_translate(m3, r, w) = p + n
          BY <2>3, <3>1, <4>2
        <5>2. w \in v .. v + (n + 1) - 1 /\ p + (w - v) = p + n
          BY <4>2
        <5> QED BY <5>1, <5>2
      <4>3. CASE w # v + n
        <5>1. mmu_translate(m3, r, w) = mmu_translate(m2, r, w)
          BY <3>1, <4>3
        <5>2. w \in v .. v + (n + 1) - 1 <=> w \in v .. v + n - 1
          BY <4>1, <4>3
        <5> QED BY <2>1, <5>1, <5>2
      <4> QED BY <4>2, <4>3
    <3>4. N \union M \in SUBSET Pages
      OBVIOUS
    <3> QED BY <3>1, <3>2, <3>3, <3>4 DEF MapOutcome, m3
  <2> QED BY <2>4, <2>5, <2>6 DEF SetOutcome
<1> QED BY <1>2, <1>3 DEF MapOutcome

\* mmu_map_multiple: every page of the range is mapped, or a table could not be had.
LEMMA MapKeeps ==
    ASSUME NEW m, MemOK(m), NEW r, Tree(m, r), NEW v \in Nat, NEW p \in Int, NEW n \in Nat,
           \A i \in 0 .. n - 1 : v + i \in VirtualPages
    PROVE  MapOutcome(m, r, v, p, n, mmu_map_multiple(m, r, v, p, n))
<1> DEFINE S == {x \in Memory : MemOK(x) /\ Tree(x, r)}
           R(x, i) == mmu_map(x, r, v + i - 1, p + i - 1)
           F == [x \in (1 .. n) \X S |-> R(x[2], x[1])]
           G(g) == g = [i \in 0 .. n |-> IF i = 0 THEN m ELSE R(g[i - 1], i)]
           A == CHOOSE g : G(g)
<1>1. ASSUME NEW x \in S, NEW i \in 1 .. n PROVE R(x, i) \in S
  <2>1. /\ R(x, i) = mmu_set(x, r, v + i - 1, Leaf(p + i - 1)) /\ v + i - 1 \in VirtualPages
        /\ Leaf(p + i - 1) \in Entry /\ Leaf(p + i - 1).kind # "branch"
    <3>1. i - 1 \in 0 .. n - 1 /\ v + (i - 1) = v + i - 1 /\ p + i - 1 \in Int
      OBVIOUS
    <3> QED BY <3>1, EntryMakes DEF mmu_map
  <2> DEFINE y == R(x, i)
             e == Leaf(p + i - 1)
             u == v + i - 1
  <2> HIDE DEF y, e, u
  <2>2. CASE x.fault
    BY <2>1, <2>2, SetOfFault
  <2>3. CASE ~x.fault
    <3>1. MemOK(x) /\ Tree(x, r)
      BY <2>3
    <3>2. SetOutcome(x, r, u, e, y)
      BY <2>1, <2>3, <3>1, SetKeeps DEF y, e, u
    <3>3. y \in Memory /\ MemOK(y) /\ Tree(y, r)
      BY <3>2 DEF SetOutcome, CutShort, Extended, MemOK
    <3> QED BY <3>3 DEF y
  <2> QED BY <2>2, <2>3
<1>2. F \in [(1 .. n) \X S -> S]
  BY <1>1
<1>3. mmu_map_multiple(m, r, v, p, n) = A[n]
  BY DEF mmu_map_multiple
<1>4. m \in S
  BY DEF MemOK
<1> HIDE DEF S, R
<1>5. PICK c : c \in [0 .. n -> S] /\ c[0] = m /\ \A i \in 1 .. n : c[i] = F[<<i, c[i - 1]>>]
  <2> HIDE DEF F
  <2>1. PICK c : c \in Rounds(n, S, m, F)
    BY <1>2, <1>4, LoopHasValues
  <2> QED BY <2>1 DEF Rounds
<1>6. ASSUME NEW i \in 1 .. n PROVE c[i] = R(c[i - 1], i)
  <2>1. i - 1 \in 0 .. n
    OBVIOUS
  <2>2. c[i - 1] \in S
    BY <1>5, <2>1
  <2>3. F[<<i, c[i - 1]>>] = R(c[i - 1], i)
    BY <2>2
  <2> QED BY <1>5, <2>3
<1>7. G(c)
  BY <1>5, <1>6
<1>8. G(A)
  BY <1>7
<1> HIDE DEF A
<1>9. A[0] = m /\ \A i \in 1 .. n : A[i] = R(A[i - 1], i)
  BY <1>8
<1> DEFINE T == {i \in 0 .. n : MapOutcome(m, r, v, p, i, A[i])}
<1>10. 0 \in T
  <2>1. Extended(m, r, {}, m)
    BY ExtendedNot
  <2>2. \A w \in VirtualPages : w \notin v .. v + 0 - 1
    OBVIOUS
  <2>3. MapOutcome(m, r, v, p, 0, m)
    BY <2>1, <2>2 DEF MapOutcome, CutShort
  <2> QED BY <1>9, <2>3
<1>11. \A i \in 0 .. n - 1 : i \in T => i + 1 \in T
  <2> SUFFICES ASSUME NEW i \in 0 .. n - 1, i \in T PROVE i + 1 \in T
    OBVIOUS
  <2>1. i + 1 \in 1 .. n /\ (i + 1) - 1 = i /\ v + i \in VirtualPages /\ i \in Nat
    OBVIOUS
  <2>2. A[i + 1] = R(A[i], i + 1)
    BY <1>9, <2>1
  <2>3. A[i + 1] = mmu_map(A[i], r, v + i, p + i)
    <3>1. v + (i + 1) - 1 = v + i /\ p + (i + 1) - 1 = p + i
      BY <2>1
    <3> QED BY <2>2, <3>1 DEF R
  <2>4. MapOutcome(m, r, v, p, i, A[i])
    OBVIOUS
  <2>5. MapOutcome(m, r, v, p, i + 1, A[i + 1])
    BY <2>1, <2>3, <2>4, MapRound
  <2> QED BY <2>1, <2>5
<1> HIDE DEF T
<1>12. n \in T
  BY <1>10, <1>11, InductionUpTo
<1> QED BY <1>3, <1>12 DEF T

\* page_free of pages that are one allocation.
LEMMA FreedIs ==
    ASSUME NEW m, MemOK(m), NEW loc \in Pages, NEW e \in Pages, loc <= e,
           loc .. e \subseteq m.taken, (loc .. e - 1) \cap m.last = {}, e \in m.last
    PROVE  /\ MemOK(Freed(m, loc))
           /\ Freed(m, loc).taken = m.taken \ (loc .. e)
           /\ Freed(m, loc).last = (m.last \union ({loc - 1} \cap m.taken)) \ {e}
           /\ Freed(m, loc).fault = m.fault
           /\ DOMAIN Freed(m, loc).tables = DOMAIN m.tables \ (loc .. e)
           /\ \A t \in DOMAIN m.tables \ (loc .. e) : Freed(m, loc).tables[t] = m.tables[t]
<1> DEFINE gone == loc .. e
           f == [t \in DOMAIN m.tables \ gone |-> m.tables[t]]
           L == (m.last \union ({loc - 1} \cap m.taken)) \ {e}
           m2 == [m EXCEPT !.taken = @ \ gone, !.last = L, !.tables = f]
<1>1. loc \in Nat /\ e \in Nat /\ TotalPages \in Nat /\ e < TotalPages /\ e \in m.taken
  BY PagesAssumption DEF Pages
<1>2. StopsAt(m.taken, m.last, loc, e)
  BY <1>1 DEF StopsAt
<1>3. FreeStop(m.taken, m.last, loc) = e
  BY <1>1, <1>2, FreeStopIs
<1>4. m \in Memory
  BY DEF MemOK
<1>5. Freed(m, loc) = m2
  <2>1. m = [taken |-> m.taken, last |-> m.last, tables |-> m.tables, fault |-> m.fault]
    BY <1>4 DEF Memory
  <2> QED BY <1>1, <1>3, <2>1 DEF Freed
<1>6. f \in TableMaps /\ DOMAIN f = DOMAIN m.tables \ gone /\ \A t \in DOMAIN f : f[t] = m.tables[t]
  <2>1. DOMAIN f = DOMAIN m.tables \ gone /\ \A t \in DOMAIN f : f[t] = m.tables[t]
    OBVIOUS
  <2>2. f = [t \in DOMAIN f |-> f[t]]
    OBVIOUS
  <2> HIDE DEF f
  <2>3. DOMAIN f \subseteq Pages /\ \A t \in DOMAIN f : f[t] \in EntryTable
    BY <1>4, <2>1, MemoryIs
  <2> QED BY <2>1, <2>2, <2>3, TableMapMakes
<1> HIDE DEF f
<1>7. L \subseteq Pages /\ m.taken \ gone \subseteq Pages
  BY <1>4, MemoryIs
<1> HIDE DEF L, gone
<1>8. /\ m2 \in Memory /\ m2.taken = m.taken \ gone /\ m2.last = L /\ m2.tables = f
      /\ m2.fault = m.fault
  BY <1>4, <1>6, <1>7 DEF Memory
<1> HIDE DEF m2
<1>9. MemOK(m2)
  BY <1>6, <1>8 DEF MemOK
<1> QED BY <1>5, <1>6, <1>8, <1>9 DEF L, gone

\* The end bits: the pages of I are not the last of their allocation, and the
\* only other ones that are not are in J.
EndBits(T, L, I, J) == L \subseteq T /\ I \cap L = {} /\ T \ L \subseteq I \union J

\* page_free of an allocation of one page.
LEMMA FreedOne ==
    ASSUME NEW m, MemOK(m), NEW I, NEW J, EndBits(m.taken, m.last, I, J),
           NEW x \in m.taken, x \notin I, x \notin J, x - 1 \notin I
    PROVE  /\ MemOK(Freed(m, x)) /\ Freed(m, x).fault = m.fault
           /\ Freed(m, x).taken = m.taken \ {x}
           /\ DOMAIN Freed(m, x).tables = DOMAIN m.tables \ {x}
           /\ \A t \in DOMAIN m.tables \ {x} : Freed(m, x).tables[t] = m.tables[t]
           /\ EndBits(Freed(m, x).taken, Freed(m, x).last, I, J \ {x - 1})
<1>1. x \in m.last /\ x \in Pages /\ x \in Nat
  BY MemoryIs, NoPageIs DEF EndBits, MemOK
<1>2. x .. x = {x} /\ x .. x - 1 = {} /\ x <= x
  BY <1>1
<1>3. /\ MemOK(Freed(m, x))
      /\ Freed(m, x).taken = m.taken \ {x}
      /\ Freed(m, x).last = (m.last \union ({x - 1} \cap m.taken)) \ {x}
      /\ Freed(m, x).fault = m.fault
      /\ DOMAIN Freed(m, x).tables = DOMAIN m.tables \ {x}
      /\ \A t \in DOMAIN m.tables \ {x} : Freed(m, x).tables[t] = m.tables[t]
  <2>1. x .. x \subseteq m.taken /\ (x .. x - 1) \cap m.last = {}
    BY <1>2
  <2> QED BY <1>1, <1>2, <2>1, FreedIs
<1>4. EndBits(Freed(m, x).taken, Freed(m, x).last, I, J \ {x - 1})
  BY <1>3 DEF EndBits
<1> QED BY <1>3, <1>4

(* The heap's pages *)

\* The pages of the heap are virtual pages.
LEMMA HeapVirtual == \A k \in HeapPages : HeapStart + k \in VirtualPages
<1> SUFFICES ASSUME NEW k \in HeapPages PROVE HeapStart + k \in VirtualPages
  OBVIOUS
<1>1. HeapStart \in Nat /\ MaxHeapPages \in Nat /\ HeapStart .. HeapStart + MaxHeapPages - 1 \subseteq VirtualPages
  BY HeapAssumption
<1>2. HeapStart + k \in HeapStart .. HeapStart + MaxHeapPages - 1
  BY <1>1 DEF HeapPages
<1> QED BY <1>1, <1>2

\* Pages of the heap that the next one follows.
Joints(m, top) ==
    {y \in Pages : \E k \in 0 .. top - 2 : HeapPage(m, k) = y /\ HeapPage(m, k + 1) = y + 1}

\* The heap, up to page `top', is mapped to pages that are not tables of the kernel.
\* (Of the pages of O nobody knows where an allocation ends.)
HeapMapped(m, top, I, O) ==
    /\ MemOK(m) /\ Tree(m, kernel_mmu_table)
    /\ top \in Nat /\ top <= MaxHeapPages
    /\ \A k \in 0 .. top - 1 :
          /\ HeapPage(m, k) \in m.taken /\ HeapPage(m, k) \notin TablesOf(m, kernel_mmu_table)
          /\ HeapPage(m, k) \notin I /\ HeapPage(m, k) - 1 \notin I /\ HeapPage(m, k) \notin O
    /\ \A j, k \in 0 .. top - 1 : j # k => HeapPage(m, j) # HeapPage(m, k)
    /\ EndBits(m.taken, m.last, I, Joints(m, top) \union O)

\* m2 is m without the pages i .. top - 1 of the heap, which nobody can unmap any more
\* after a fault.
Shortened(m, top, i, m2) ==
    /\ m2.fault = m.fault
    /\ TablesOf(m2, kernel_mmu_table) = TablesOf(m, kernel_mmu_table)
    /\ m2.taken = m.taken \ {HeapPage(m, k) : k \in i .. top - 1}
    /\ DOMAIN m2.tables = DOMAIN m.tables \ {HeapPage(m, k) : k \in i .. top - 1}
    /\ \A t \in DOMAIN m2.tables \ TablesOf(m, kernel_mmu_table) : m2.tables[t] = m.tables[t]
    /\ \A w \in VirtualPages :
          IF w \in HeapStart + i .. HeapStart + top - 1
          THEN m.fault \/ mmu_translate(m2, kernel_mmu_table, w) = NoPage
          ELSE mmu_translate(m2, kernel_mmu_table, w) = mmu_translate(m, kernel_mmu_table, w)

\* One round of heap_shrink.
LEMMA DropPage ==
    ASSUME NEW m, NEW I, NEW O, NEW top, HeapMapped(m, top, I, O), top > 0
    PROVE  /\ HeapMapped(PageDropped(m, top - 1), top - 1, I, O)
           /\ Shortened(m, top, top - 1, PageDropped(m, top - 1))
<1> DEFINE K == kernel_mmu_table
           k == top - 1
           x == HeapPage(m, k)
           v == HeapStart + k
           f == Freed(m, x)
           m2 == PageDropped(m, k)
<1>1. /\ k \in Nat /\ k \in 0 .. top - 1 /\ k \in HeapPages /\ v \in VirtualPages /\ top \in Nat
      /\ MaxHeapPages \in Nat /\ HeapStart \in Nat
  <2>1. k \in HeapPages /\ k \in 0 .. top - 1 /\ k \in Nat
    BY HeapAssumption DEF HeapMapped, HeapPages
  <2> QED BY <2>1, HeapVirtual, HeapAssumption DEF HeapMapped
<1>2. /\ MemOK(m) /\ Tree(m, K) /\ EndBits(m.taken, m.last, I, Joints(m, top) \union O)
      /\ x \in m.taken /\ x \notin TablesOf(m, K) /\ x \notin I /\ x - 1 \notin I /\ x \notin O
  BY <1>1 DEF HeapMapped
<1>3. m2 = mmu_set(f, K, v, Invalid)
  BY DEF PageDropped, mmu_unmap
<1>4. x = mmu_translate(m, K, v)
  BY DEF HeapPage
<1> HIDE DEF m2, v, k
<1>5. \A j \in 0 .. top - 1 : j # k => HeapPage(m, j) # x
  BY <1>1 DEF HeapMapped
<1>6. x \notin Joints(m, top)
  BY <1>1, <1>5 DEF Joints, k
<1>7. /\ MemOK(f) /\ f.fault = m.fault /\ f.taken = m.taken \ {x}
      /\ DOMAIN f.tables = DOMAIN m.tables \ {x}
      /\ \A t \in DOMAIN m.tables \ {x} : f.tables[t] = m.tables[t]
      /\ EndBits(f.taken, f.last, I, (Joints(m, top) \union O) \ {x - 1})
  <2> DEFINE J == Joints(m, top) \union O
  <2>1. EndBits(m.taken, m.last, I, J) /\ x \notin J
    BY <1>2, <1>6
  <2> HIDE DEF J, x
  <2>2. /\ MemOK(f) /\ f.fault = m.fault /\ f.taken = m.taken \ {x}
        /\ DOMAIN f.tables = DOMAIN m.tables \ {x}
        /\ \A t \in DOMAIN m.tables \ {x} : f.tables[t] = m.tables[t]
        /\ EndBits(f.taken, f.last, I, J \ {x - 1})
    BY <1>2, <2>1, FreedOne
  <2> QED BY <2>2 DEF J
<1> HIDE DEF f, x
<1>8. m \in Memory /\ f \in Memory
  BY <1>2, <1>7 DEF MemOK
<1>9. /\ Tree(f, K) /\ TablesOf(f, K) = TablesOf(m, K)
      /\ \A w \in VirtualPages : mmu_translate(f, K, w) = mmu_translate(m, K, w)
  <2>1. \A t \in TablesOf(m, K) : t \in DOMAIN f.tables /\ f.tables[t] = m.tables[t]
    BY <1>2, <1>7, TablesOfIs DEF Tree
  <2> QED BY <1>2, <1>8, <2>1, FrameStep
<1>10. mmu_translate(f, K, v) # NoPage
  BY <1>1, <1>2, <1>4, <1>8, <1>9, MemoryIs, NoPageIs
<1>11. /\ Extended(f, K, {}, m2) /\ m2.fault = m.fault
       /\ \A w \in VirtualPages :
             IF w = v THEN m.fault \/ mmu_translate(m2, K, w) = NoPage
             ELSE mmu_translate(m2, K, w) = mmu_translate(f, K, w)
  <2>1. CASE ~m.fault
    <3>1. SetOutcome(f, K, v, Invalid, m2)
      BY <1>1, <1>3, <1>7, <1>9, <2>1, EntryMakes, SetKeeps
    <3>2. ~m2.fault /\ Extended(f, K, {}, m2)
      BY <1>10, <3>1 DEF SetOutcome
    <3>3. \A w \in VirtualPages :
             mmu_translate(m2, K, w) = IF w = v THEN NoPage ELSE mmu_translate(f, K, w)
      BY <1>10, <3>1, EntryMakes DEF SetOutcome
    <3> QED BY <1>8, <2>1, <3>2, <3>3, MemoryIs DEF Extended, MemOK
  <2>2. CASE m.fault
    <3>1. m2 = f
      BY <1>3, <1>7, <2>2, SetOfFault
    <3> QED BY <1>7, <1>9, <2>2, <3>1, ExtendedNot
  <2> QED BY <2>1, <2>2
<1>12. /\ MemOK(m2) /\ m2.fault = m.fault /\ Tree(m2, K) /\ m2.taken = f.taken /\ m2.last = f.last
       /\ DOMAIN m2.tables = DOMAIN f.tables /\ TablesOf(m2, K) = TablesOf(f, K)
       /\ \A t \in DOMAIN f.tables \ TablesOf(f, K) : m2.tables[t] = f.tables[t]
  BY <1>11 DEF Extended
<1>13. \A w \in VirtualPages : IF w = v THEN m.fault \/ mmu_translate(m2, K, w) = NoPage
                               ELSE mmu_translate(m2, K, w) = mmu_translate(m, K, w)
  BY <1>9, <1>11
<1>14. ASSUME NEW j \in 0 .. k - 1 PROVE HeapPage(m2, j) = HeapPage(m, j) /\ j \in 0 .. top - 1 /\ j # k
  <2>1. j \in HeapPages /\ j \in 0 .. top - 1
    BY <1>1, HeapAssumption DEF HeapPages, k
  <2>2. HeapStart + j \in VirtualPages /\ HeapStart + j # v
    BY <1>1, <2>1, HeapVirtual DEF v
  <2> QED BY <1>1, <1>13, <2>1, <2>2 DEF HeapPage
<1>15. HeapMapped(m2, k, I, O)
  <2>1. \A j \in 0 .. k - 1 :
           /\ HeapPage(m2, j) \in m2.taken /\ HeapPage(m2, j) \notin TablesOf(m2, K)
           /\ HeapPage(m2, j) \notin I /\ HeapPage(m2, j) - 1 \notin I /\ HeapPage(m2, j) \notin O
    BY <1>5, <1>7, <1>9, <1>12, <1>14 DEF HeapMapped
  <2>2. \A i, j \in 0 .. k - 1 : i # j => HeapPage(m2, i) # HeapPage(m2, j)
    BY <1>14 DEF HeapMapped
  <2>3. Joints(m, top) \ {x - 1} \subseteq Joints(m2, k)
    <3> SUFFICES ASSUME NEW y \in Joints(m, top), y # x - 1 PROVE y \in Joints(m2, k)
      OBVIOUS
    <3>1. PICK j \in 0 .. top - 2 : HeapPage(m, j) = y /\ HeapPage(m, j + 1) = y + 1
      BY DEF Joints
    <3>2. y \in Int /\ y \in Pages
      BY NoPageIs DEF Joints
    <3>3. j + 1 # k
      BY <1>1, <3>1, <3>2 DEF x
    <3>4. j \in 0 .. k - 1 /\ j + 1 \in 0 .. k - 1 /\ j \in 0 .. k - 2
      BY <1>1, <3>1, <3>3 DEF k
    <3>5. HeapPage(m2, j) = y /\ HeapPage(m2, j + 1) = y + 1
      BY <1>14, <3>1, <3>4
    <3> QED BY <3>2, <3>4, <3>5 DEF Joints
  <2>4. EndBits(m2.taken, m2.last, I, Joints(m2, k) \union O)
    BY <1>7, <1>12, <2>3 DEF EndBits
  <2>5. k \in Nat /\ k <= MaxHeapPages
    BY <1>1 DEF HeapMapped, k
  <2> QED BY <1>12, <2>1, <2>2, <2>4, <2>5 DEF HeapMapped
<1>16. Shortened(m, top, k, m2)
  <2>1. {HeapPage(m, j) : j \in k .. top - 1} = {x}
    <3>1. k .. top - 1 = {k}
      BY <1>1 DEF k
    <3> QED BY <3>1 DEF x
  <2>2. HeapStart + k .. HeapStart + top - 1 = {v}
    BY <1>1 DEF k, v
  <2>3. \A w \in VirtualPages :
          IF w \in {v} THEN m.fault \/ mmu_translate(m2, K, w) = NoPage
          ELSE mmu_translate(m2, K, w) = mmu_translate(m, K, w)
    BY <1>13
  <2>4. \A t \in DOMAIN m2.tables \ TablesOf(m, K) : m2.tables[t] = m.tables[t]
    BY <1>7, <1>9, <1>12
  <2> QED BY <1>7, <1>9, <1>12, <2>1, <2>2, <2>3, <2>4 DEF Shortened
<1> QED BY <1>15, <1>16 DEF m2, k

\* A heap that was shortened has the pages below as they were and none above.
LEMMA ShortenedBelow ==
    ASSUME NEW m, NEW top \in Nat, NEW i \in Nat, i <= top, top <= MaxHeapPages, NEW m2,
           Shortened(m, top, i, m2), NEW k \in HeapPages
    PROVE  /\ k \in i .. top - 1 => m.fault \/ HeapPage(m2, k) = NoPage
           /\ k \notin i .. top - 1 => HeapPage(m2, k) = HeapPage(m, k)
<1>1. HeapStart + k \in VirtualPages /\ HeapStart \in Nat /\ k \in Nat
  BY HeapVirtual, HeapAssumption DEF HeapPages
<1>2. HeapStart + k \in HeapStart + i .. HeapStart + top - 1 <=> k \in i .. top - 1
  BY <1>1
<1> QED BY <1>1, <1>2 DEF Shortened, HeapPage

\* Shortening by one more page.
LEMMA ShortenedTwice ==
    ASSUME NEW m, NEW top \in Nat, NEW i \in Nat, i <= top, i > 0, top <= MaxHeapPages, NEW m2, NEW m3,
           Shortened(m, top, i, m2), Shortened(m2, i, i - 1, m3)
    PROVE  Shortened(m, top, i - 1, m3)
<1> DEFINE K == kernel_mmu_table
           x == HeapPage(m, i - 1)
           X == {HeapPage(m, k) : k \in i .. top - 1}
<1>1. i - 1 \in HeapPages /\ i - 1 \notin i .. top - 1
  BY HeapAssumption DEF HeapPages
<1>2. HeapPage(m2, i - 1) = x
  <2> DEFINE k == i - 1
  <2>1. k \in HeapPages /\ k \notin i .. top - 1
    BY <1>1
  <2> HIDE DEF k
  <2>2. HeapPage(m2, k) = HeapPage(m, k)
    BY <2>1, ShortenedBelow
  <2> QED BY <2>2 DEF k
<1>3. {HeapPage(m2, k) : k \in i - 1 .. i - 1} = {x}
  <2>1. i - 1 .. i - 1 = {i - 1}
    OBVIOUS
  <2> QED BY <1>2, <2>1
<1>4. {HeapPage(m, k) : k \in i - 1 .. top - 1} = X \union {x}
  <2>1. i - 1 .. top - 1 = (i .. top - 1) \union {i - 1}
    OBVIOUS
  <2> QED BY <2>1
<1> HIDE DEF x, X
<1>5. /\ TablesOf(m2, K) = TablesOf(m, K) /\ m2.taken = m.taken \ X
      /\ DOMAIN m2.tables = DOMAIN m.tables \ X
      /\ \A t \in DOMAIN m2.tables \ TablesOf(m, K) : m2.tables[t] = m.tables[t]
  BY DEF Shortened, X
<1>6. /\ TablesOf(m3, K) = TablesOf(m2, K) /\ m3.taken = m2.taken \ {x}
      /\ DOMAIN m3.tables = DOMAIN m2.tables \ {x}
      /\ \A t \in DOMAIN m3.tables \ TablesOf(m2, K) : m3.tables[t] = m2.tables[t]
  BY <1>3 DEF Shortened
<1>7. ASSUME NEW w \in VirtualPages
      PROVE  IF w \in HeapStart + (i - 1) .. HeapStart + top - 1
             THEN m.fault \/ mmu_translate(m3, K, w) = NoPage
             ELSE mmu_translate(m3, K, w) = mmu_translate(m, K, w)
  <2>1. HeapStart \in Nat /\ w \in Int
    BY HeapAssumption DEF VirtualPages
  <2>2. IF w \in HeapStart + (i - 1) .. HeapStart + i - 1
        THEN m2.fault \/ mmu_translate(m3, K, w) = NoPage
        ELSE mmu_translate(m3, K, w) = mmu_translate(m2, K, w)
    BY DEF Shortened
  <2>3. /\ m2.fault = m.fault
        /\ IF w \in HeapStart + i .. HeapStart + top - 1
           THEN m.fault \/ mmu_translate(m2, K, w) = NoPage
           ELSE mmu_translate(m2, K, w) = mmu_translate(m, K, w)
    BY DEF Shortened
  <2>4. w \in HeapStart + (i - 1) .. HeapStart + top - 1 <=>
           w \in HeapStart + (i - 1) .. HeapStart + i - 1 \/ w \in HeapStart + i .. HeapStart + top - 1
    BY <2>1
  <2> QED BY <2>2, <2>3, <2>4
<1>8. /\ TablesOf(m3, K) = TablesOf(m, K) /\ m3.taken = m.taken \ (X \union {x})
      /\ DOMAIN m3.tables = DOMAIN m.tables \ (X \union {x})
      /\ \A t \in DOMAIN m3.tables \ TablesOf(m, K) : m3.tables[t] = m.tables[t]
      /\ m3.fault = m.fault
  BY <1>5, <1>6 DEF Shortened
<1> QED BY <1>4, <1>7, <1>8 DEF Shortened

\* heap_shrink's loop: no round of it can fault.
LEMMA DropPages ==
    ASSUME NEW m, NEW I, NEW O, NEW top, HeapMapped(m, top, I, O), NEW n \in Nat, n <= top
    PROVE  /\ HeapMapped(PagesDropped(m, top, n), top - n, I, O)
           /\ Shortened(m, top, top - n, PagesDropped(m, top, n))
<1> DEFINE P(i, x) == HeapMapped(x, top - i, I, O) /\ Shortened(m, top, top - i, x)
           R(x, i) == PageDropped(x, top - i)
           F == [x \in (1 .. n) \X Memory |->
                   IF R(x[2], x[1]) \in Memory THEN R(x[2], x[1]) ELSE x[2]]
           G(g) == g = [i \in 0 .. n |-> IF i = 0 THEN m ELSE R(g[i - 1], i)]
           A == CHOOSE g : G(g)
<1>1. top \in Nat /\ top <= MaxHeapPages /\ m \in Memory
  BY DEF HeapMapped, MemOK
<1>2. ASSUME NEW i \in 1 .. n, NEW x, P(i - 1, x) PROVE P(i, R(x, i)) /\ R(x, i) \in Memory
  <2> DEFINE j == top - i + 1
  <2>1. /\ j \in Nat /\ j > 0 /\ j <= top /\ top - (i - 1) = j /\ j - 1 = top - i
    BY <1>1
  <2>2. HeapMapped(x, j, I, O) /\ Shortened(m, top, j, x)
    BY <1>2, <2>1
  <2> HIDE DEF j
  <2>3. HeapMapped(PageDropped(x, j - 1), j - 1, I, O) /\ Shortened(x, j, j - 1, PageDropped(x, j - 1))
    BY <2>1, <2>2, DropPage
  <2>4. Shortened(m, top, j - 1, PageDropped(x, j - 1))
    BY <1>1, <2>1, <2>2, <2>3, ShortenedTwice
  <2>5. PageDropped(x, j - 1) = R(x, i)
    BY <2>1
  <2>6. P(i, R(x, i))
    <3> HIDE DEF R
    <3> QED BY <2>1, <2>3, <2>4, <2>5
  <2> QED BY <2>6 DEF HeapMapped, MemOK
<1>3. P(0, m)
  <2>1. top - 0 = top
    BY <1>1
  <2>2. top .. top - 1 = {} /\ HeapStart + top .. HeapStart + top - 1 = {}
    BY <1>1, HeapAssumption
  <2>3. Shortened(m, top, top, m)
    BY <2>2 DEF Shortened
  <2> QED BY <2>1, <2>3
<1>4. PagesDropped(m, top, n) = A[n]
  BY DEF PagesDropped
<1> HIDE DEF P, R
<1>5. F \in [(1 .. n) \X Memory -> Memory]
  OBVIOUS
<1>6. PICK c : c \in [0 .. n -> Memory] /\ c[0] = m /\ \A i \in 1 .. n : c[i] = F[<<i, c[i - 1]>>]
  <2> HIDE DEF F
  <2>1. PICK c : c \in Rounds(n, Memory, m, F)
    BY <1>1, <1>5, LoopHasValues
  <2> QED BY <2>1 DEF Rounds
<1>7. ASSUME NEW i \in 1 .. n
      PROVE  c[i] = IF R(c[i - 1], i) \in Memory THEN R(c[i - 1], i) ELSE c[i - 1]
  <2>1. c[i - 1] \in Memory
    BY <1>6
  <2>2. F[<<i, c[i - 1]>>] = IF R(c[i - 1], i) \in Memory THEN R(c[i - 1], i) ELSE c[i - 1]
    BY <2>1
  <2> QED BY <1>6, <2>2
<1> DEFINE T == {i \in 0 .. n : P(i, c[i])}
<1>8. \A i \in 0 .. n : i \in T
  <2>1. 0 \in T
    BY <1>3, <1>6
  <2>2. \A i \in 0 .. n - 1 : i \in T => i + 1 \in T
    <3> SUFFICES ASSUME NEW i \in 0 .. n - 1, i \in T PROVE i + 1 \in T
      OBVIOUS
    <3>1. i + 1 \in 1 .. n /\ (i + 1) - 1 = i /\ P(i, c[i])
      OBVIOUS
    <3>2. P(i + 1, R(c[i], i + 1)) /\ R(c[i], i + 1) \in Memory
      BY <1>2, <3>1
    <3>3. c[i + 1] = R(c[i], i + 1)
      BY <1>7, <3>1, <3>2
    <3> QED BY <3>1, <3>2, <3>3
  <2> HIDE DEF T
  <2> QED BY <2>1, <2>2, InductionUpTo
<1>9. ASSUME NEW i \in 1 .. n PROVE c[i] = R(c[i - 1], i)
  <2>1. i - 1 \in 0 .. n
    OBVIOUS
  <2>2. P(i - 1, c[i - 1])
    BY <1>8, <2>1
  <2> QED BY <1>2, <1>7, <2>2
<1>10. G(c)
  BY <1>6, <1>9
<1>11. G(A)
  BY <1>10
<1> HIDE DEF A
<1>12. A[0] = m /\ \A i \in 1 .. n : A[i] = R(A[i - 1], i)
  BY <1>11
<1> DEFINE U == {i \in 0 .. n : P(i, A[i])}
<1>13. 0 \in U
  BY <1>3, <1>12
<1>14. \A i \in 0 .. n - 1 : i \in U => i + 1 \in U
  <2> SUFFICES ASSUME NEW i \in 0 .. n - 1, i \in U PROVE i + 1 \in U
    OBVIOUS
  <2>1. i + 1 \in 1 .. n /\ (i + 1) - 1 = i /\ P(i, A[i])
    OBVIOUS
  <2>2. P(i + 1, R(A[i], i + 1))
    BY <1>2, <2>1
  <2>3. A[i + 1] = R(A[i], i + 1)
    BY <1>12, <2>1
  <2> QED BY <2>1, <2>2, <2>3
<1> HIDE DEF U
<1>15. n \in U
  BY <1>13, <1>14, InductionUpTo
<1> QED BY <1>4, <1>15 DEF U, P

(* Owners *)

Owners == ({"book", "trap", "kernel", "orphan"} \X {0}) \union ({"heap"} \X HeapPages)
             \union ({"tables", "stack", "image"} \X Procs)
ImageOf(r) == IF r.state = "loaded" THEN r.image .. r.image + Need(r.pages) - 1 ELSE {}
Holding(m, top, pr, orp) ==
    [o \in Owners |->
       CASE o[1] = "book" -> 0 .. BkPages - 1
         [] o[1] = "trap" -> trap_stacks
         [] o[1] = "kernel" -> TablesOf(m, kernel_mmu_table)
         [] o[1] = "orphan" -> orp
         [] o[1] = "heap" -> IF o[2] < top THEN {HeapPage(m, o[2])} ELSE {}
         [] o[1] = "tables" -> IF pr[o[2]].state = "none" THEN {} ELSE TablesOf(m, pr[o[2]].ptable)
         [] o[1] = "stack" -> IF pr[o[2]].state = "none" THEN {} ELSE {pr[o[2]].stack}
         [] o[1] = "image" -> ImageOf(pr[o[2]])]
Partition(H, T) ==
    /\ \A o \in Owners : H[o] \subseteq T
    /\ \A x \in T : \E o \in Owners : x \in H[o]
    /\ \A o, q \in Owners : o # q => H[o] \cap H[q] = {}

\* Pages that are not the last of the table or of an image.
Interior(pr) ==
    {x \in Pages : \/ x < BkPages - 1
                   \/ \E p \in Procs : /\ pr[p].state = "loaded"
                                       /\ x \in pr[p].image .. pr[p].image + Need(pr[p].pages) - 2}

Process == [state : {"none", "new", "loaded", "refused", "stuck"}, object : Allocation \union {NULL},
            ptable : Int, stack : Int, image : Int, pages : Nat]
ProcsOK(pr, H) ==
    /\ pr \in [Procs -> Process]
    /\ \A p \in Procs :
          /\ pr[p].state # "none" => pr[p].object \in H /\ pr[p].object.asked = ProcBytes
          /\ pr[p].state = "loaded" => pr[p].pages \in Sizes
          /\ pr[p].state # "loaded" => pr[p].pages = 0
    /\ \A p, q \in Procs : p # q /\ pr[p].state # "none" /\ pr[q].state # "none"
                              => pr[p].object # pr[q].object

\* Behind the heap nothing is mapped.
NothingFrom(m, top) == \A k \in HeapPages : k >= top => HeapPage(m, k) = NoPage
Sound(m, top, pr, orp) ==
    /\ HeapMapped(m, top, Interior(pr), orp)
    /\ m.fault \/ NothingFrom(m, top)
    /\ Partition(Holding(m, top, pr, orp), m.taken)
    /\ \A p \in Procs : pr[p].state # "none" => Tree(m, pr[p].ptable)

\* What the page table of a process maps.
Sees(m, r) ==
    LET at(v) == mmu_translate(m, r.ptable, v)
    IN /\ MappedBy(m, r.ptable) = {TrampolineV, StackV, FrameV(r.object)}
                                     \union (ImageV .. ImageV + r.pages - 1)
       /\ at(TrampolineV) = KernelText /\ at(StackV) = r.stack
       /\ at(FrameV(r.object)) = mmu_translate(m, kernel_mmu_table, FrameV(r.object))
       /\ \A i \in 0 .. r.pages - 1 : at(ImageV + i) = r.image + i
AllSee(m, pr) == \A p \in Procs : pr[p].state \notin {"none", "stuck"} => Sees(m, pr[p])

Contiguous(m, H) ==
    \A a \in H : a.contiguous =>
       \A j, k \in PagesUnder(a) : HeapPage(m, k) - HeapPage(m, j) = k - j

TlbOK(m, top, t, bh) ==
    /\ t \in [Harts -> [HeapPages -> Int]]
    /\ \A h \in Harts \ bh : \A k \in 0 .. top - 1 : t[h][k] \in {NoPage, HeapPage(m, k)}

\* The inductive invariant, for a heap with the list l, the allocations H and the
\* end b, a memory m, processes pr, orphans orp, and the TLBs t, the harts of bh
\* being behind.
StateOK(l, H, b, m, pr, orp, t, bh) ==
    /\ HeapWF(l, H, b) /\ b = (b \div PAGE_SIZE) * PAGE_SIZE
    /\ Sound(m, b \div PAGE_SIZE, pr, orp)
    /\ ProcsOK(pr, H)
    /\ AllSee(m, pr) /\ Contiguous(m, H)
    /\ TlbOK(m, b \div PAGE_SIZE, t, bh)
\* Of a process that is neither made nor freed for good only the object is left, which
\* is then an allocation like others.
Shape(pr) == [p \in Procs |-> IF pr[p].state \in {"none", "left"} THEN None ELSE pr[p]]
IsMap(pr) == pr = [p \in Procs |-> pr[p]]
MemoryInv ==
    /\ StateOK(freelist, held, brk, mem, Shape(proc), orphans, tlb, behind)
    /\ IsMap(proc) /\ scene \in Scenes

oBook == <<"book", 0>>
oTrap == <<"trap", 0>>
oKernel == <<"kernel", 0>>
oOrphan == <<"orphan", 0>>
oHeap(k) == <<"heap", k>>
oTables(p) == <<"tables", p>>
oStack(p) == <<"stack", p>>
oImage(p) == <<"image", p>>

\* The owners by their names.
LEMMA OwnersAre ==
    /\ oBook \in Owners /\ oTrap \in Owners /\ oKernel \in Owners /\ oOrphan \in Owners
    /\ \A k \in HeapPages : oHeap(k) \in Owners
    /\ \A p \in Procs : oTables(p) \in Owners /\ oStack(p) \in Owners /\ oImage(p) \in Owners
    /\ \A o \in Owners : \/ o \in {oBook, oTrap, oKernel, oOrphan}
                         \/ \E k \in HeapPages : o = oHeap(k)
                         \/ \E p \in Procs : o = oTables(p) \/ o = oStack(p) \/ o = oImage(p)
  BY DEF Owners, oBook, oTrap, oKernel, oOrphan, oHeap, oTables, oStack, oImage

\* No two owners are the same.
LEMMA OwnersDiffer ==
    /\ oBook # oTrap /\ oBook # oKernel /\ oBook # oOrphan
    /\ oTrap # oKernel /\ oTrap # oOrphan /\ oKernel # oOrphan
    /\ \A k : oHeap(k) \notin {oBook, oTrap, oKernel, oOrphan}
    /\ \A p : /\ oTables(p) \notin {oBook, oTrap, oKernel, oOrphan}
              /\ oStack(p) \notin {oBook, oTrap, oKernel, oOrphan}
              /\ oImage(p) \notin {oBook, oTrap, oKernel, oOrphan}
    /\ \A k, p : oHeap(k) # oTables(p) /\ oHeap(k) # oStack(p) /\ oHeap(k) # oImage(p)
    /\ \A p, q : oTables(p) # oStack(q) /\ oTables(p) # oImage(q) /\ oStack(p) # oImage(q)
    /\ \A j, k : oHeap(j) = oHeap(k) => j = k
    /\ \A p, q : oTables(p) = oTables(q) => p = q
    /\ \A p, q : oStack(p) = oStack(q) => p = q
    /\ \A p, q : oImage(p) = oImage(q) => p = q
  BY DEF oBook, oTrap, oKernel, oOrphan, oHeap, oTables, oStack, oImage

HoldsAs(H, m, top, pr, orp) ==
    /\ H[oBook] = 0 .. BkPages - 1 /\ H[oTrap] = trap_stacks
    /\ H[oKernel] = TablesOf(m, kernel_mmu_table) /\ H[oOrphan] = orp
    /\ \A k \in HeapPages : H[oHeap(k)] = IF k < top THEN {HeapPage(m, k)} ELSE {}
    /\ \A p \in Procs :
          /\ H[oTables(p)] = IF pr[p].state = "none" THEN {} ELSE TablesOf(m, pr[p].ptable)
          /\ H[oStack(p)] = IF pr[p].state = "none" THEN {} ELSE {pr[p].stack}
          /\ H[oImage(p)] = ImageOf(pr[p])
\* What each of the owners holds.
LEMMA HoldingIs ==
    ASSUME NEW m, NEW top, NEW pr, NEW orp, NEW H, H = Holding(m, top, pr, orp)
    PROVE  HoldsAs(H, m, top, pr, orp)
<1>1. H[oBook] = 0 .. BkPages - 1 /\ H[oTrap] = trap_stacks
  BY OwnersAre DEF Holding, oBook, oTrap
<1>2. H[oKernel] = TablesOf(m, kernel_mmu_table) /\ H[oOrphan] = orp
  BY OwnersAre DEF Holding, oKernel, oOrphan
<1>3. ASSUME NEW k \in HeapPages PROVE H[oHeap(k)] = IF k < top THEN {HeapPage(m, k)} ELSE {}
  BY OwnersAre DEF Holding, oHeap
<1>4. ASSUME NEW p \in Procs
      PROVE  /\ H[oTables(p)] = IF pr[p].state = "none" THEN {} ELSE TablesOf(m, pr[p].ptable)
             /\ H[oStack(p)] = IF pr[p].state = "none" THEN {} ELSE {pr[p].stack}
             /\ H[oImage(p)] = ImageOf(pr[p])
  BY OwnersAre DEF Holding, oTables, oStack, oImage
<1> QED BY <1>1, <1>2, <1>3, <1>4 DEF HoldsAs

\* Pages nobody had are given out; pages are given back; one owner gets
\* everything another one has.
LEMMA PartitionAdds ==
    ASSUME NEW H, NEW T, Partition(H, T), NEW G, NEW H2, NEW T2,
           \A o \in Owners : G[o] \cap T = {} /\ H2[o] = H[o] \union G[o],
           \A o, q \in Owners : o # q => G[o] \cap G[q] = {},
           T \subseteq T2, \A o \in Owners : G[o] \subseteq T2,
           \A x \in T2 \ T : \E o \in Owners : x \in G[o]
    PROVE  Partition(H2, T2)
  BY DEF Partition

\* Pages that are given back leave a partition of the others.
LEMMA PartitionDrops ==
    ASSUME NEW H, NEW T, Partition(H, T), NEW X, NEW H2, \A o \in Owners : H2[o] = H[o] \ X
    PROVE  Partition(H2, T \ X)
  BY DEF Partition

\* One owner gets everything another one has.
LEMMA PartitionMoves ==
    ASSUME NEW H, NEW T, Partition(H, T), NEW a \in Owners, NEW b \in Owners, a # b, NEW H2,
           \A o \in Owners : H2[o] = IF o = a THEN {} ELSE IF o = b THEN H[a] \union H[b] ELSE H[o]
    PROVE  Partition(H2, T)
<1>1. \A o \in Owners : H2[o] \subseteq T
  BY DEF Partition
<1>2. ASSUME NEW x \in T PROVE \E o \in Owners : x \in H2[o]
  <2>1. PICK o \in Owners : x \in H[o]
    BY DEF Partition
  <2>2. CASE o = a
    BY <2>1, <2>2
  <2>3. CASE o # a
    BY <2>1, <2>3
  <2> QED BY <2>2, <2>3
<1>3. \A o, q \in Owners : o # q => H2[o] \cap H2[q] = {}
  BY DEF Partition
<1> QED BY <1>1, <1>2, <1>3 DEF Partition

\* The fields of a process are numbers.
LEMMA ProcessIs ==
    \A pr \in [Procs -> Process] : \A p \in Procs :
       /\ pr[p].pages \in Nat /\ pr[p].image \in Int /\ pr[p].stack \in Int /\ pr[p].ptable \in Int
       /\ Need(pr[p].pages) \in Nat /\ Need(pr[p].pages) > 0 /\ pr[p].pages <= Need(pr[p].pages)
  BY DEF Process, Need

\* A page of the interior and the one behind it have the same owner, who holds
\* an image or the allocator's table.
LEMMA InteriorIs ==
    ASSUME NEW m, NEW top, NEW pr \in [Procs -> Process], NEW orp, NEW H, H = Holding(m, top, pr, orp),
           NEW z \in Interior(pr)
    PROVE  /\ \/ z \in H[oBook] /\ z + 1 \in H[oBook]
              \/ \E p \in Procs : z \in H[oImage(p)] /\ z + 1 \in H[oImage(p)]
           /\ z \in Nat
<1>1. z \in Nat /\ BkPages \in Nat
  BY NoPageIs, PagesAssumption DEF Interior
<1>4. H[oBook] = 0 .. BkPages - 1 /\ \A p \in Procs : H[oImage(p)] = ImageOf(pr[p])
  <2>1. HoldsAs(H, m, top, pr, orp)
    BY HoldingIs
  <2> QED BY <2>1 DEF HoldsAs
<1>2. CASE z < BkPages - 1
  BY <1>1, <1>2, <1>4
<1>3. CASE \E p \in Procs : /\ pr[p].state = "loaded"
                            /\ z \in pr[p].image .. pr[p].image + Need(pr[p].pages) - 2
  <2>1. PICK p \in Procs : /\ pr[p].state = "loaded"
                           /\ z \in pr[p].image .. pr[p].image + Need(pr[p].pages) - 2
    BY <1>3
  <2>2. pr[p].image \in Int /\ Need(pr[p].pages) \in Nat
    BY ProcessIs
  <2>3. z \in ImageOf(pr[p]) /\ z + 1 \in ImageOf(pr[p])
    BY <2>1, <2>2, <1>1 DEF ImageOf
  <2> QED BY <1>1, <1>4, <2>1, <2>3
<1> QED BY <1>1, <1>2, <1>3 DEF Interior

Clear(H, pr) ==
    \A o \in Owners : \A x \in H[o] :
       o # oBook /\ (\A p \in Procs : o # oImage(p))
          => x \notin Interior(pr) /\ (x \in Int => x - 1 \notin Interior(pr))
\* The interior is taken, and nobody but the table and the images lies in it or right
\* behind a page of it.
LEMMA InteriorOwned ==
    ASSUME NEW m, NEW top, NEW pr \in [Procs -> Process], NEW orp, NEW H, H = Holding(m, top, pr, orp),
           NEW T, Partition(H, T)
    PROVE  /\ \A z \in Interior(pr) : z \in T /\ z + 1 \in T
           /\ Clear(H, pr)
<1>1. \A z \in Interior(pr) : z \in T /\ z + 1 \in T
  BY InteriorIs, OwnersAre DEF Partition
<1>2. ASSUME NEW o \in Owners, NEW x \in H[o], o # oBook, \A p \in Procs : o # oImage(p)
      PROVE  x \notin Interior(pr) /\ (x \in Int => x - 1 \notin Interior(pr))
  <2>1. x \notin H[oBook] /\ \A p \in Procs : x \notin H[oImage(p)]
    BY <1>2, OwnersAre DEF Partition
  <2>2. x \notin Interior(pr)
    BY <2>1, InteriorIs
  <2>3. ASSUME x \in Int, x - 1 \in Interior(pr) PROVE FALSE
    <3>1. (x - 1) + 1 = x
      BY <2>3
    <3> QED BY <2>1, <2>3, <3>1, InteriorIs
  <2> QED BY <2>2, <2>3
<1> QED BY <1>1, <1>2 DEF Clear

(* What a step leaves alone *)

\* A mapping under one root leaves the tree of another root alone.
LEMMA OtherTree ==
    ASSUME NEW m, MemOK(m), NEW q, Tree(m, q), NEW r, TablesOf(m, q) \cap TablesOf(m, r) = {},
           NEW N, NEW m2, Extended(m, r, N, m2)
    PROVE  /\ Tree(m2, q) /\ TablesOf(m2, q) = TablesOf(m, q)
           /\ \A v \in VirtualPages : mmu_translate(m2, q, v) = mmu_translate(m, q, v)
<1>1. m \in Memory /\ m2 \in Memory
  BY DEF MemOK, Extended
<1>2. \A t \in TablesOf(m, q) : t \in DOMAIN m2.tables /\ m2.tables[t] = m.tables[t]
  BY TablesOfIs DEF Tree, Extended
<1> QED BY <1>1, <1>2, FrameStep

\* The root and all its tables are where they were.
SameTree(m, m2, r) ==
    /\ Tree(m2, r) /\ TablesOf(m2, r) = TablesOf(m, r)
    /\ \A v \in VirtualPages : mmu_translate(m2, r, v) = mmu_translate(m, r, v)
GrownTree(m, m2, r, N) == Tree(m2, r) /\ TablesOf(m2, r) = TablesOf(m, r) \union N
SameTrees(m, m2, pr) == \A p \in Procs : pr[p].state # "none" => SameTree(m, m2, pr[p].ptable)

\* Owners do not share.
LEMMA SoundShares ==
    ASSUME NEW m, NEW top, NEW pr, NEW orp, Sound(m, top, pr, orp)
    PROVE  /\ \A p \in Procs : pr[p].state # "none" =>
                 /\ TablesOf(m, pr[p].ptable) \cap TablesOf(m, kernel_mmu_table) = {}
                 /\ TablesOf(m, pr[p].ptable) \subseteq m.taken
                 /\ \A q \in Procs : pr[q].state # "none" /\ p # q =>
                       TablesOf(m, pr[p].ptable) \cap TablesOf(m, pr[q].ptable) = {}
                 /\ pr[p].stack \in m.taken
                 /\ \A k \in HeapPages : k < top => HeapPage(m, k) \notin TablesOf(m, pr[p].ptable)
           /\ TablesOf(m, kernel_mmu_table) \subseteq m.taken
<1> DEFINE H == Holding(m, top, pr, orp)
<1>1. HoldsAs(H, m, top, pr, orp)
  BY HoldingIs
<1>2. Partition(H, m.taken)
  BY DEF Sound
<1> HIDE DEF H
<1>3. TablesOf(m, kernel_mmu_table) \subseteq m.taken
  BY <1>1, <1>2, OwnersAre DEF HoldsAs, Partition
<1>4. ASSUME NEW p \in Procs, pr[p].state # "none"
      PROVE  /\ TablesOf(m, pr[p].ptable) \cap TablesOf(m, kernel_mmu_table) = {}
             /\ TablesOf(m, pr[p].ptable) \subseteq m.taken
             /\ pr[p].stack \in m.taken
             /\ \A k \in HeapPages : k < top => HeapPage(m, k) \notin TablesOf(m, pr[p].ptable)
  <2>1. H[oTables(p)] = TablesOf(m, pr[p].ptable) /\ H[oStack(p)] = {pr[p].stack}
    BY <1>1, <1>4 DEF HoldsAs
  <2>2. H[oKernel] = TablesOf(m, kernel_mmu_table)
        /\ \A k \in HeapPages : k < top => H[oHeap(k)] = {HeapPage(m, k)}
    BY <1>1 DEF HoldsAs
  <2>3. H[oTables(p)] \subseteq m.taken /\ H[oStack(p)] \subseteq m.taken
    BY <1>2, OwnersAre DEF Partition
  <2>4. H[oTables(p)] \cap H[oKernel] = {}
    BY <1>2, OwnersAre, OwnersDiffer DEF Partition
  <2>5. \A k \in HeapPages : H[oTables(p)] \cap H[oHeap(k)] = {}
    BY <1>2, OwnersAre, OwnersDiffer DEF Partition
  <2> QED BY <2>1, <2>2, <2>3, <2>4, <2>5
<1>5. ASSUME NEW p \in Procs, pr[p].state # "none", NEW q \in Procs, pr[q].state # "none", p # q
      PROVE  TablesOf(m, pr[p].ptable) \cap TablesOf(m, pr[q].ptable) = {}
  <2>1. H[oTables(p)] \cap H[oTables(q)] = {}
    <3>1. oTables(p) # oTables(q) /\ oTables(p) \in Owners /\ oTables(q) \in Owners
      BY <1>5, OwnersAre, OwnersDiffer
    <3> QED BY <1>2, <3>1 DEF Partition
  <2>2. H[oTables(p)] = TablesOf(m, pr[p].ptable) /\ H[oTables(q)] = TablesOf(m, pr[q].ptable)
    BY <1>1, <1>5 DEF HoldsAs
  <2> QED BY <2>1, <2>2
<1> QED BY <1>3, <1>4, <1>5

\* The parts Sound rests on.
LEMMA SoundMakes ==
    ASSUME NEW m, MemOK(m), Tree(m, kernel_mmu_table), NEW top \in Nat, top <= MaxHeapPages,
           NEW pr \in [Procs -> Process], NEW orp, Partition(Holding(m, top, pr, orp), m.taken),
           EndBits(m.taken, m.last, Interior(pr), Joints(m, top) \union orp),
           m.fault \/ NothingFrom(m, top),
           \A p \in Procs : pr[p].state # "none" => Tree(m, pr[p].ptable)
    PROVE  Sound(m, top, pr, orp)
<1> DEFINE H == Holding(m, top, pr, orp)
           K == kernel_mmu_table
           I == Interior(pr)
<1>1. HoldsAs(H, m, top, pr, orp) /\ Partition(H, m.taken)
  BY HoldingIs
<1>2. \A k \in 0 .. top - 1 : k \in HeapPages
  BY HeapAssumption DEF HeapPages
<1>3. ASSUME NEW k \in 0 .. top - 1
      PROVE  /\ H[oHeap(k)] = {HeapPage(m, k)} /\ oHeap(k) \in Owners /\ HeapPage(m, k) \in m.taken
             /\ HeapPage(m, k) \notin H[oKernel] /\ HeapPage(m, k) \notin H[oOrphan]
             /\ HeapPage(m, k) \notin I /\ HeapPage(m, k) - 1 \notin I
  <2>1. /\ k \in HeapPages /\ k < top /\ oHeap(k) \in Owners /\ oKernel \in Owners
        /\ oOrphan \in Owners
    BY <1>2, OwnersAre
  <2>2. H[oHeap(k)] = {HeapPage(m, k)}
    BY <1>1, <2>1 DEF HoldsAs
  <2>3. /\ HeapPage(m, k) \in m.taken /\ HeapPage(m, k) \notin H[oKernel]
        /\ HeapPage(m, k) \notin H[oOrphan]
    BY <1>1, <2>1, <2>2, OwnersDiffer DEF Partition
  <2>4. HeapPage(m, k) \in Int
    BY <2>3, MemoryIs, NoPageIs DEF MemOK
  <2>5. oHeap(k) # oBook /\ \A p \in Procs : oHeap(k) # oImage(p)
    BY OwnersDiffer
  <2> HIDE DEF H
  <2>6. Clear(H, pr)
    BY <1>1, InteriorOwned DEF H
  <2>7. HeapPage(m, k) \in H[oHeap(k)]
    BY <2>2
  <2>8. HeapPage(m, k) \notin I /\ HeapPage(m, k) - 1 \notin I
    BY <2>1, <2>4, <2>5, <2>6, <2>7 DEF Clear
  <2> QED BY <2>1, <2>2, <2>3, <2>8
<1>4. ASSUME NEW j \in 0 .. top - 1, NEW k \in 0 .. top - 1, j # k
      PROVE  HeapPage(m, j) # HeapPage(m, k)
  <2>1. oHeap(j) # oHeap(k)
    BY <1>4, OwnersDiffer
  <2> QED BY <1>1, <1>3, <2>1 DEF Partition
<1>5. H[oKernel] = TablesOf(m, K) /\ H[oOrphan] = orp
  BY <1>1 DEF HoldsAs
<1> HIDE DEF H
<1>6. \A k \in 0 .. top - 1 :
         /\ HeapPage(m, k) \in m.taken /\ HeapPage(m, k) \notin TablesOf(m, K)
         /\ HeapPage(m, k) \notin I /\ HeapPage(m, k) - 1 \notin I /\ HeapPage(m, k) \notin orp
  BY <1>3, <1>5
<1>7. \A j, k \in 0 .. top - 1 : j # k => HeapPage(m, j) # HeapPage(m, k)
  BY <1>4
<1> HIDE DEF I
<1>8. HeapMapped(m, top, I, orp)
  BY <1>6, <1>7 DEF HeapMapped, I
<1> QED BY <1>8 DEF Sound, I

(* The heap grows *)

\* What a mapping that came to a fault leaves: N are further tables of g, the pages of X
\* are nobody's any more, and everyone keeps what he had.
Lost(m, pr, g, N, X, c) ==
    /\ MemOK(c) /\ c.fault
    /\ c.taken = m.taken \union N \union X
    /\ N \cap m.taken = {} /\ X \cap (m.taken \union N) = {}
    /\ m.last \subseteq c.last /\ N \subseteq c.last /\ c.last \subseteq m.last \union N \union X
    /\ g = oKernel \/ (\E p \in Procs : pr[p].state # "none" /\ g = oTables(p)) \/ N = {}
    /\ GrownTree(m, c, kernel_mmu_table, IF g = oKernel THEN N ELSE {})
    /\ \A p \in Procs : pr[p].state # "none" =>
          GrownTree(m, c, pr[p].ptable, IF g = oTables(p) THEN N ELSE {})
\* What a call that cannot go on has taken is lost, and nothing else.
LEMMA LostSound ==
    ASSUME NEW m, NEW top, NEW pr \in [Procs -> Process], NEW orp, Sound(m, top, pr, orp),
           NEW g, NEW N, NEW X, NEW c, Lost(m, pr, g, N, X, c),
           \A k \in HeapPages : k < top => HeapPage(c, k) = HeapPage(m, k)
    PROVE  Sound(c, top, pr, orp \union X)
<1> DEFINE K == kernel_mmu_table
           H == Holding(m, top, pr, orp)
           H2 == Holding(c, top, pr, orp \union X)
           G == [o \in Owners |-> (IF o = g THEN N ELSE {}) \union (IF o = oOrphan THEN X ELSE {})]
<1>1. /\ MemOK(m) /\ top \in Nat /\ top <= MaxHeapPages /\ MaxHeapPages \in Nat
      /\ HeapMapped(m, top, Interior(pr), orp) /\ Partition(H, m.taken)
  BY HeapAssumption DEF Sound, HeapMapped
<1>2. /\ MemOK(c) /\ c.fault /\ c.taken = m.taken \union N \union X
      /\ N \cap m.taken = {} /\ X \cap (m.taken \union N) = {}
      /\ m.last \subseteq c.last /\ N \subseteq c.last /\ c.last \subseteq m.last \union N \union X
      /\ g = oKernel \/ (\E p \in Procs : pr[p].state # "none" /\ g = oTables(p)) \/ N = {}
      /\ GrownTree(m, c, K, IF g = oKernel THEN N ELSE {})
      /\ \A p \in Procs : pr[p].state # "none" =>
            GrownTree(m, c, pr[p].ptable, IF g = oTables(p) THEN N ELSE {})
  BY DEF Lost
<1>3. HoldsAs(H, m, top, pr, orp) /\ HoldsAs(H2, c, top, pr, orp \union X)
  BY HoldingIs
<1> HIDE DEF H, H2
<1>4. g # oOrphan \/ N = {}
  BY <1>2, OwnersDiffer
<1>5. \A o \in Owners : /\ G[o] \cap m.taken = {} /\ G[o] \subseteq c.taken
                        /\ G[o] = (IF o = g THEN N ELSE {}) \union (IF o = oOrphan THEN X ELSE {})
  BY <1>2
<1>6. \A o, q \in Owners : o # q => G[o] \cap G[q] = {}
  BY <1>2, <1>4
<1>7. ASSUME NEW x \in c.taken \ m.taken PROVE \E o \in Owners : x \in G[o]
  <2>1. CASE x \in X
    BY <1>5, <2>1, OwnersAre
  <2>2. CASE x \in N
    <3>1. g \in Owners
      BY <1>2, <2>2, OwnersAre
    <3> QED BY <1>5, <2>2, <3>1
  <2> QED BY <1>2, <1>7, <2>1, <2>2
<1>8. ASSUME NEW o \in Owners PROVE H2[o] = H[o] \union G[o]
  <2>1. CASE o = oKernel
    <3>1. G[o] = IF g = oKernel THEN N ELSE {}
      BY <2>1, OwnersDiffer
    <3>2. H[o] = TablesOf(m, K) /\ H2[o] = TablesOf(c, K)
      BY <1>3, <2>1 DEF HoldsAs
    <3> QED BY <1>2, <3>1, <3>2 DEF GrownTree
  <2>2. CASE o = oOrphan
    <3>1. G[o] = X
      BY <1>4, <2>2
    <3> QED BY <1>3, <2>2, <3>1 DEF HoldsAs
  <2>3. CASE o \in {oBook, oTrap}
    <3>1. G[o] = {}
      BY <1>2, <2>3, OwnersDiffer
    <3> QED BY <1>3, <2>3, <3>1 DEF HoldsAs
  <2>4. ASSUME NEW k \in HeapPages, o = oHeap(k) PROVE H2[o] = H[o] \union G[o]
    <3>1. G[o] = {}
      BY <1>2, <2>4, OwnersDiffer
    <3> QED BY <1>3, <2>4, <3>1 DEF HoldsAs
  <2>5. ASSUME NEW p \in Procs, o = oTables(p) PROVE H2[o] = H[o] \union G[o]
    <3>1. G[o] = IF g = oTables(p) THEN N ELSE {}
      BY <2>5, OwnersDiffer
    <3>2. CASE pr[p].state # "none"
      <4>1. H[o] = TablesOf(m, pr[p].ptable) /\ H2[o] = TablesOf(c, pr[p].ptable)
        BY <1>3, <2>5, <3>2 DEF HoldsAs
      <4> QED BY <1>2, <3>1, <3>2, <4>1 DEF GrownTree
    <3>3. CASE pr[p].state = "none"
      <4>1. G[o] = {}
        <5>1. CASE g = oTables(p)
          BY <1>2, <3>1, <3>3, <5>1, OwnersDiffer
        <5> QED BY <3>1, <5>1
      <4>2. H[o] = {} /\ H2[o] = {}
        BY <1>3, <2>5, <3>3 DEF HoldsAs
      <4> QED BY <4>1, <4>2
    <3> QED BY <3>2, <3>3
  <2>6. ASSUME NEW p \in Procs, o = oStack(p) \/ o = oImage(p) PROVE H2[o] = H[o] \union G[o]
    <3>1. G[o] = {}
      BY <1>2, <2>6, OwnersDiffer
    <3> QED BY <1>3, <2>6, <3>1 DEF HoldsAs
  <2> QED BY <2>1, <2>2, <2>3, <2>4, <2>5, <2>6, OwnersAre
<1> HIDE DEF G
<1>9. Partition(H2, c.taken)
  <2>1. m.taken \subseteq c.taken
    BY <1>2
  <2> QED BY <1>1, <1>5, <1>6, <1>7, <1>8, <2>1, PartitionAdds
<1>10. Joints(m, top) \subseteq Joints(c, top)
  <2> SUFFICES ASSUME NEW y \in Joints(m, top) PROVE y \in Joints(c, top)
    OBVIOUS
  <2>1. PICK k \in 0 .. top - 2 : HeapPage(m, k) = y /\ HeapPage(m, k + 1) = y + 1
    BY DEF Joints
  <2>2. k \in HeapPages /\ k + 1 \in HeapPages /\ k < top /\ k + 1 < top
    BY <1>1 DEF HeapPages
  <2>3. HeapPage(c, k) = y /\ HeapPage(c, k + 1) = y + 1
    BY <2>1, <2>2
  <2> QED BY <2>3 DEF Joints
<1>11. EndBits(c.taken, c.last, Interior(pr), Joints(c, top) \union (orp \union X))
  <2>1. EndBits(m.taken, m.last, Interior(pr), Joints(m, top) \union orp)
    BY <1>1 DEF HeapMapped
  <2>2. Interior(pr) \subseteq m.taken
    BY <1>1, InteriorOwned DEF H
  <2> QED BY <1>2, <1>10, <2>1, <2>2 DEF EndBits
<1>12. Tree(c, K) /\ \A p \in Procs : pr[p].state # "none" => Tree(c, pr[p].ptable)
  BY <1>2 DEF GrownTree
<1> QED BY <1>1, <1>2, <1>9, <1>11, <1>12, SoundMakes DEF H2

GrowOutcome(m, top, n, pr, orp, m2) ==
    \/ /\ m2.fault /\ SameTrees(m, m2, pr)
       /\ Sound(m2, top, pr, orp \union (FirstFit(m.taken, n) .. FirstFit(m.taken, n) + n - 1))
       /\ \A k \in HeapPages : k < top => HeapPage(m2, k) = HeapPage(m, k)
    \/ /\ ~m2.fault /\ Sound(m2, top + n, pr, orp) /\ SameTrees(m, m2, pr)
       /\ \A k \in HeapPages :
             HeapPage(m2, k) = IF k \in top .. top + n - 1 THEN FirstFit(m.taken, n) + (k - top)
                              ELSE HeapPage(m, k)
\* The heap grows by n pages: the call stops and the pages are lost, or they follow each
\* other and are mapped at the end of the heap, and every owner keeps what it had.
LEMMA GrowSound ==
    ASSUME NEW m, NEW top, NEW pr \in [Procs -> Process], NEW orp, Sound(m, top, pr, orp),
           NEW n \in Nat, n > 0, top + n <= MaxHeapPages, FirstFit(m.taken, n) # NoPage, NEW m2,
           m2 = mmu_map_multiple(Taken(m, n), kernel_mmu_table, HeapStart + top, FirstFit(m.taken, n), n)
    PROVE  GrowOutcome(m, top, n, pr, orp, m2)
<1> DEFINE K == kernel_mmu_table
           f == FirstFit(m.taken, n)
           X == f .. f + n - 1
           m1 == Taken(m, n)
           I == Interior(pr)
<1>1. /\ MemOK(m) /\ Tree(m, K) /\ top \in Nat /\ HeapStart \in Nat /\ MaxHeapPages \in Nat
      /\ HeapMapped(m, top, I, orp) /\ m \in Memory
  BY HeapAssumption DEF Sound, HeapMapped, MemOK
<1>2. /\ Need(n) = n /\ f \in Nat /\ f \in Pages /\ X \subseteq Pages /\ X \cap m.taken = {}
  <2>1. Need(n) = n
    BY DEF Need
  <2> QED BY <2>1, FitIs, NoPageIs
<1>3. /\ MemOK(m1) /\ m1.taken = m.taken \union X /\ m1.last = m.last \union {f + n - 1}
      /\ m1.tables = m.tables /\ m1.fault = m.fault
  BY <1>1, <1>2, TakenIs
<1> HIDE DEF m1, f
<1>4. m1 \in Memory /\ \A r : Tree(m, r) => SameTree(m, m1, r)
  <2>1. m1 \in Memory
    BY <1>3 DEF MemOK
  <2>2. ASSUME NEW r, Tree(m, r) PROVE SameTree(m, m1, r)
    <3>1. \A t \in TablesOf(m, r) : t \in DOMAIN m1.tables /\ m1.tables[t] = m.tables[t]
      BY <1>3, <2>2, TablesOfIs DEF Tree
    <3> QED BY <1>1, <2>1, <2>2, <3>1, FrameStep DEF SameTree
  <2> QED BY <2>1, <2>2
<1>5. MapOutcome(m1, K, HeapStart + top, f, n, m2)
  <2>1. \A i \in 0 .. n - 1 : (HeapStart + top) + i \in VirtualPages
    <3> SUFFICES ASSUME NEW i \in 0 .. n - 1 PROVE (HeapStart + top) + i \in VirtualPages
      OBVIOUS
    <3>1. top + i \in HeapPages /\ (HeapStart + top) + i = HeapStart + (top + i)
      BY <1>1 DEF HeapPages
    <3> QED BY <3>1, HeapVirtual
  <2>2. HeapStart + top \in Nat /\ Tree(m1, K)
    BY <1>1, <1>4 DEF SameTree
  <2>3. m2 = mmu_map_multiple(m1, K, HeapStart + top, f, n)
    BY DEF m1, f
  <2> DEFINE v == HeapStart + top
  <2>5. v \in Nat /\ \A i \in 0 .. n - 1 : v + i \in VirtualPages
    BY <2>1, <2>2
  <2> HIDE DEF v
  <2>4. MapOutcome(m1, K, v, f, n, mmu_map_multiple(m1, K, v, f, n))
    <3>1. f \in Int
      BY <1>2
    <3> HIDE DEF K
    <3> QED BY <1>3, <2>2, <2>5, <3>1, MapKeeps
  <2> QED BY <2>3, <2>4 DEF v
<1>8. ASSUME NEW N \in SUBSET Pages, Extended(m1, K, N, m2), NEW p \in Procs, pr[p].state # "none"
      PROVE  SameTree(m, m2, pr[p].ptable)
  <2>1. SameTree(m, m1, pr[p].ptable) /\ SameTree(m, m1, K)
    BY <1>1, <1>4, <1>8 DEF Sound
  <2>2. TablesOf(m1, pr[p].ptable) \cap TablesOf(m1, K) = {}
    BY <1>8, <2>1, SoundShares DEF SameTree
  <2>3. SameTree(m1, m2, pr[p].ptable)
    <3>1. Tree(m1, pr[p].ptable)
      BY <2>1 DEF SameTree
    <3> QED BY <1>3, <1>8, <2>2, <3>1, OtherTree DEF SameTree
  <2> QED BY <2>1, <2>3 DEF SameTree
<1>6. CASE CutShort(m1, K, (HeapStart + top) .. (HeapStart + top) + n - 1, m2)
  <2>1. PICK N \in SUBSET Pages :
          /\ Extended(m1, K, N, m2)
          /\ \A w \in VirtualPages \ ((HeapStart + top) .. (HeapStart + top) + n - 1) :
                mmu_translate(m2, K, w) = mmu_translate(m1, K, w)
    BY <1>6 DEF CutShort
  <2>2. /\ MemOK(m2) /\ m2.fault /\ Tree(m2, K) /\ N \cap (m.taken \union X) = {}
        /\ m2.taken = m.taken \union X \union N /\ m2.last = m.last \union {f + n - 1} \union N
        /\ TablesOf(m2, K) = TablesOf(m, K) \union N
    BY <1>1, <1>3, <1>4, <1>6, <2>1 DEF Extended, SameTree, CutShort
  <2>3. ASSUME NEW k \in HeapPages, k < top PROVE HeapPage(m2, k) = HeapPage(m, k)
    <3>1. /\ HeapStart + k \in VirtualPages
          /\ HeapStart + k \notin (HeapStart + top) .. (HeapStart + top) + n - 1
      BY <1>1, <2>3, HeapVirtual DEF HeapPages
    <3>2. mmu_translate(m1, K, HeapStart + k) = HeapPage(m, k)
      BY <1>1, <1>4, <3>1 DEF HeapPage, SameTree
    <3> QED BY <2>1, <3>1, <3>2 DEF HeapPage
  <2>4. SameTrees(m, m2, pr)
    BY <1>8, <2>1 DEF SameTrees
  <2>5. Lost(m, pr, oKernel, N, X, m2)
    <3>1. f + n - 1 \in X
      BY <1>2
    <3>2. \A p \in Procs : pr[p].state # "none" => GrownTree(m, m2, pr[p].ptable, {})
      BY <2>4 DEF SameTrees, SameTree, GrownTree
    <3>3. \A p \in Procs : oKernel # oTables(p)
      BY OwnersDiffer
    <3>4. GrownTree(m, m2, K, N)
      BY <2>2 DEF GrownTree
    <3> HIDE DEF X
    <3>5. X \cap (m.taken \union N) = {} /\ m2.taken = m.taken \union N \union X
      BY <1>2, <2>2
    <3> QED BY <2>2, <3>1, <3>2, <3>3, <3>4, <3>5 DEF Lost
  <2>6. Sound(m2, top, pr, orp \union X)
    <3> HIDE DEF X
    <3> QED BY <2>3, <2>5, LostSound
  <2> QED BY <2>2, <2>3, <2>4, <2>6 DEF GrowOutcome, f
<1>7. CASE \E N \in SUBSET Pages :
          /\ Extended(m1, K, N, m2) /\ ~m2.fault
          /\ \A w \in VirtualPages :
                mmu_translate(m2, K, w) =
                   IF w \in (HeapStart + top) .. (HeapStart + top) + n - 1 THEN f + (w - (HeapStart + top))
                   ELSE mmu_translate(m1, K, w)
  <2>1. PICK N \in SUBSET Pages :
          /\ Extended(m1, K, N, m2) /\ ~m2.fault
          /\ \A w \in VirtualPages :
                mmu_translate(m2, K, w) =
                   IF w \in (HeapStart + top) .. (HeapStart + top) + n - 1 THEN f + (w - (HeapStart + top))
                   ELSE mmu_translate(m1, K, w)
    BY <1>7
  <2>2. /\ MemOK(m2) /\ ~m2.fault /\ Tree(m2, K) /\ N \cap (m.taken \union X) = {}
        /\ m2.taken = m.taken \union X \union N /\ m2.last = m.last \union {f + n - 1} \union N
        /\ TablesOf(m2, K) = TablesOf(m, K) \union N
    BY <1>1, <1>3, <1>4, <2>1 DEF Extended, SameTree
  <2>3. ASSUME NEW k \in HeapPages
        PROVE  HeapPage(m2, k) = IF k \in top .. top + n - 1 THEN f + (k - top) ELSE HeapPage(m, k)
    <3>1. HeapStart + k \in VirtualPages /\ k \in Nat
      BY HeapVirtual DEF HeapPages
    <3>2. /\ HeapStart + k \in (HeapStart + top) .. (HeapStart + top) + n - 1 <=> k \in top .. top + n - 1
          /\ (HeapStart + k) - (HeapStart + top) = k - top
      BY <1>1, <3>1
    <3>3. mmu_translate(m1, K, HeapStart + k) = HeapPage(m, k)
      BY <1>1, <1>4, <3>1 DEF HeapPage, SameTree
    <3> QED BY <2>1, <3>1, <3>2, <3>3 DEF HeapPage
  <2>4. ASSUME NEW p \in Procs, pr[p].state # "none" PROVE SameTree(m, m2, pr[p].ptable)
    BY <1>8, <2>1, <2>4
  <2>5. Partition(Holding(m2, top + n, pr, orp), m2.taken)
    <3> DEFINE H == Holding(m, top, pr, orp)
               H2 == Holding(m2, top + n, pr, orp)
               G == [o \in Owners |-> IF o = oKernel THEN N
                                      ELSE {x \in X : \E k \in HeapPages : o = oHeap(k) /\ x = f + (k - top)}]
    <3>1. Partition(H, m.taken) /\ HoldsAs(H, m, top, pr, orp) /\ HoldsAs(H2, m2, top + n, pr, orp)
      BY HoldingIs DEF Sound
    <3> HIDE DEF H, H2
    <3>2. /\ G[oKernel] = N
          /\ \A k \in HeapPages : G[oHeap(k)] = IF k \in top .. top + n - 1 THEN {f + (k - top)} ELSE {}
          /\ \A o \in Owners : o # oKernel /\ (\A k \in HeapPages : o # oHeap(k)) => G[o] = {}
      <4>1. G[oKernel] = N
        BY OwnersAre
      <4>2. ASSUME NEW k \in HeapPages
            PROVE  G[oHeap(k)] = IF k \in top .. top + n - 1 THEN {f + (k - top)} ELSE {}
        <5>1. k \in Nat
          BY DEF HeapPages
        <5>2. G[oHeap(k)] = {x \in X : x = f + (k - top)}
          BY OwnersAre, OwnersDiffer
        <5>3. f + (k - top) \in X <=> k \in top .. top + n - 1
          BY <1>1, <1>2, <5>1
        <5> QED BY <5>2, <5>3
      <4>3. \A o \in Owners : o # oKernel /\ (\A k \in HeapPages : o # oHeap(k)) => G[o] = {}
        OBVIOUS
      <4> QED BY <4>1, <4>2, <4>3
    <3>3. \A o \in Owners : G[o] \subseteq X \union N
      OBVIOUS
    <3>4. \A o \in Owners : o # oKernel => G[o] \subseteq X
      OBVIOUS
    <3>5. ASSUME NEW o \in Owners, NEW q \in Owners, o # q PROVE G[o] \cap G[q] = {}
      <4>1. CASE o = oKernel \/ q = oKernel
        BY <2>2, <3>2, <3>4, <3>5, <4>1
      <4>2. CASE o # oKernel /\ q # oKernel
        <5>1. SUFFICES ASSUME NEW x \in G[o] \cap G[q] PROVE FALSE
          OBVIOUS
        <5>2. PICK j \in HeapPages : o = oHeap(j) /\ x = f + (j - top)
          BY <4>2, <5>1
        <5>3. PICK k \in HeapPages : q = oHeap(k) /\ x = f + (k - top)
          BY <4>2, <5>1
        <5>4. j = k
          BY <1>1, <1>2, <5>2, <5>3 DEF HeapPages
        <5> QED BY <3>5, <5>2, <5>3, <5>4
      <4> QED BY <4>1, <4>2
    <3>6. ASSUME NEW x \in m2.taken \ m.taken PROVE \E o \in Owners : x \in G[o]
      <4>1. CASE x \in N
        BY <3>2, <4>1, OwnersAre
      <4>2. CASE x \in X
        <5> DEFINE k == top + (x - f)
        <5>1. k \in HeapPages /\ k \in top .. top + n - 1 /\ f + (k - top) = x
          BY <1>1, <1>2, <4>2 DEF HeapPages
        <5> HIDE DEF k, G
        <5>2. x \in G[oHeap(k)] /\ oHeap(k) \in Owners
          BY <3>2, <5>1, OwnersAre
        <5> QED BY <5>2
      <4> QED BY <2>2, <3>6, <4>1, <4>2
    <3> HIDE DEF G
    <3>7. ASSUME NEW o \in Owners PROVE H2[o] = H[o] \union G[o]
      <4>1. CASE o = oKernel
        BY <2>2, <3>1, <3>2, <4>1 DEF HoldsAs
      <4>2. ASSUME NEW k \in HeapPages, o = oHeap(k) PROVE H2[o] = H[o] \union G[o]
        <5>1. k \in Nat
          BY DEF HeapPages
        <5>2. /\ H[o] = (IF k < top THEN {HeapPage(m, k)} ELSE {})
              /\ H2[o] = (IF k < top + n THEN {HeapPage(m2, k)} ELSE {})
              /\ G[o] = (IF k \in top .. top + n - 1 THEN {f + (k - top)} ELSE {})
          BY <3>1, <3>2, <4>2 DEF HoldsAs
        <5>3. CASE k < top
          BY <1>1, <2>3, <5>1, <5>2, <5>3
        <5>4. CASE k \in top .. top + n - 1
          BY <1>1, <2>3, <5>1, <5>2, <5>4
        <5>5. CASE k >= top + n
          BY <1>1, <5>1, <5>2, <5>5
        <5> QED BY <1>1, <5>1, <5>3, <5>4, <5>5
      <4>3. CASE o \in {oBook, oTrap, oOrphan}
        <5>1. G[o] = {}
          BY <3>2, <4>3, OwnersDiffer
        <5> QED BY <3>1, <4>3, <5>1 DEF HoldsAs
      <4>4. ASSUME NEW p \in Procs, o = oTables(p) \/ o = oStack(p) \/ o = oImage(p)
            PROVE  H2[o] = H[o] \union G[o]
        <5>1. G[o] = {}
          BY <3>2, <4>4, OwnersDiffer
        <5>2. pr[p].state # "none" => TablesOf(m2, pr[p].ptable) = TablesOf(m, pr[p].ptable)
          BY <2>4 DEF SameTree
        <5> QED BY <3>1, <4>4, <5>1, <5>2 DEF HoldsAs
      <4> QED BY <4>1, <4>2, <4>3, <4>4, OwnersAre
    <3>8. \A o \in Owners : G[o] \cap m.taken = {} /\ G[o] \subseteq m2.taken
      BY <1>2, <2>2, <3>3
    <3>9. m.taken \subseteq m2.taken
      BY <2>2
    <3>10. Partition(H2, m2.taken)
      BY <3>1, <3>5, <3>6, <3>7, <3>8, <3>9, PartitionAdds
    <3> QED BY <3>10 DEF H2
  <2>7. EndBits(m2.taken, m2.last, I, Joints(m2, top + n) \union orp)
    <3>1. EndBits(m.taken, m.last, I, Joints(m, top) \union orp)
      BY <1>1 DEF HeapMapped
    <3>2. m2.last \subseteq m2.taken
      BY <1>2, <2>2, <3>1 DEF EndBits
    <3>3. I \cap m2.last = {}
      <4>1. I \subseteq m.taken
        <5>1. Partition(Holding(m, top, pr, orp), m.taken)
          BY DEF Sound
        <5> QED BY <5>1, InteriorOwned
      <4>2. f + n - 1 \in X
        BY <1>2
      <4> QED BY <1>2, <2>2, <3>1, <4>1, <4>2 DEF EndBits
    <3>4. ASSUME NEW x \in m2.taken \ m2.last PROVE x \in I \union Joints(m2, top + n) \union orp
      <4>1. CASE x \in m.taken
        <5>1. x \in I \/ x \in Joints(m, top) \/ x \in orp
          BY <2>2, <3>1, <3>4, <4>1 DEF EndBits
        <5>2. ASSUME x \in Joints(m, top) PROVE x \in Joints(m2, top + n)
          <6>1. PICK k \in 0 .. top - 2 : HeapPage(m, k) = x /\ HeapPage(m, k + 1) = x + 1
            BY <5>2 DEF Joints
          <6>2. /\ k \in HeapPages /\ k + 1 \in HeapPages /\ k \in 0 .. (top + n) - 2
                /\ k \notin top .. top + n - 1 /\ k + 1 \notin top .. top + n - 1
            BY <1>1, <6>1 DEF HeapPages
          <6>3. HeapPage(m2, k) = x /\ HeapPage(m2, k + 1) = x + 1
            BY <2>3, <6>1, <6>2
          <6>4. x \in Pages
            BY <5>2 DEF Joints
          <6>5. \E l \in 0 .. (top + n) - 2 : HeapPage(m2, l) = x /\ HeapPage(m2, l + 1) = x + 1
            BY <6>2, <6>3
          <6> QED BY <6>4, <6>5 DEF Joints
        <5> QED BY <5>1, <5>2
      <4>2. CASE x \notin m.taken
        <5>1. x \in X /\ x # f + n - 1
          BY <2>2, <3>4, <4>2
        <5> DEFINE k == top + (x - f)
        <5>2. /\ k \in HeapPages /\ k + 1 \in HeapPages /\ k \in 0 .. (top + n) - 2
              /\ k \in top .. top + n - 1 /\ k + 1 \in top .. top + n - 1
              /\ f + (k - top) = x /\ f + ((k + 1) - top) = x + 1
          BY <1>1, <1>2, <5>1 DEF HeapPages
        <5> HIDE DEF k
        <5>3. HeapPage(m2, k) = x /\ HeapPage(m2, k + 1) = x + 1
          BY <2>3, <5>2
        <5>4. x \in Pages
          BY <1>2, <5>1
        <5> QED BY <5>2, <5>3, <5>4 DEF Joints
      <4> QED BY <4>1, <4>2
    <3> QED BY <3>2, <3>3, <3>4 DEF EndBits
  <2>8. ASSUME NEW k \in HeapPages, k >= top + n PROVE HeapPage(m2, k) = NoPage
    <3>1. k \in Nat /\ k >= top /\ k \notin top .. top + n - 1
      BY <1>1, <2>8 DEF HeapPages
    <3>2. ~m.fault
      BY <1>3, <2>1 DEF Extended
    <3> QED BY <2>3, <3>1, <3>2 DEF Sound, NothingFrom
  <2>9. Sound(m2, top + n, pr, orp)
    <3> DEFINE t2 == top + n
    <3>1. t2 \in Nat /\ t2 <= MaxHeapPages
      BY <1>1
    <3>2. \A p \in Procs : pr[p].state # "none" => Tree(m2, pr[p].ptable)
      BY <2>4 DEF SameTree
    <3> HIDE DEF t2
    <3>3. /\ EndBits(m2.taken, m2.last, Interior(pr), Joints(m2, t2) \union orp)
          /\ NothingFrom(m2, t2)
          /\ Partition(Holding(m2, t2, pr, orp), m2.taken)
      BY <2>5, <2>7, <2>8 DEF t2, NothingFrom
    <3>4. Sound(m2, t2, pr, orp)
      BY <2>2, <3>1, <3>2, <3>3, SoundMakes
    <3> QED BY <3>4 DEF t2
  <2> QED BY <2>2, <2>3, <2>4, <2>9 DEF GrowOutcome, SameTrees, f
<1> QED BY <1>5, <1>6, <1>7 DEF MapOutcome

(* The heap shrinks *)

ShrinkOutcome(m, top, n, pr, orp, m2) ==
    /\ m2.fault = m.fault /\ Sound(m2, top - n, pr, orp) /\ SameTrees(m, m2, pr)
    /\ \A k \in HeapPages : k < top - n => HeapPage(m2, k) = HeapPage(m, k)
\* The heap gives back its last n pages; every other owner keeps what it had.
LEMMA ShrinkSound ==
    ASSUME NEW m, NEW top, NEW pr \in [Procs -> Process], NEW orp, Sound(m, top, pr, orp),
           NEW n \in Nat, n <= top, NEW m2, m2 = PagesDropped(m, top, n)
    PROVE  ShrinkOutcome(m, top, n, pr, orp, m2)
<1> DEFINE K == kernel_mmu_table
           I == Interior(pr)
           t2 == top - n
           X == {HeapPage(m, k) : k \in t2 .. top - 1}
           H == Holding(m, top, pr, orp)
           H2 == Holding(m2, t2, pr, orp)
<1>1. /\ MemOK(m) /\ Tree(m, K) /\ top \in Nat /\ MaxHeapPages \in Nat /\ top <= MaxHeapPages
      /\ HeapMapped(m, top, I, orp) /\ m \in Memory
  BY HeapAssumption DEF Sound, HeapMapped, MemOK
<1>2. t2 \in Nat /\ t2 <= top /\ top - 1 < MaxHeapPages
  BY <1>1
<1>3. HeapMapped(m2, t2, I, orp) /\ Shortened(m, top, t2, m2)
  <2> HIDE DEF I
  <2>1. /\ HeapMapped(PagesDropped(m, top, n), top - n, I, orp)
        /\ Shortened(m, top, top - n, PagesDropped(m, top, n))
    BY <1>1, DropPages
  <2> QED BY <2>1
<1> HIDE DEF t2
<1>4. /\ MemOK(m2) /\ m2.fault = m.fault /\ Tree(m2, K) /\ TablesOf(m2, K) = TablesOf(m, K)
      /\ m2.taken = m.taken \ X /\ DOMAIN m2.tables = DOMAIN m.tables \ X
      /\ \A t \in DOMAIN m2.tables \ TablesOf(m, K) : m2.tables[t] = m.tables[t]
      /\ m2 \in Memory
  BY <1>3 DEF HeapMapped, Shortened, MemOK
<1>5. ASSUME NEW k \in HeapPages
      PROVE  /\ k \in t2 .. top - 1 => m.fault \/ HeapPage(m2, k) = NoPage
             /\ k \notin t2 .. top - 1 => HeapPage(m2, k) = HeapPage(m, k)
  <2> HIDE DEF X, H, H2, I
  <2>1. t2 \in Nat /\ t2 <= top /\ top \in Nat /\ top <= MaxHeapPages /\ Shortened(m, top, t2, m2)
    BY <1>1, <1>2, <1>3
  <2> QED BY <2>1, ShortenedBelow
<1>6. \A k \in t2 .. top - 1 : k \in HeapPages /\ k < top
  BY <1>1, <1>2 DEF HeapPages
<1>7. ASSUME NEW p \in Procs, pr[p].state # "none" PROVE SameTree(m, m2, pr[p].ptable)
  <2>1. /\ TablesOf(m, pr[p].ptable) \cap TablesOf(m, K) = {}
        /\ TablesOf(m, pr[p].ptable) \cap X = {}
    BY <1>6, <1>7, SoundShares
  <2>2. Tree(m, pr[p].ptable)
    BY <1>7 DEF Sound
  <2>3. \A t \in TablesOf(m, pr[p].ptable) : t \in DOMAIN m2.tables /\ m2.tables[t] = m.tables[t]
    BY <1>4, <2>1, <2>2, TablesOfIs DEF Tree
  <2> QED BY <1>1, <1>4, <2>2, <2>3, FrameStep DEF SameTree
<1>8. Partition(H2, m2.taken)
  <2>1. Partition(H, m.taken) /\ HoldsAs(H, m, top, pr, orp) /\ HoldsAs(H2, m2, t2, pr, orp)
    BY HoldingIs DEF Sound
  <2> HIDE DEF H, H2
  <2>2. ASSUME NEW o \in Owners, \A k \in HeapPages : o # oHeap(k) PROVE H[o] \cap X = {}
    <3> SUFFICES ASSUME NEW k \in t2 .. top - 1 PROVE HeapPage(m, k) \notin H[o]
      OBVIOUS
    <3>1. k \in HeapPages /\ k < top /\ oHeap(k) \in Owners
      BY <1>6, OwnersAre
    <3>2. H[oHeap(k)] = {HeapPage(m, k)}
      BY <2>1, <3>1 DEF HoldsAs
    <3> QED BY <2>1, <2>2, <3>1, <3>2 DEF Partition
  <2>3. ASSUME NEW o \in Owners PROVE H2[o] = H[o] \ X
    <3>1. CASE o \in {oBook, oTrap, oKernel, oOrphan}
      <4>1. H[o] \cap X = {}
        BY <2>2, <3>1, OwnersDiffer
      <4>2. H2[o] = H[o]
        BY <1>4, <2>1, <3>1 DEF HoldsAs
      <4> QED BY <4>1, <4>2
    <3>2. ASSUME NEW p \in Procs, o = oTables(p) \/ o = oStack(p) \/ o = oImage(p)
          PROVE  H2[o] = H[o] \ X
      <4>1. H[o] \cap X = {}
        BY <2>2, <3>2, OwnersDiffer
      <4>2. pr[p].state # "none" => TablesOf(m2, pr[p].ptable) = TablesOf(m, pr[p].ptable)
        BY <1>7 DEF SameTree
      <4>3. H2[o] = H[o]
        BY <2>1, <3>2, <4>2 DEF HoldsAs
      <4> QED BY <4>1, <4>3
    <3>3. ASSUME NEW k \in HeapPages, o = oHeap(k) PROVE H2[o] = H[o] \ X
      <4>1. k \in Nat /\ oHeap(k) \in Owners
        BY OwnersAre DEF HeapPages
      <4>2. /\ H[o] = (IF k < top THEN {HeapPage(m, k)} ELSE {})
            /\ H2[o] = (IF k < t2 THEN {HeapPage(m2, k)} ELSE {})
        BY <2>1, <3>3 DEF HoldsAs
      <4>3. CASE k < t2
        <5>1. k \in 0 .. top - 1 /\ k \notin t2 .. top - 1 /\ k < top
          BY <1>1, <1>2, <4>1, <4>3
        <5>2. HeapPage(m2, k) = HeapPage(m, k)
          BY <1>5, <5>1
        <5>3. HeapPage(m, k) \notin X
          <6> SUFFICES ASSUME NEW j \in t2 .. top - 1 PROVE HeapPage(m, k) # HeapPage(m, j)
            OBVIOUS
          <6>1. j \in 0 .. top - 1 /\ j # k
            BY <1>2, <4>1, <5>1
          <6> QED BY <1>1, <5>1, <6>1 DEF HeapMapped
        <5> HIDE DEF X
        <5> QED BY <4>2, <4>3, <5>1, <5>2, <5>3
      <4>4. CASE k \in t2 .. top - 1
        <5>1. HeapPage(m, k) \in X
          BY <4>4
        <5>2. k < top /\ ~(k < t2)
          BY <1>1, <1>2, <4>4
        <5> HIDE DEF X
        <5> QED BY <4>2, <5>1, <5>2
      <4>5. CASE k >= top
        <5>1. ~(k < top) /\ ~(k < t2)
          BY <1>1, <1>2, <4>1, <4>5
        <5> QED BY <4>2, <5>1
      <4> QED BY <1>1, <1>2, <4>1, <4>3, <4>4, <4>5
    <3> QED BY <3>1, <3>2, <3>3, OwnersAre
  <2> HIDE DEF X
  <2>4. Partition(H2, m.taken \ X)
    BY <2>1, <2>3, PartitionDrops
  <2> QED BY <1>4, <2>4
<1>9. ASSUME ~m.fault, NEW k \in HeapPages, k >= t2 PROVE HeapPage(m2, k) = NoPage
  <2>1. k \in Nat
    BY DEF HeapPages
  <2>2. CASE k >= top
    BY <1>1, <1>5, <1>9, <2>1, <2>2 DEF Sound, NothingFrom
  <2>3. CASE k < top
    BY <1>1, <1>2, <1>5, <1>9, <2>1, <2>3
  <2> QED BY <1>1, <2>1, <2>2, <2>3
<1>10. Sound(m2, t2, pr, orp)
  BY <1>3, <1>4, <1>7, <1>8, <1>9 DEF Sound, SameTree, NothingFrom
<1>11. \A k \in HeapPages : k < t2 => HeapPage(m2, k) = HeapPage(m, k)
  BY <1>1, <1>2, <1>5 DEF HeapPages
<1> QED BY <1>4, <1>7, <1>10, <1>11 DEF t2, SameTrees, ShrinkOutcome

LostOutcome(m, top, pr, orp, c) ==
    /\ Sound(c, top, pr, orp \union (c.taken \ m.taken)) /\ SameTrees(m, c, pr)
    /\ \A k \in HeapPages : HeapPage(c, k) = HeapPage(m, k)
\* Everything that a call took which cannot go on is lost.
LEMMA LostAll ==
    ASSUME NEW m, NEW top, NEW pr \in [Procs -> Process], NEW orp, Sound(m, top, pr, orp),
           NEW c, MemOK(c), c.fault, m.taken \subseteq c.taken, m.last \subseteq c.last,
           c.last \subseteq m.last \union (c.taken \ m.taken),
           \A r : Tree(m, r) /\ TablesOf(m, r) \subseteq m.taken => SameTree(m, c, r)
    PROVE  LostOutcome(m, top, pr, orp, c)
<1> DEFINE K == kernel_mmu_table
           X == c.taken \ m.taken
<1>1. Tree(m, K) /\ TablesOf(m, K) \subseteq m.taken
  BY SoundShares DEF Sound, HeapMapped
<1>2. SameTree(m, c, K) /\ SameTrees(m, c, pr)
  BY <1>1, SoundShares DEF Sound, SameTrees
<1>3. \A k \in HeapPages : HeapPage(c, k) = HeapPage(m, k)
  BY <1>2, HeapVirtual DEF SameTree, HeapPage
<1>4. X \cap (m.taken \union {}) = {} /\ c.taken = m.taken \union {} \union X
      /\ c.last \subseteq m.last \union X
  OBVIOUS
<1> HIDE DEF X
<1>5. Lost(m, pr, oKernel, {}, X, c)
  BY <1>2, <1>4 DEF Lost, SameTrees, SameTree, GrownTree
<1>6. Sound(c, top, pr, orp \union X)
  BY <1>3, <1>5, LostSound
<1> QED BY <1>2, <1>3, <1>6 DEF LostOutcome, X

(* A process is made *)

\* A root without entries.
LEMMA FreshRoot ==
    ASSUME NEW m, MemOK(m), NEW r \in DOMAIN m.tables, \A j \in Indices : m.tables[r][j] = Invalid
    PROVE  /\ Tree(m, r) /\ TablesOf(m, r) = {r}
           /\ \A v \in VirtualPages : mmu_translate(m, r, v) = NoPage
<1>1. Mid(m, r) = {}
  BY DEF Mid, Branch, Invalid
<1>2. Low(m, r) = {}
  BY <1>1 DEF Low
<1>3. Invalid.kind = "invalid"
  BY DEF Invalid
<1>4. Tree(m, r)
  BY <1>1, <1>2, <1>3 DEF Tree
<1>5. ASSUME NEW v \in VirtualPages PROVE mmu_translate(m, r, v) = NoPage
  <2>1. m.tables[r][vpn(v, 2)] = Invalid
    BY VpnIsIndex
  <2>2. Walk(m, r, v) = NoPage
    BY <2>1 DEF Walk
  <2> QED BY <1>4, <2>2, WalkIs DEF MemOK
<1> QED BY <1>1, <1>2, <1>4, <1>5, TablesOfIs

\* Without a page for a table a mapping faults.
LEMMA SetNeedsTable ==
    ASSUME NEW m, MemOK(m), NEW r, NEW v, NEW e, m.tables[r][vpn(v, 2)] = Invalid, ~m.fault,
           FirstFit(m.taken, 1) = NoPage
    PROVE  mmu_set(m, r, v, e).fault
<1>1. m.tables[r][vpn(v, 2)].kind = "invalid"
  BY DEF Invalid
<1>2. NewTable(m) = Fault(m)
  BY DEF NewTable
<1>3. Fault(m).fault
  BY FaultIs DEF MemOK
<1>4. Descended(m, r, v, 2) = Fault(m)
  BY <1>1, <1>2, <1>3 DEF Descended, Linked
<1> QED BY <1>3, <1>4 DEF mmu_set, SetLevel2

Pending(m, r, c) == \E N \in SUBSET Pages : Extended(m, r, N, c)
\* One more mmu_map under a root that is being filled.
LEMMA MapOne ==
    ASSUME NEW m, MemOK(m), NEW r, NEW c, Pending(m, r, c), NEW v \in VirtualPages, NEW x \in Int,
           NEW c2, c2 = mmu_map(c, r, v, x)
    PROVE  /\ Pending(m, r, c2) /\ (c.fault => c2.fault)
           /\ ~c2.fault => \A w \in VirtualPages :
                 mmu_translate(c2, r, w) = IF w = v THEN x ELSE mmu_translate(c, r, w)
<1> DEFINE e == Leaf(x)
<1>1. c2 = mmu_set(c, r, v, e) /\ e \in Entry /\ e.kind # "branch" /\ e.page = x
  BY EntryMakes DEF mmu_map
<1> HIDE DEF e
<1>2. CASE c.fault
  BY <1>1, <1>2, SetOfFault
<1>3. CASE ~c.fault
  <2>1. PICK N \in SUBSET Pages : Extended(m, r, N, c)
    BY DEF Pending
  <2>2. MemOK(c) /\ Tree(c, r)
    BY <2>1 DEF Extended
  <2>3. SetOutcome(c, r, v, e, c2)
    BY <1>1, <1>3, <2>2, SetKeeps
  <2>4. PICK M \in SUBSET Pages :
          /\ Extended(c, r, M, c2)
          /\ ~c2.fault => \A w \in VirtualPages :
                mmu_translate(c2, r, w) = IF w = v THEN e.page ELSE mmu_translate(c, r, w)
    BY <2>3 DEF SetOutcome, CutShort
  <2>5. Extended(m, r, N \union M, c2) /\ N \union M \in SUBSET Pages
    BY <2>1, <2>4, ExtendedTwice
  <2>6. Pending(m, r, c2)
    BY <2>5 DEF Pending
  <2> QED BY <1>1, <1>3, <2>4, <2>6
<1> QED BY <1>2, <1>3

\* The virtual pages of a process are different from each other and from the heap.
LEMMA VirtualLayout ==
    /\ TrampolineV \in VirtualPages /\ StackV \in VirtualPages /\ TrampolineV # StackV
    /\ \A k \in HeapPages : HeapStart + k # TrampolineV /\ HeapStart + k # StackV
    /\ KernelText \in Int /\ KernelText # NoPage /\ KernelText \notin Pages
<1>1. KernelText \in Nat /\ KernelText # NoPage /\ KernelText \notin Pages
  BY PagesAssumption DEF KernelText, NoPage, Pages
<1> QED BY <1>1, MemoryAssumption

\* The three mappings of process_init_new.
LEMMA FurnishedIs ==
    ASSUME NEW m, MemOK(m), ~m.fault, NEW r \in DOMAIN m.tables, \A j \in Indices : m.tables[r][j] = Invalid,
           NEW stack \in Int, NEW object, NEW k \in HeapPages, FrameV(object) = HeapStart + k,
           HeapPage(m, k) \in Int, NEW c, c = Furnished(m, r, stack, object)
    PROVE  /\ Pending(m, r, c)
           /\ FirstFit(m.taken, 1) = NoPage => c.fault
           /\ ~c.fault => \A w \in VirtualPages :
                 mmu_translate(c, r, w) = IF w = StackV THEN stack
                                         ELSE IF w = HeapStart + k THEN HeapPage(m, k)
                                         ELSE IF w = TrampolineV THEN KernelText ELSE NoPage
<1> DEFINE v == HeapStart + k
           a == mmu_map(m, r, TrampolineV, KernelText)
           b == mmu_map(a, r, v, HeapPage(m, k))
<1>1. c = mmu_map(b, r, StackV, stack)
  BY DEF Furnished, HeapPage
<1>2. v \in VirtualPages
  BY HeapVirtual
<1>3. /\ Tree(m, r) /\ TablesOf(m, r) = {r}
      /\ \A w \in VirtualPages : mmu_translate(m, r, w) = NoPage
  BY FreshRoot
<1>4. Pending(m, r, m)
  <2>1. Extended(m, r, {}, m)
    BY <1>3, ExtendedNot
  <2> QED BY <2>1 DEF Pending
<1>5. FirstFit(m.taken, 1) = NoPage => a.fault
  BY VpnIsIndex, VirtualLayout, SetNeedsTable DEF mmu_map
<1>6. /\ Pending(m, r, a)
      /\ ~a.fault => \A w \in VirtualPages :
            mmu_translate(a, r, w) = IF w = TrampolineV THEN KernelText ELSE mmu_translate(m, r, w)
  BY <1>4, VirtualLayout, MapOne
<1> HIDE DEF a, v
<1>7. /\ Pending(m, r, b) /\ (a.fault => b.fault)
      /\ ~b.fault => \A w \in VirtualPages :
            mmu_translate(b, r, w) = IF w = v THEN HeapPage(m, k) ELSE mmu_translate(a, r, w)
  BY <1>2, <1>6, MapOne
<1> HIDE DEF b
<1>8. /\ Pending(m, r, c) /\ (b.fault => c.fault)
      /\ ~c.fault => \A w \in VirtualPages :
            mmu_translate(c, r, w) = IF w = StackV THEN stack ELSE mmu_translate(b, r, w)
  <2>1. StackV \in VirtualPages
    BY VirtualLayout
  <2>2. ASSUME NEW d, d = mmu_map(b, r, StackV, stack)
        PROVE  /\ Pending(m, r, d) /\ (b.fault => d.fault)
               /\ ~d.fault => \A w \in VirtualPages :
                     mmu_translate(d, r, w) = IF w = StackV THEN stack ELSE mmu_translate(b, r, w)
    BY <1>7, <2>1, <2>2, MapOne
  <2> QED BY <1>1, <2>2
<1>9. ASSUME ~c.fault
      PROVE  \A w \in VirtualPages :
                 mmu_translate(c, r, w) = IF w = StackV THEN stack
                                         ELSE IF w = v THEN HeapPage(m, k)
                                         ELSE IF w = TrampolineV THEN KernelText ELSE NoPage
  BY <1>3, <1>6, <1>7, <1>8, <1>9
<1> QED BY <1>5, <1>7, <1>8, <1>9 DEF v

\* Process p gets the pages of A as tables, those of B as its stack and those of
\* C as its image.
TablesHeld(m, r) == IF r.state = "none" THEN {} ELSE TablesOf(m, r.ptable)
StackHeld(r) == IF r.state = "none" THEN {} ELSE {r.stack}
Gets(m, pr, p, A, B, C, m2, pr2) ==
    /\ A \cap B = {} /\ A \cap C = {} /\ B \cap C = {}
    /\ TablesOf(m2, kernel_mmu_table) = TablesOf(m, kernel_mmu_table)
    /\ \A k \in HeapPages : HeapPage(m2, k) = HeapPage(m, k)
    /\ \A q \in Procs : q # p =>
          /\ pr2[q] = pr[q]
          /\ pr[q].state # "none" => TablesOf(m2, pr[q].ptable) = TablesOf(m, pr[q].ptable)
    /\ TablesHeld(m2, pr2[p]) = TablesHeld(m, pr[p]) \union A
    /\ StackHeld(pr2[p]) = StackHeld(pr[p]) \union B
    /\ ImageOf(pr2[p]) = ImageOf(pr[p]) \union C
\* A process that gets free pages keeps the partition a partition.
LEMMA ProcessGets ==
    ASSUME NEW m, NEW top, NEW pr, NEW orp, NEW T, Partition(Holding(m, top, pr, orp), T),
           NEW p \in Procs, NEW A, NEW B, NEW C, (A \union B \union C) \cap T = {},
           NEW m2, NEW pr2, Gets(m, pr, p, A, B, C, m2, pr2)
    PROVE  Partition(Holding(m2, top, pr2, orp), T \union A \union B \union C)
<1> DEFINE H == Holding(m, top, pr, orp)
           H2 == Holding(m2, top, pr2, orp)
           T2 == T \union A \union B \union C
           G == [o \in Owners |-> IF o = oTables(p) THEN A ELSE IF o = oStack(p) THEN B
                                  ELSE IF o = oImage(p) THEN C ELSE {}]
<1>1. HoldsAs(H, m, top, pr, orp) /\ HoldsAs(H2, m2, top, pr2, orp) /\ Partition(H, T)
  BY HoldingIs
<1> HIDE DEF H, H2
<1>0. /\ A \cap B = {} /\ A \cap C = {} /\ B \cap C = {}
      /\ TablesOf(m2, kernel_mmu_table) = TablesOf(m, kernel_mmu_table)
      /\ \A k \in HeapPages : HeapPage(m2, k) = HeapPage(m, k)
      /\ \A q \in Procs : q # p =>
            /\ pr2[q] = pr[q]
            /\ pr[q].state # "none" => TablesOf(m2, pr[q].ptable) = TablesOf(m, pr[q].ptable)
      /\ TablesHeld(m2, pr2[p]) = TablesHeld(m, pr[p]) \union A
      /\ StackHeld(pr2[p]) = StackHeld(pr[p]) \union B
      /\ ImageOf(pr2[p]) = ImageOf(pr[p]) \union C
  BY DEF Gets
<1>2. /\ oTables(p) \in Owners /\ oStack(p) \in Owners /\ oImage(p) \in Owners
      /\ oTables(p) # oStack(p) /\ oTables(p) # oImage(p) /\ oStack(p) # oImage(p)
  BY OwnersAre, OwnersDiffer
<1>3. /\ G[oTables(p)] = A /\ G[oStack(p)] = B /\ G[oImage(p)] = C
      /\ \A o \in Owners : o \notin {oTables(p), oStack(p), oImage(p)} => G[o] = {}
  BY <1>2
<1> HIDE DEF G
<1>4. ASSUME NEW o \in Owners PROVE H2[o] = H[o] \union G[o]
  <2>1. CASE o \in {oBook, oTrap, oKernel, oOrphan}
    <3>1. G[o] = {}
      BY <1>3, <2>1, OwnersDiffer
    <3> QED BY <1>0, <1>1, <2>1, <3>1 DEF HoldsAs
  <2>2. ASSUME NEW k \in HeapPages, o = oHeap(k) PROVE H2[o] = H[o] \union G[o]
    <3>1. G[o] = {}
      BY <1>3, <2>2, OwnersDiffer
    <3> QED BY <1>0, <1>1, <2>2, <3>1 DEF HoldsAs
  <2>3. ASSUME NEW q \in Procs, q # p, o = oTables(q) \/ o = oStack(q) \/ o = oImage(q)
        PROVE  H2[o] = H[o] \union G[o]
    <3>1. G[o] = {}
      BY <1>3, <2>3, OwnersDiffer
    <3>2. pr2[q] = pr[q] /\ TablesHeld(m2, pr2[q]) = TablesHeld(m, pr[q])
      BY <1>0, <2>3 DEF TablesHeld
    <3>3. /\ H[oTables(q)] = TablesHeld(m, pr[q]) /\ H2[oTables(q)] = TablesHeld(m2, pr2[q])
          /\ H[oStack(q)] = StackHeld(pr[q]) /\ H2[oStack(q)] = StackHeld(pr2[q])
          /\ H[oImage(q)] = ImageOf(pr[q]) /\ H2[oImage(q)] = ImageOf(pr2[q])
      BY <1>1 DEF HoldsAs, TablesHeld, StackHeld
    <3> QED BY <2>3, <3>1, <3>2, <3>3
  <2>4. CASE o = oTables(p)
    BY <1>0, <1>1, <1>3, <2>4 DEF HoldsAs, TablesHeld
  <2>5. CASE o = oStack(p)
    BY <1>0, <1>1, <1>3, <2>5 DEF HoldsAs, StackHeld
  <2>6. CASE o = oImage(p)
    BY <1>0, <1>1, <1>3, <2>6 DEF HoldsAs
  <2> QED BY <2>1, <2>2, <2>3, <2>4, <2>5, <2>6, OwnersAre
<1>5. \A o \in Owners : G[o] \cap T = {} /\ G[o] \subseteq T2
  BY <1>3
<1>6. \A o, q \in Owners : o # q => G[o] \cap G[q] = {}
  BY <1>0, <1>3
<1>7. \A x \in T2 \ T : \E o \in Owners : x \in G[o]
  BY <1>2, <1>3
<1>8. T \subseteq T2
  OBVIOUS
<1> HIDE DEF T2
<1>9. Partition(H2, T2)
  BY <1>1, <1>4, <1>5, <1>6, <1>7, <1>8, PartitionAdds
<1> QED BY <1>9 DEF H2, T2
----------------------------------------------------------------------------
(* Processes are made, loaded and freed, and the kernel comes up *)

\* page_zalloc of one page.
TakenOutcome(m, f, b) ==
    /\ f \in Pages /\ f \notin m.taken /\ MemOK(b) /\ b.taken = m.taken \union {f}
    /\ b.last = m.last \union {f} /\ b.tables = m.tables /\ b.fault = m.fault
\* page_zalloc takes a page nobody had, an allocation of its own.
LEMMA TakenOne ==
    ASSUME NEW m, MemOK(m), NEW f, f = FirstFit(m.taken, 1), f # NoPage, NEW b, b = Taken(m, 1)
    PROVE  TakenOutcome(m, f, b)
<1>1. Need(1) = 1 /\ f \in Pages /\ (f .. f + Need(1) - 1) \cap m.taken = {}
  BY FitIs DEF Need
<1>2. f .. f + Need(1) - 1 = {f} /\ f + Need(1) - 1 = f
  BY <1>1, NoPageIs
<1>3. /\ MemOK(b) /\ b.taken = m.taken \union (f .. f + Need(1) - 1)
      /\ b.last = m.last \union {f + Need(1) - 1} /\ b.tables = m.tables /\ b.fault = m.fault
  BY TakenIs
<1> QED BY <1>1, <1>2, <1>3 DEF TakenOutcome

\* Process p gets pages that nobody had, of which those in L end an allocation
\* and the others are inside one.
NewPages(m, A, B, C, L, c) ==
    /\ (A \union B \union C) \cap m.taken = {} /\ A \cap B = {} /\ A \cap C = {} /\ B \cap C = {}
    /\ L \subseteq A \union B \union C /\ MemOK(c) /\ (m.fault => c.fault)
    /\ c.taken = m.taken \union A \union B \union C /\ c.last = m.last \union L
GivenTo(m, pr, p, A, B, C, L, c, pr2) ==
    /\ SameTree(m, c, kernel_mmu_table)
    /\ \A q \in Procs : q # p =>
          pr2[q] = pr[q] /\ (pr[q].state # "none" => SameTree(m, c, pr[q].ptable))
    /\ TablesHeld(c, pr2[p]) = TablesHeld(m, pr[p]) \union A
    /\ StackHeld(pr2[p]) = StackHeld(pr[p]) \union B
    /\ ImageOf(pr2[p]) = ImageOf(pr[p]) \union C /\ Tree(c, pr2[p].ptable)
    /\ Interior(pr2) = Interior(pr) \union ((A \union B \union C) \ L)
GiveOutcome(m, top, orp, c, pr2) ==
    /\ Sound(c, top, pr2, orp)
    /\ \A k \in HeapPages : HeapPage(c, k) = HeapPage(m, k)
\* Pages that nobody had go to one process; the memory stays in order.
LEMMA GiveSound ==
    ASSUME NEW m, NEW top, NEW pr \in [Procs -> Process], NEW orp, Sound(m, top, pr, orp),
           NEW p \in Procs, NEW A, NEW B, NEW C, NEW L, NEW c, NEW pr2 \in [Procs -> Process],
           NewPages(m, A, B, C, L, c), GivenTo(m, pr, p, A, B, C, L, c, pr2)
    PROVE  GiveOutcome(m, top, orp, c, pr2)
<1> DEFINE K == kernel_mmu_table
           I == Interior(pr)
           I2 == Interior(pr2)
<1>1. /\ MemOK(m) /\ Tree(m, K) /\ top \in Nat /\ MaxHeapPages \in Nat /\ top <= MaxHeapPages
      /\ EndBits(m.taken, m.last, I, Joints(m, top) \union orp)
      /\ Partition(Holding(m, top, pr, orp), m.taken)
  BY HeapAssumption DEF Sound, HeapMapped
<1>2. \A k \in HeapPages : HeapPage(c, k) = HeapPage(m, k)
  BY HeapVirtual DEF SameTree, HeapPage, GivenTo
<1>3. TablesOf(c, K) = TablesOf(m, K) /\ Tree(c, K) /\ MemOK(c)
  BY DEF SameTree, GivenTo, NewPages
<1>4. Partition(Holding(c, top, pr2, orp), c.taken)
  <2> DEFINE T == m.taken
  <2>1. Gets(m, pr, p, A, B, C, c, pr2)
    BY <1>2, <1>3 DEF Gets, GivenTo, NewPages, SameTree
  <2>2. Partition(Holding(m, top, pr, orp), T) /\ (A \union B \union C) \cap T = {}
    BY <1>1 DEF NewPages
  <2>4. c.taken = T \union A \union B \union C
    BY DEF NewPages
  <2> HIDE DEF T
  <2>3. Partition(Holding(c, top, pr2, orp), T \union A \union B \union C)
    BY <2>1, <2>2, ProcessGets
  <2> QED BY <2>3, <2>4
<1>5. Joints(c, top) = Joints(m, top)
  <2>1. \A k \in 0 .. top - 2 : k \in HeapPages /\ k + 1 \in HeapPages
    BY <1>1 DEF HeapPages
  <2> QED BY <1>2, <2>1 DEF Joints
<1>6. EndBits(c.taken, c.last, I2, Joints(c, top) \union orp)
  <2>1. I \subseteq m.taken
    BY <1>1, InteriorOwned
  <2> HIDE DEF I, I2
  <2>2. I2 = I \union ((A \union B \union C) \ L)
    BY DEF I, I2, GivenTo
  <2>3. /\ (A \union B \union C) \cap m.taken = {} /\ L \subseteq A \union B \union C
        /\ c.taken = m.taken \union A \union B \union C /\ c.last = m.last \union L
    BY DEF NewPages
  <2> QED BY <1>1, <1>5, <2>1, <2>2, <2>3 DEF EndBits
<1>7. \A q \in Procs : pr2[q].state # "none" => Tree(c, pr2[q].ptable)
  BY DEF SameTree, GivenTo
<1>8. c.fault \/ NothingFrom(c, top)
  BY <1>2 DEF Sound, NothingFrom, NewPages
<1>9. Sound(c, top, pr2, orp)
  BY <1>1, <1>3, <1>4, <1>6, <1>7, <1>8, SoundMakes
<1> QED BY <1>2, <1>9 DEF GiveOutcome

\* process_init_new, from the page table on.
NewOutcome(m, top, pr, orp, p, object, c, pr2) ==
    \/ c.fault /\ LostOutcome(m, top, pr, orp, c)
    \/ /\ ~c.fault /\ Sound(c, top, pr2, orp) /\ SameTrees(m, c, pr)
       /\ \A k \in HeapPages : HeapPage(c, k) = HeapPage(m, k)
       /\ Sees(c, pr2[p])
NewProcess(object, ptable, stack) ==
    [None EXCEPT !.state = "new", !.object = object, !.ptable = ptable, !.stack = stack]

\* The fields of a process that was just made.
LEMMA NewProcessIs ==
    ASSUME NEW object \in Allocation, NEW pt \in Int, NEW stack \in Int
    PROVE  LET r == NewProcess(object, pt, stack)
           IN /\ r \in Process /\ r.state = "new" /\ r.object = object /\ r.ptable = pt
              /\ r.stack = stack /\ r.pages = 0 /\ r.image = NoPage
  BY NoPageIs DEF NewProcess, None, Process

\* process_init_new from the page table on: it faults, or the process has its tables and
\* its stack and sees them.
LEMMA NewProcessSound ==
    ASSUME NEW m, ~m.fault, NEW top, NEW pr \in [Procs -> Process], NEW orp, Sound(m, top, pr, orp),
           NEW p \in Procs, pr[p].state = "none", NEW object \in Allocation,
           NEW k \in HeapPages, k < top, FrameV(object) = HeapStart + k,
           NEW pt, pt = FirstFit(m.taken, 1), NEW a, a = NewTable(m),
           NEW stack, stack = FirstFit(a.taken, 1),
           NEW c, c = IF a.fault THEN a ELSE Furnished(Taken(a, 1), pt, stack, object),
           NEW pr2, pr2 = [pr EXCEPT ![p] = NewProcess(object, pt, stack)]
    PROVE  NewOutcome(m, top, pr, orp, p, object, c, pr2)
<1> DEFINE K == kernel_mmu_table
           b == Taken(a, 1)
           r2 == NewProcess(object, pt, stack)
<1>1. /\ MemOK(m) /\ Tree(m, K) /\ top \in Nat /\ HeapMapped(m, top, Interior(pr), orp)
      /\ m \in Memory
  BY DEF Sound, HeapMapped, MemOK
<1>2. CASE a.fault
  <2>1. a = Fault(m) /\ c = a
    BY <1>1, <1>2, NewTableIs
  <2>2. /\ c \in Memory /\ c.fault /\ c.taken = m.taken /\ c.last = m.last /\ c.tables = m.tables
    BY <1>1, <2>1, FaultIs
  <2>3. MemOK(c)
    BY <1>1, <2>2 DEF MemOK
  <2>4. ASSUME NEW r, Tree(m, r) PROVE SameTree(m, c, r)
    <3>1. \A t \in TablesOf(m, r) : t \in DOMAIN c.tables /\ c.tables[t] = m.tables[t]
      BY <2>2, <2>4, TablesOfIs DEF Tree
    <3> QED BY <1>1, <2>2, <2>4, <3>1, FrameStep DEF SameTree
  <2>5. LostOutcome(m, top, pr, orp, c)
    BY <2>2, <2>3, <2>4, LostAll
  <2> QED BY <2>2, <2>5 DEF NewOutcome
<1>3. CASE ~a.fault
  <2>1. /\ pt \in Pages /\ pt \notin m.taken /\ MemOK(a)
        /\ a.taken = m.taken \union {pt} /\ a.last = m.last \union {pt}
        /\ DOMAIN a.tables = DOMAIN m.tables \union {pt}
        /\ a.tables[pt] = NoEntries
        /\ \A t \in DOMAIN m.tables : a.tables[t] = m.tables[t]
    BY <1>1, <1>3, NewTableIs, FaultIs
  <2>2. c = Furnished(b, pt, stack, object)
    BY <1>3
  <2>3. pt \in DOMAIN a.tables /\ \A j \in Indices : a.tables[pt][j] = Invalid
    BY <2>1 DEF NoEntries
  <2>4. k \in 0 .. top - 1 /\ HeapPage(m, k) \in Int
    <3>1. k \in 0 .. top - 1
      BY <1>1 DEF HeapPages
    <3>2. HeapPage(m, k) \in m.taken
      BY <1>1, <3>1 DEF HeapMapped
    <3> QED BY <1>1, <3>1, <3>2, MemoryIs, NoPageIs
  <2>5. ASSUME NEW d, MemOK(d), d.tables = a.tables, NEW r, Tree(m, r) PROVE SameTree(m, d, r)
    <3>1. \A t \in TablesOf(m, r) : t \in DOMAIN d.tables /\ d.tables[t] = m.tables[t]
      BY <2>1, <2>5, TablesOfIs DEF Tree
    <3>2. d \in Memory
      BY <2>5 DEF MemOK
    <3> QED BY <1>1, <2>5, <3>1, <3>2, FrameStep DEF SameTree
  <2>8. ASSUME NEW d, MemOK(d), d.tables = a.tables, m.taken \subseteq d.taken, pt \in d.taken,
               m.last \subseteq d.last, d.last \subseteq m.last \union (d.taken \ m.taken),
               Pending(d, pt, c), c.fault
        PROVE  NewOutcome(m, top, pr, orp, p, object, c, pr2)
    <3>1. PICK N \in SUBSET Pages : Extended(d, pt, N, c)
      BY <2>8 DEF Pending
    <3>2. Tree(d, pt) /\ TablesOf(d, pt) = {pt}
      BY <2>3, <2>8, FreshRoot
    <3>3. /\ MemOK(c) /\ m.taken \subseteq c.taken /\ m.last \subseteq c.last
          /\ c.last \subseteq m.last \union (c.taken \ m.taken)
      BY <2>8, <3>1 DEF Extended
    <3>4. ASSUME NEW r, Tree(m, r), TablesOf(m, r) \subseteq m.taken PROVE SameTree(m, c, r)
      <4>1. SameTree(m, d, r)
        BY <2>5, <2>8, <3>4
      <4>2. TablesOf(d, r) \cap TablesOf(d, pt) = {} /\ Tree(d, r)
        BY <2>1, <3>2, <3>4, <4>1 DEF SameTree
      <4>3. SameTree(d, c, r)
        BY <2>8, <3>1, <4>2, OtherTree DEF SameTree
      <4> QED BY <4>1, <4>3 DEF SameTree
    <3>5. LostOutcome(m, top, pr, orp, c)
      BY <2>8, <3>3, <3>4, LostAll
    <3> QED BY <2>8, <3>5 DEF NewOutcome
  <2>6. CASE stack = NoPage
    <3>1. b = a
      BY <2>6 DEF Taken
    <3>2. SameTree(m, a, K)
      BY <1>1, <2>1, <2>5
    <3>3. HeapPage(a, k) \in Int
      BY <2>4, <3>2, HeapVirtual DEF SameTree, HeapPage
    <3>4. stack \in Int /\ FirstFit(a.taken, 1) = NoPage
      BY <2>6, NoPageIs
    <3>5. ASSUME NEW d, d = Furnished(a, pt, stack, object) PROVE d.fault /\ Pending(a, pt, d)
      BY <1>3, <2>1, <2>3, <3>3, <3>4, <3>5, FurnishedIs
    <3>6. c.fault /\ Pending(a, pt, c)
      BY <2>2, <3>1, <3>5
    <3>7. m.taken \subseteq a.taken /\ pt \in a.taken /\ m.last \subseteq a.last
          /\ a.last \subseteq m.last \union (a.taken \ m.taken)
      BY <2>1
    <3> QED BY <2>1, <2>8, <3>6, <3>7
  <2>7. CASE stack # NoPage
    <3>1. /\ stack \in Pages /\ stack \notin a.taken /\ MemOK(b) /\ b.taken = a.taken \union {stack}
          /\ b.last = a.last \union {stack} /\ b.tables = a.tables /\ ~b.fault
      <4>1. TakenOutcome(a, stack, b)
        BY <2>1, <2>7, TakenOne
      <4> QED BY <1>3, <4>1 DEF TakenOutcome
    <3> HIDE DEF b
    <3>2. SameTree(m, b, K) /\ \A q \in Procs : pr[q].state # "none" => SameTree(m, b, pr[q].ptable)
      BY <1>1, <2>5, <3>1 DEF Sound
    <3>3. HeapPage(b, k) = HeapPage(m, k) /\ HeapPage(b, k) \in Int
      BY <2>4, <3>2, HeapVirtual DEF SameTree, HeapPage
    <3>4. /\ Pending(b, pt, c)
          /\ ~c.fault => \A w \in VirtualPages :
                 mmu_translate(c, pt, w) = IF w = StackV THEN stack
                                          ELSE IF w = HeapStart + k THEN HeapPage(b, k)
                                          ELSE IF w = TrampolineV THEN KernelText ELSE NoPage
      <4>1. stack \in Int
        BY <3>1, NoPageIs
      <4>2. pt \in DOMAIN b.tables /\ \A j \in Indices : b.tables[pt][j] = Invalid
        BY <2>3, <3>1
      <4>3. ASSUME NEW d, d = Furnished(b, pt, stack, object)
            PROVE  /\ Pending(b, pt, d)
                   /\ ~d.fault => \A w \in VirtualPages :
                        mmu_translate(d, pt, w) = IF w = StackV THEN stack
                                          ELSE IF w = HeapStart + k THEN HeapPage(b, k)
                                          ELSE IF w = TrampolineV THEN KernelText ELSE NoPage
        BY <3>1, <3>3, <4>1, <4>2, <4>3, FurnishedIs
      <4> QED BY <2>2, <4>3
    <3>5. CASE c.fault
      <4>1. /\ m.taken \subseteq b.taken /\ pt \in b.taken /\ m.last \subseteq b.last
            /\ b.last \subseteq m.last \union (b.taken \ m.taken)
        BY <2>1, <3>1
      <4> QED BY <2>8, <3>1, <3>4, <3>5, <4>1
    <3>6. CASE ~c.fault
      <4>1. PICK N \in SUBSET Pages : Extended(b, pt, N, c)
        BY <3>4 DEF Pending
      <4>2. Tree(b, pt) /\ TablesOf(b, pt) = {pt}
        BY <2>3, <3>1, FreshRoot
      <4>3. /\ MemOK(c) /\ Tree(c, pt) /\ N \cap (m.taken \union {pt, stack}) = {}
            /\ c.taken = m.taken \union {pt} \union {stack} \union N
            /\ c.last = m.last \union {pt} \union {stack} \union N
            /\ TablesOf(c, pt) = {pt} \union N
        BY <2>1, <3>1, <4>1, <4>2 DEF Extended
      <4>4. ASSUME NEW r, Tree(m, r), TablesOf(m, r) \subseteq m.taken PROVE SameTree(m, c, r)
        <5>1. SameTree(m, b, r)
          BY <2>5, <3>1, <4>4
        <5>2. TablesOf(b, r) \cap TablesOf(b, pt) = {} /\ Tree(b, r)
          BY <2>1, <4>2, <4>4, <5>1 DEF SameTree
        <5>3. SameTree(b, c, r)
          BY <3>1, <4>1, <5>2, OtherTree DEF SameTree
        <5> QED BY <5>1, <5>3 DEF SameTree
      <4>5. SameTree(m, c, K) /\ SameTrees(m, c, pr)
        BY <1>1, <4>4, SoundShares DEF SameTrees, Sound
      <4>6. /\ r2 \in Process /\ r2.state = "new" /\ r2.object = object /\ r2.ptable = pt
            /\ r2.stack = stack /\ r2.pages = 0
        BY <2>1, <3>1, NoPageIs, NewProcessIs
      <4> HIDE DEF r2
      <4>7. pr2 \in [Procs -> Process] /\ pr2[p] = r2 /\ \A q \in Procs : q # p => pr2[q] = pr[q]
        BY <4>6 DEF r2
      <4>8. Interior(pr2) = Interior(pr)
        <5>1. \A q \in Procs : (pr2[q].state = "loaded" <=> pr[q].state = "loaded")
                               /\ (pr[q].state = "loaded" => pr2[q] = pr[q])
          BY <4>6, <4>7
        <5> QED BY <5>1 DEF Interior
      <4>9. /\ TablesHeld(c, pr2[p]) = TablesHeld(m, pr[p]) \union ({pt} \union N)
            /\ StackHeld(pr2[p]) = StackHeld(pr[p]) \union {stack}
            /\ ImageOf(pr2[p]) = ImageOf(pr[p]) \union {}
        BY <4>3, <4>6, <4>7 DEF TablesHeld, StackHeld, ImageOf
      <4>10. Sound(c, top, pr2, orp) /\ \A j \in HeapPages : HeapPage(c, j) = HeapPage(m, j)
        <5> DEFINE A == {pt} \union N
                   B == {stack}
                   C == {}
                   L == A \union B
        <5>1. pt \notin m.taken /\ stack \notin m.taken /\ pt # stack /\ stack \notin N /\ N \cap m.taken = {}
          BY <2>1, <3>1, <4>3
        <5>2. /\ (A \union B \union C) \cap m.taken = {} /\ A \cap B = {} /\ A \cap C = {} /\ B \cap C = {}
              /\ L \subseteq A \union B \union C
          BY <5>1
        <5>3. NewPages(m, A, B, C, L, c)
          <6>1. c.taken = m.taken \union A \union B \union C /\ c.last = m.last \union L
            BY <4>3
          <6> HIDE DEF A, B, C, L
          <6> QED BY <4>3, <5>2, <6>1 DEF NewPages
        <5>4. (A \union B \union C) \ L = {}
          OBVIOUS
        <5>5. GivenTo(m, pr, p, A, B, C, L, c, pr2)
          <6>1. /\ TablesHeld(c, pr2[p]) = TablesHeld(m, pr[p]) \union A
                /\ StackHeld(pr2[p]) = StackHeld(pr[p]) \union B
                /\ ImageOf(pr2[p]) = ImageOf(pr[p]) \union C
            BY <4>9
          <6>2. Tree(c, pr2[p].ptable)
            BY <4>3, <4>6, <4>7
          <6> HIDE DEF A, B, C, L
          <6> QED BY <4>5, <4>7, <4>8, <5>4, <6>1, <6>2 DEF GivenTo, SameTrees
        <5> HIDE DEF A, B, C, L
        <5>6. GiveOutcome(m, top, orp, c, pr2)
          BY <4>7, <5>3, <5>5, GiveSound
        <5> QED BY <5>6 DEF GiveOutcome
      <4>11. Sees(c, pr2[p])
        <5> DEFINE F == HeapStart + k
        <5>1. /\ TrampolineV \in VirtualPages /\ StackV \in VirtualPages /\ TrampolineV # StackV
              /\ F # TrampolineV /\ F # StackV /\ F \in VirtualPages /\ KernelText # NoPage
          BY VirtualLayout, HeapVirtual
        <5>2. HeapPage(b, k) = mmu_translate(c, K, F)
          BY <3>3, <4>10 DEF HeapPage
        <5>3. HeapPage(b, k) # NoPage
          <6>1. HeapPage(b, k) \in m.taken
            BY <1>1, <2>4, <3>3 DEF HeapMapped
          <6> QED BY <1>1, <6>1, MemoryIs, NoPageIs
        <5>4. ImageV .. ImageV + 0 - 1 = {} /\ 0 .. 0 - 1 = {}
          BY MemoryAssumption
        <5> DEFINE G == HeapPage(b, k)
        <5>5. \A w \in VirtualPages :
                 mmu_translate(c, pt, w) = IF w = StackV THEN stack
                                          ELSE IF w = F THEN G
                                          ELSE IF w = TrampolineV THEN KernelText ELSE NoPage
          BY <3>4, <3>6
        <5>6. FrameV(object) = F
          OBVIOUS
        <5> HIDE DEF F, G
        <5>7. MappedBy(c, pt) = {TrampolineV, StackV, F}
          <6>1. \A w \in VirtualPages : mmu_translate(c, pt, w) # NoPage <=> w \in {TrampolineV, StackV, F}
            BY <2>7, <5>1, <5>3, <5>5 DEF G
          <6> QED BY <5>1, <6>1 DEF MappedBy
        <5>8. /\ mmu_translate(c, pt, TrampolineV) = KernelText /\ mmu_translate(c, pt, StackV) = stack
              /\ mmu_translate(c, pt, F) = mmu_translate(c, K, F)
          BY <5>1, <5>2, <5>5 DEF G
        <5>9. {TrampolineV, StackV, FrameV(object)} \union (ImageV .. ImageV + 0 - 1) = {TrampolineV, StackV, F}
          BY <5>4, <5>6
        <5> QED BY <4>6, <4>7, <5>4, <5>6, <5>7, <5>8, <5>9 DEF Sees
      <4> QED BY <3>6, <4>5, <4>10, <4>11 DEF NewOutcome
    <3> QED BY <3>5, <3>6
  <2> QED BY <2>6, <2>7
<1> QED BY <1>2, <1>3

(* A process is loaded *)

LoadedAs(r, image, n) == [r EXCEPT !.state = "loaded", !.image = image, !.pages = n]
\* The fields of a process that was just loaded.
LEMMA LoadedIs ==
    ASSUME NEW r \in Process, NEW image \in Int, NEW n \in Nat
    PROVE  LET s == LoadedAs(r, image, n)
           IN /\ s \in Process /\ s.state = "loaded" /\ s.object = r.object /\ s.ptable = r.ptable
              /\ s.stack = r.stack /\ s.pages = n /\ s.image = image
  BY DEF LoadedAs, Process

\* elf_load: the memory runs out and the image is lost, or the process has and sees its image.
LoadOutcome(m, top, pr, orp, p, X, c, pr2) ==
    \/ /\ c.fault /\ Sound(c, top, pr, orp \union X)
       /\ \A k \in HeapPages : HeapPage(c, k) = HeapPage(m, k)
       /\ \A q \in Procs : q # p /\ pr[q].state # "none" => SameTree(m, c, pr[q].ptable)
    \/ /\ ~c.fault /\ GiveOutcome(m, top, orp, c, pr2) /\ Sees(c, pr2[p])
       /\ pr2 \in [Procs -> Process]
       /\ \A q \in Procs : q # p => pr2[q] = pr[q] /\ (pr[q].state # "none" => SameTree(m, c, pr[q].ptable))
\* elf_load faults, or the process has its image and sees it, and nobody else changes.
LEMMA LoadSound ==
    ASSUME NEW m, NEW top, NEW pr \in [Procs -> Process], NEW orp, Sound(m, top, pr, orp),
           NEW p \in Procs, pr[p].state = "new", pr[p].pages = 0, Sees(m, pr[p]),
           NEW k \in HeapPages, k < top, FrameV(pr[p].object) = HeapStart + k, NEW n \in Sizes,
           NEW image, image = FirstFit(m.taken, n), image # NoPage,
           NEW c, c = mmu_map_multiple(Taken(m, n), pr[p].ptable, ImageV, image, n),
           NEW pr2, pr2 = [pr EXCEPT ![p] = LoadedAs(pr[p], image, n)]
    PROVE  LoadOutcome(m, top, pr, orp, p, image .. image + Need(n) - 1, c, pr2)
<1> DEFINE K == kernel_mmu_table
           pt == pr[p].ptable
           e == image + Need(n) - 1
           X == image .. e
           m1 == Taken(m, n)
<1>1. /\ MemOK(m) /\ Tree(m, K) /\ top \in Nat /\ m \in Memory /\ Tree(m, pt) /\ n \in Nat /\ ImageV \in Nat
  BY SizesAssumption, MemoryAssumption DEF Sound, HeapMapped, MemOK
<1>2. /\ Need(n) \in Nat /\ Need(n) > 0 /\ n <= Need(n) /\ image \in Nat /\ e \in Pages
      /\ X \subseteq Pages /\ X \cap m.taken = {}
  <2>1. FirstFit(m.taken, n) # NoPage
    OBVIOUS
  <2> QED BY <1>1, <2>1, FitIs, NoPageIs
<1>3. /\ MemOK(m1) /\ m1.taken = m.taken \union X /\ m1.last = m.last \union {e}
      /\ m1.tables = m.tables /\ m1.fault = m.fault
  <2>1. FirstFit(m.taken, n) # NoPage
    OBVIOUS
  <2> QED BY <1>1, <2>1, TakenIs
<1> HIDE DEF m1
<1>4. m1 \in Memory /\ \A r : Tree(m, r) => SameTree(m, m1, r)
  <2>1. m1 \in Memory
    BY <1>3 DEF MemOK
  <2>2. ASSUME NEW r, Tree(m, r) PROVE SameTree(m, m1, r)
    <3>1. \A t \in TablesOf(m, r) : t \in DOMAIN m1.tables /\ m1.tables[t] = m.tables[t]
      BY <1>3, <2>2, TablesOfIs DEF Tree
    <3> QED BY <1>1, <2>1, <2>2, <3>1, FrameStep DEF SameTree
  <2> QED BY <2>1, <2>2
<1>5. MapOutcome(m1, pt, ImageV, image, n, c)
  <2>1. \A i \in 0 .. n - 1 : ImageV + i \in VirtualPages
    BY MemoryAssumption
  <2>2. Tree(m1, pt) /\ image \in Int
    BY <1>1, <1>2, <1>4 DEF SameTree
  <2> DEFINE f == image
  <2>3. c = mmu_map_multiple(m1, pt, ImageV, f, n) /\ f \in Int
    BY <2>2 DEF m1
  <2> HIDE DEF pt, f
  <2>4. MapOutcome(m1, pt, ImageV, f, n, mmu_map_multiple(m1, pt, ImageV, f, n))
    BY <1>1, <1>3, <2>1, <2>2, <2>3, MapKeeps
  <2> QED BY <2>3, <2>4 DEF f
<1>8. PICK N \in SUBSET Pages :
          /\ Extended(m1, pt, N, c)
          /\ ~c.fault => \A w \in VirtualPages :
                mmu_translate(c, pt, w) = IF w \in ImageV .. ImageV + n - 1 THEN image + (w - ImageV)
                                         ELSE mmu_translate(m1, pt, w)
  BY <1>5 DEF MapOutcome, CutShort
<1>9. /\ MemOK(c) /\ Tree(c, pt) /\ N \cap (m.taken \union X) = {} /\ (m.fault => c.fault)
      /\ c.taken = m.taken \union X \union N /\ c.last = m.last \union {e} \union N
      /\ TablesOf(c, pt) = TablesOf(m, pt) \union N
  BY <1>1, <1>3, <1>4, <1>8 DEF Extended, SameTree
<1>10. ASSUME NEW r, Tree(m, r), TablesOf(m, r) \cap TablesOf(m, pt) = {} PROVE SameTree(m, c, r)
  <2>1. SameTree(m, m1, r) /\ SameTree(m, m1, pt)
    BY <1>1, <1>4, <1>10
  <2>2. TablesOf(m1, r) \cap TablesOf(m1, pt) = {} /\ Tree(m1, r)
    BY <1>10, <2>1 DEF SameTree
  <2>3. SameTree(m1, c, r)
    BY <1>3, <1>8, <2>2, OtherTree DEF SameTree
  <2> QED BY <2>1, <2>3 DEF SameTree
<1>11. SameTree(m, c, K) /\ \A q \in Procs : q # p /\ pr[q].state # "none" => SameTree(m, c, pr[q].ptable)
  BY <1>1, <1>10, SoundShares DEF Sound
<1>6. CASE c.fault
  <2>1. \A j \in HeapPages : HeapPage(c, j) = HeapPage(m, j)
    BY <1>11, HeapVirtual DEF SameTree, HeapPage
  <2>2. Lost(m, pr, oTables(p), N, X, c)
    <3>1. e \in X
      BY <1>2
    <3> HIDE DEF X, e
    <3>2. X \cap (m.taken \union N) = {} /\ c.taken = m.taken \union N \union X
      BY <1>2, <1>9
    <3>3. GrownTree(m, c, pt, N) /\ GrownTree(m, c, K, {})
      BY <1>9, <1>11 DEF GrownTree, SameTree
    <3>4. ASSUME NEW q \in Procs, pr[q].state # "none"
          PROVE  GrownTree(m, c, pr[q].ptable, IF oTables(p) = oTables(q) THEN N ELSE {})
      <4>1. CASE q = p
        BY <3>3, <4>1
      <4>2. CASE q # p
        <5>1. oTables(p) # oTables(q)
          BY <4>2, OwnersDiffer
        <5> QED BY <1>11, <3>4, <4>2, <5>1 DEF GrownTree, SameTree
      <4> QED BY <4>1, <4>2
    <3>5. oTables(p) # oKernel
      BY OwnersDiffer
    <3> QED BY <1>6, <1>9, <3>1, <3>2, <3>3, <3>4, <3>5 DEF Lost
  <2>3. Sound(c, top, pr, orp \union X)
    <3> HIDE DEF X
    <3> QED BY <2>1, <2>2, LostSound
  <2> QED BY <1>6, <1>11, <2>1, <2>3 DEF LoadOutcome
<1>7. CASE ~c.fault
  <2>1. \A w \in VirtualPages :
           mmu_translate(c, pt, w) = IF w \in ImageV .. ImageV + n - 1 THEN image + (w - ImageV)
                                    ELSE mmu_translate(m1, pt, w)
    BY <1>7, <1>8
  <2>2. /\ MemOK(c) /\ Tree(c, pt) /\ N \cap (m.taken \union X) = {}
        /\ c.taken = m.taken \union X \union N /\ c.last = m.last \union {e} \union N
        /\ TablesOf(c, pt) = TablesOf(m, pt) \union N
    BY <1>9
  <2>4. SameTree(m, c, K) /\ \A q \in Procs : q # p /\ pr[q].state # "none" => SameTree(m, c, pr[q].ptable)
    BY <1>11
  <2> DEFINE r2 == LoadedAs(pr[p], image, n)
  <2>5. /\ r2 \in Process /\ r2.state = "loaded" /\ r2.object = pr[p].object /\ r2.ptable = pt
        /\ r2.stack = pr[p].stack /\ r2.pages = n /\ r2.image = image
    <3>1. image \in Int /\ pr[p] \in Process
      BY <1>2
    <3> HIDE DEF pt
    <3> QED BY <1>1, <3>1, LoadedIs DEF pt
  <2> HIDE DEF r2
  <2>6. pr2 \in [Procs -> Process] /\ pr2[p] = r2 /\ \A q \in Procs : q # p => pr2[q] = pr[q]
    BY <2>5 DEF r2
  <2>7. Interior(pr2) = Interior(pr) \union (image .. e - 1)
    <3>1. image .. image + Need(n) - 2 = image .. e - 1 /\ image .. e - 1 \subseteq Pages
      BY <1>2, NoPageIs DEF Pages
    <3>2. \A x : (\E q \in Procs : /\ pr2[q].state = "loaded"
                                   /\ x \in pr2[q].image .. pr2[q].image + Need(pr2[q].pages) - 2)
                   <=> \/ x \in image .. e - 1
                       \/ \E q \in Procs : /\ pr[q].state = "loaded"
                                           /\ x \in pr[q].image .. pr[q].image + Need(pr[q].pages) - 2
      <4>1. /\ pr2[p].state = "loaded" /\ pr2[p].image .. pr2[p].image + Need(pr2[p].pages) - 2 = image .. e - 1
        BY <2>5, <2>6, <3>1
      <4>2. \A q \in Procs : pr[q].state = "loaded" => q # p
        OBVIOUS
      <4> HIDE DEF e
      <4> QED BY <2>6, <4>1, <4>2
    <3> HIDE DEF e
    <3> QED BY <3>1, <3>2 DEF Interior
  <2>8. GiveOutcome(m, top, orp, c, pr2)
    <3> DEFINE A == N
               B == {}
               C == X
               L == N \union {e}
    <3>1. e \in X /\ X \ {e} = image .. e - 1
      BY <1>2
    <3> HIDE DEF X, e
    <3>2. NewPages(m, A, B, C, L, c)
      <4>1. /\ (A \union B \union C) \cap m.taken = {} /\ A \cap B = {} /\ A \cap C = {} /\ B \cap C = {}
            /\ L \subseteq A \union B \union C
        BY <1>2, <2>2, <3>1
      <4>2. c.taken = m.taken \union A \union B \union C /\ c.last = m.last \union L
        BY <2>2
      <4> HIDE DEF A, B, C, L
      <4> QED BY <1>9, <2>2, <4>1, <4>2 DEF NewPages
    <3>3. GivenTo(m, pr, p, A, B, C, L, c, pr2)
      <4>1. /\ TablesHeld(c, pr2[p]) = TablesHeld(m, pr[p]) \union A
            /\ StackHeld(pr2[p]) = StackHeld(pr[p]) \union B
        BY <2>2, <2>5, <2>6 DEF TablesHeld, StackHeld
      <4>2. ImageOf(pr2[p]) = ImageOf(pr[p]) \union C
        BY <2>5, <2>6 DEF ImageOf, X, e
      <4>3. Tree(c, pr2[p].ptable)
        BY <2>2, <2>5, <2>6
      <4>4. (A \union B \union C) \ L = image .. e - 1
        BY <2>2, <3>1
      <4> HIDE DEF A, B, C, L
      <4> QED BY <2>4, <2>6, <2>7, <4>1, <4>2, <4>3, <4>4 DEF GivenTo
    <3> HIDE DEF A, B, C, L
    <3> QED BY <2>6, <3>2, <3>3, GiveSound
  <2>9. Sees(c, pr2[p])
    <3> DEFINE F == HeapStart + k
               V == ImageV .. ImageV + n - 1
               o == pr[p].object
               s == pr[p].stack
    <3>1. /\ TrampolineV \in VirtualPages /\ StackV \in VirtualPages /\ F \in VirtualPages
          /\ V \subseteq VirtualPages /\ TrampolineV \notin V /\ StackV \notin V /\ F \notin V
      <4>1. \A w \in V : w \in VirtualPages /\ w # TrampolineV /\ w # StackV /\ w # F
        <5> SUFFICES ASSUME NEW w \in V PROVE w \in VirtualPages /\ w # TrampolineV /\ w # StackV /\ w # F
          OBVIOUS
        <5> DEFINE i == w - ImageV
        <5>1. i \in 0 .. n - 1 /\ w = ImageV + i
          BY <1>1
        <5> HIDE DEF i
        <5> QED BY <5>1, MemoryAssumption
      <4> QED BY <4>1, VirtualLayout, HeapVirtual
    <3>2. \A w \in V : image + (w - ImageV) # NoPage
      BY <1>1, <1>2, PagesAssumption DEF NoPage
    <3>3. \A w \in VirtualPages : mmu_translate(m1, pt, w) = mmu_translate(m, pt, w)
      BY <1>1, <1>4 DEF SameTree
    <3>4. /\ MappedBy(m, pt) = {TrampolineV, StackV, F}
          /\ mmu_translate(m, pt, TrampolineV) = KernelText /\ mmu_translate(m, pt, StackV) = s
          /\ mmu_translate(m, pt, F) = mmu_translate(m, K, F)
      <4>1. ImageV .. ImageV + 0 - 1 = {}
        BY <1>1
      <4> QED BY <4>1 DEF Sees
    <3>5. mmu_translate(m, K, F) = mmu_translate(c, K, F)
      BY <2>4, <3>1 DEF SameTree
    <3>6. \A w \in VirtualPages :
             mmu_translate(c, pt, w) = IF w \in V THEN image + (w - ImageV) ELSE mmu_translate(m, pt, w)
      BY <2>1, <3>3
    <3>7. \A i \in 0 .. n - 1 : ImageV + i \in V /\ image + ((ImageV + i) - ImageV) = image + i
      BY <1>1, <1>2
    <3>8. FrameV(o) = F
      OBVIOUS
    <3> HIDE DEF F, V, o, s
    <3>9. MappedBy(c, pt) = {TrampolineV, StackV, F} \union V
      <4>1. \A w \in VirtualPages : mmu_translate(c, pt, w) # NoPage <=> w \in {TrampolineV, StackV, F} \union V
        BY <3>2, <3>4, <3>6 DEF MappedBy
      <4> QED BY <3>1, <4>1 DEF MappedBy
    <3>10. /\ mmu_translate(c, pt, TrampolineV) = KernelText /\ mmu_translate(c, pt, StackV) = s
           /\ mmu_translate(c, pt, F) = mmu_translate(c, K, F)
           /\ \A i \in 0 .. n - 1 : mmu_translate(c, pt, ImageV + i) = image + i
      BY <3>1, <3>4, <3>5, <3>6, <3>7
    <3>11. /\ pr2[p].object = o /\ pr2[p].ptable = pt /\ pr2[p].stack = s /\ pr2[p].pages = n /\ pr2[p].image = image
      BY <2>5, <2>6 DEF o, s
    <3> HIDE DEF pt
    <3>12. MappedBy(c, pt) = {TrampolineV, StackV, FrameV(o)} \union (ImageV .. ImageV + n - 1)
      BY <3>8, <3>9 DEF V
    <3> QED BY <3>8, <3>10, <3>11, <3>12 DEF Sees
  <2> QED BY <1>7, <2>4, <2>6, <2>8, <2>9 DEF LoadOutcome
<1> QED BY <1>6, <1>7

(* A process is freed *)

\* The entry of a process that is not there.
LEMMA NoneIs == None \in Process /\ None.state = "none" /\ None.pages = 0
  BY NoPageIs DEF None, Process

FreedTo(m, x, I, J, m2) ==
    /\ MemOK(m2) /\ m2.fault = m.fault /\ m2.taken = m.taken \ {x}
    /\ DOMAIN m2.tables = DOMAIN m.tables \ {x}
    /\ \A t \in DOMAIN m.tables \ {x} : m2.tables[t] = m.tables[t]
    /\ EndBits(m2.taken, m2.last, I, J \ {x - 1})
\* page_free of a page that is an allocation of its own frees that page.
LEMMA FreedOneIs ==
    ASSUME NEW m, MemOK(m), NEW I, NEW J, EndBits(m.taken, m.last, I, J),
           NEW x \in m.taken, x \notin I, x \notin J, x - 1 \notin I, NEW m2, m2 = Freed(m, x)
    PROVE  FreedTo(m, x, I, J, m2)
  BY FreedOne DEF FreedTo

\* The pages process_free gives back are each an allocation of their own.
FreedOutcome(m, top, pr, orp, p, c, pr2) ==
    /\ c.fault = m.fault
    /\ Sound(c, top, pr2, orp \union (TablesOf(m, pr[p].ptable) \ {pr[p].ptable}))
    /\ pr2 \in [Procs -> Process] /\ pr2[p] = None
    /\ \A q \in Procs : q # p => pr2[q] = pr[q]
    /\ SameTrees(m, c, pr2)
    /\ \A k \in HeapPages : HeapPage(c, k) = HeapPage(m, k)
\* process_free gives back image, stack and root; the lower tables become orphans.
LEMMA FreePagesSound ==
    ASSUME NEW m, NEW top, NEW pr \in [Procs -> Process], NEW orp, Sound(m, top, pr, orp),
           NEW p \in Procs, pr[p].state = "loaded", NEW c, c = FreedPages(m, pr[p]),
           NEW pr2, pr2 = [pr EXCEPT ![p] = None]
    PROVE  FreedOutcome(m, top, pr, orp, p, c, pr2)
<1> DEFINE K == kernel_mmu_table
           pt == pr[p].ptable
           s == pr[p].stack
           image == pr[p].image
           e == image + Need(pr[p].pages) - 1
           X == image .. e
           Y == X \union {s, pt}
           I == Interior(pr)
           I2 == Interior(pr2)
           J0 == Joints(m, top)
           J == J0 \union orp
           H == Holding(m, top, pr, orp)
           W == TablesOf(m, pt)
           orp2 == orp \union (W \ {pt})
           H2 == Holding(c, top, pr2, orp2)
           d1 == Freed(m, image)
           d2 == Freed(d1, s)
<1>1. /\ MemOK(m) /\ Tree(m, K) /\ top \in Nat /\ m \in Memory /\ Tree(m, pt) /\ top <= MaxHeapPages
      /\ EndBits(m.taken, m.last, I, J) /\ Partition(H, m.taken) /\ MaxHeapPages \in Nat
  BY HeapAssumption DEF Sound, HeapMapped, MemOK
<1>2. HoldsAs(H, m, top, pr, orp)
  BY HoldingIs
<1>3. /\ image \in Int /\ s \in Int /\ pt \in Int /\ Need(pr[p].pages) \in Nat /\ Need(pr[p].pages) > 0
      /\ e \in Int /\ image <= e
  BY ProcessIs
<1>4. Clear(H, pr)
  BY <1>1, InteriorOwned
<1>5. c = Freed(d2, pt)
  BY DEF FreedPages
<1>6. /\ pr2 \in [Procs -> Process] /\ pr2[p] = None /\ \A q \in Procs : q # p => pr2[q] = pr[q]
  BY NoneIs
<1>7. /\ I2 \subseteq I /\ I \subseteq I2 \union (image .. e - 1) 
      /\ \A x \in image .. e - 1 : x \in Pages => x \in I
  <2>1. image + Need(pr[p].pages) - 2 = e - 1
    BY <1>3
  <2>2. \A q \in Procs : pr2[q].state = "loaded" => q # p /\ pr2[q] = pr[q]
    BY <1>6, NoneIs
  <2>3. I2 \subseteq I
    BY <2>2 DEF Interior
  <2>4. I \subseteq I2 \union (image .. e - 1)
    BY <1>6, <2>1 DEF Interior
  <2>5. \A x \in image .. e - 1 : x \in Pages => x \in I
    BY <2>1 DEF Interior
  <2> QED BY <2>3, <2>4, <2>5
<1> HIDE DEF H, H2, I, I2, J0, J, W, d1, d2, e
<1>8. /\ H[oTables(p)] = W /\ H[oStack(p)] = {s} /\ H[oImage(p)] = X
      /\ oTables(p) \in Owners /\ oStack(p) \in Owners /\ oImage(p) \in Owners /\ oOrphan \in Owners
      /\ oTables(p) # oStack(p) /\ oTables(p) # oImage(p) /\ oStack(p) # oImage(p) /\ oOrphan # oTables(p)
      /\ H[oOrphan] = orp
  BY <1>2, OwnersAre, OwnersDiffer DEF HoldsAs, ImageOf, W, e
<1>9. /\ W \subseteq m.taken /\ X \subseteq m.taken /\ s \in m.taken /\ pt \in W
      /\ W \cap X = {} /\ s \notin W /\ s \notin X /\ m.taken \subseteq Pages /\ Pages \subseteq Int
  <2>1. pt \in W
    BY TablesOfIs DEF W
  <2>2. m.taken \subseteq Pages /\ Pages \subseteq Int
    BY <1>1, MemoryIs, NoPageIs
  <2> QED BY <1>1, <1>8, <2>1, <2>2 DEF Partition
<1>10. ASSUME NEW o \in Owners, o \notin {oTables(p), oStack(p), oImage(p)}
       PROVE  H[o] \cap (X \union {s} \union W) = {}
  BY <1>1, <1>8, <1>10 DEF Partition
<1>11. J \cap (X \union {s} \union W) = {}
  <2>0. orp \cap (X \union {s} \union W) = {}
    <3>1. oOrphan \notin {oTables(p), oStack(p), oImage(p)}
      BY OwnersDiffer
    <3> QED BY <1>8, <1>10, <3>1
  <2> SUFFICES ASSUME NEW x \in J0 PROVE x \notin X \union {s} \union W
    BY <2>0 DEF J
  <2>1. PICK k \in 0 .. top - 2 : HeapPage(m, k) = x
    BY DEF J0, Joints
  <2>2. k \in HeapPages /\ k < top
    BY <1>1, <2>1 DEF HeapPages
  <2>3. H[oHeap(k)] = {HeapPage(m, k)} /\ oHeap(k) \in Owners
    BY <1>2, <2>2, OwnersAre DEF HoldsAs
  <2>4. oHeap(k) \notin {oTables(p), oStack(p), oImage(p)}
    BY OwnersDiffer
  <2> QED BY <1>10, <2>1, <2>3, <2>4
<1>12. ASSUME NEW z \in I, z \in X \/ z + 1 \in X PROVE z \in X /\ z + 1 \in X
  <2>1. \/ z \in H[oBook] /\ z + 1 \in H[oBook]
        \/ \E q \in Procs : z \in H[oImage(q)] /\ z + 1 \in H[oImage(q)]
    BY InteriorIs DEF I, H
  <2>2. CASE z \in H[oBook] /\ z + 1 \in H[oBook]
    <3>1. H[oBook] \cap X = {}
      BY <1>10, OwnersAre, OwnersDiffer
    <3> QED BY <1>12, <2>2, <3>1
  <2>3. ASSUME NEW q \in Procs, z \in H[oImage(q)], z + 1 \in H[oImage(q)] PROVE z \in X /\ z + 1 \in X
    <3>1. CASE q = p
      BY <1>8, <2>3, <3>1
    <3>2. CASE q # p
      <4>1. oImage(q) \in Owners /\ oImage(q) \notin {oTables(p), oStack(p), oImage(p)}
        BY <3>2, OwnersAre, OwnersDiffer
      <4>2. H[oImage(q)] \cap X = {}
        BY <1>10, <4>1
      <4> QED BY <1>12, <2>3, <4>2
    <3> QED BY <3>1, <3>2
  <2> QED BY <2>1, <2>2, <2>3
<1>13. /\ image \in X /\ e \in X /\ image - 1 \notin X /\ e + 1 \notin X /\ (e = image + Need(pr[p].pages) - 1)
       /\ image - 1 \notin I /\ e \notin I
  <2>1. image \in X /\ e \in X /\ image - 1 \notin X /\ e + 1 \notin X /\ (image - 1) + 1 = image
    BY <1>3
  <2>2. image - 1 \notin I /\ e \notin I
    <3> HIDE DEF X, image
    <3> QED BY <1>12, <2>1
  <2> QED BY <2>1, <2>2 DEF e
<1>14. e \in m.last /\ (image .. e - 1) \cap m.last = {}
  <2>1. e \in m.taken /\ e \notin J
    BY <1>9, <1>11, <1>13
  <2>2. e \in m.last
    BY <1>1, <1>13, <2>1 DEF EndBits
  <2>3. image .. e - 1 \subseteq I
    <3>1. image .. e - 1 \subseteq X
      BY <1>3
    <3> QED BY <1>7, <1>9, <3>1
  <2> QED BY <1>1, <2>2, <2>3 DEF EndBits
<1>15. /\ MemOK(d1) /\ d1.taken = m.taken \ X /\ d1.last = (m.last \union ({image - 1} \cap m.taken)) \ {e}
       /\ d1.fault = m.fault /\ DOMAIN d1.tables = DOMAIN m.tables \ X
       /\ \A t \in DOMAIN m.tables \ X : d1.tables[t] = m.tables[t]
  <2>1. image \in Pages /\ e \in Pages
    BY <1>9, <1>13
  <2> HIDE DEF image
  <2> QED BY <1>1, <1>3, <1>9, <1>14, <2>1, FreedIs DEF d1
<1>16. EndBits(d1.taken, d1.last, I2, J)
  <2>1. d1.last \subseteq d1.taken
    <3>1. X \cap m.last \subseteq {e}
      <4>1. X = (image .. e - 1) \union {e}
        BY <1>3
      <4> QED BY <1>14, <4>1
    <3> HIDE DEF X, image
    <3> QED BY <1>1, <1>13, <1>15, <3>1 DEF EndBits
  <2>2. I2 \cap d1.last = {}
    <3> HIDE DEF X, image
    <3> QED BY <1>1, <1>7, <1>13, <1>15 DEF EndBits
  <2>3. d1.taken \ d1.last \subseteq I2 \union J
    <3>1. image .. e - 1 \subseteq X
      BY <1>3
    <3> HIDE DEF X, image
    <3> QED BY <1>1, <1>7, <1>13, <1>15, <3>1 DEF EndBits
  <2> QED BY <2>1, <2>2, <2>3 DEF EndBits
<1>17. s \notin I2 /\ s - 1 \notin I2 /\ s \notin J /\ s \in d1.taken
  <2>1. oStack(p) # oBook /\ \A q \in Procs : oStack(p) # oImage(q)
    BY OwnersDiffer
  <2>2. s \in H[oStack(p)]
    BY <1>8
  <2>3. s \notin I /\ s - 1 \notin I
    BY <1>3, <1>4, <1>8, <2>1, <2>2 DEF Clear, I
  <2> HIDE DEF X, s
  <2> QED BY <1>7, <1>9, <1>11, <1>15, <2>3
<1>18. /\ MemOK(d2) /\ d2.fault = d1.fault /\ d2.taken = d1.taken \ {s}
       /\ DOMAIN d2.tables = DOMAIN d1.tables \ {s}
       /\ \A t \in DOMAIN d1.tables \ {s} : d2.tables[t] = d1.tables[t]
       /\ EndBits(d2.taken, d2.last, I2, J \ {s - 1})
  <2> HIDE DEF s, d1
  <2>1. FreedTo(d1, s, I2, J, d2)
    BY <1>15, <1>16, <1>17, FreedOneIs DEF d2
  <2> QED BY <2>1 DEF FreedTo
<1>19. pt \notin I2 /\ pt - 1 \notin I2 /\ pt \notin J /\ pt \in d2.taken
  <2>1. oTables(p) # oBook /\ \A q \in Procs : oTables(p) # oImage(q)
    BY OwnersDiffer
  <2>2. pt \in H[oTables(p)]
    BY <1>8, <1>9
  <2>3. pt \notin I /\ pt - 1 \notin I
    BY <1>3, <1>4, <1>8, <2>1, <2>2 DEF Clear, I
  <2> HIDE DEF X, s, pt
  <2> QED BY <1>7, <1>9, <1>11, <1>15, <1>18, <2>3
<1>20. /\ MemOK(c) /\ c.fault = d2.fault /\ c.taken = d2.taken \ {pt}
       /\ DOMAIN c.tables = DOMAIN d2.tables \ {pt}
       /\ \A t \in DOMAIN d2.tables \ {pt} : c.tables[t] = d2.tables[t]
       /\ EndBits(c.taken, c.last, I2, (J \ {s - 1}) \ {pt - 1})
  <2> DEFINE J1 == J \ {s - 1}
  <2>1. EndBits(d2.taken, d2.last, I2, J1) /\ pt \notin J1
    BY <1>18, <1>19
  <2> HIDE DEF J1, pt
  <2>2. FreedTo(d2, pt, I2, J1, Freed(d2, pt))
    BY <1>18, <1>19, <2>1, FreedOneIs
  <2> QED BY <1>5, <2>2 DEF FreedTo, J1
<1>21. /\ c.fault = m.fault /\ c.taken = m.taken \ Y /\ c \in Memory
       /\ DOMAIN c.tables = DOMAIN m.tables \ Y /\ \A t \in DOMAIN c.tables : c.tables[t] = m.tables[t]
  <2>1. c.fault = m.fault /\ c.taken = m.taken \ Y /\ DOMAIN c.tables = DOMAIN m.tables \ Y /\ c \in Memory
    <3> HIDE DEF X, s, pt
    <3> QED BY <1>15, <1>18, <1>20 DEF MemOK
  <2>2. \A t \in DOMAIN c.tables : c.tables[t] = m.tables[t]
    <3> HIDE DEF X, s, pt
    <3> QED BY <1>15, <1>18, <1>20
  <2> QED BY <2>1, <2>2
<1> HIDE DEF X, s, pt, Y
<1>22. ASSUME NEW r, Tree(m, r), TablesOf(m, r) \cap Y = {} PROVE SameTree(m, c, r)
  <2>1. \A t \in TablesOf(m, r) : t \in DOMAIN c.tables /\ c.tables[t] = m.tables[t]
    BY <1>21, <1>22, TablesOfIs DEF Tree
  <2> QED BY <1>1, <1>21, <1>22, <2>1, FrameStep DEF SameTree
<1>23. Y \subseteq X \union {s} \union W
  BY <1>9 DEF Y
<1>24. SameTree(m, c, K)
  <2>1. oKernel \in Owners /\ oKernel \notin {oTables(p), oStack(p), oImage(p)}
    BY OwnersAre, OwnersDiffer
  <2>2. H[oKernel] = TablesOf(m, K)
    BY <1>2 DEF HoldsAs
  <2> QED BY <1>1, <1>10, <1>22, <1>23, <2>1, <2>2
<1>25. ASSUME NEW q \in Procs, q # p, pr[q].state # "none" PROVE SameTree(m, c, pr[q].ptable)
  <2>1. oTables(q) \in Owners /\ oTables(q) \notin {oTables(p), oStack(p), oImage(p)}
    BY <1>25, OwnersAre, OwnersDiffer
  <2>2. H[oTables(q)] = TablesOf(m, pr[q].ptable)
    BY <1>2, <1>25 DEF HoldsAs
  <2>3. Tree(m, pr[q].ptable)
    BY <1>25 DEF Sound
  <2> QED BY <1>10, <1>22, <1>23, <2>1, <2>2, <2>3
<1>26. SameTrees(m, c, pr2)
  BY <1>6, <1>25, NoneIs DEF SameTrees
<1>27. \A k \in HeapPages : HeapPage(c, k) = HeapPage(m, k)
  BY <1>24, HeapVirtual DEF SameTree, HeapPage
<1>28. Joints(c, top) = J0
  <2>1. \A k \in 0 .. top - 2 : k \in HeapPages /\ k + 1 \in HeapPages
    BY <1>1 DEF HeapPages
  <2> QED BY <1>27, <2>1 DEF Joints, J0
<1>29. Partition(H2, c.taken)
  <2> DEFINE H1 == [o \in Owners |-> H[o] \ Y]
  <2>1. Partition(H1, m.taken \ Y)
    <3>1. \A o \in Owners : H1[o] = H[o] \ Y
      OBVIOUS
    <3> HIDE DEF H1
    <3> QED BY <1>1, <3>1, PartitionDrops
  <2>2. HoldsAs(H2, c, top, pr2, orp2)
    <3> HIDE DEF orp2
    <3> QED BY HoldingIs DEF H2
  <2>3. ASSUME NEW o \in Owners, o \notin {oTables(p), oStack(p), oImage(p)} PROVE H1[o] = H[o]
    BY <1>10, <1>23, <2>3
  <2>4. H1[oTables(p)] = W \ {pt} /\ H1[oStack(p)] = {} /\ H1[oImage(p)] = {}
    BY <1>8, <1>9 DEF Y
  <2> HIDE DEF H1
  <2>5. H2[oTables(p)] = {} /\ H2[oStack(p)] = {} /\ H2[oImage(p)] = {}
    BY <1>6, <2>2, NoneIs DEF HoldsAs, ImageOf
  <2>6. H2[oOrphan] = H1[oTables(p)] \union H1[oOrphan]
    <3>1. H1[oOrphan] = orp
      BY <1>8, <2>3, OwnersDiffer
    <3> QED BY <2>2, <2>4, <3>1 DEF HoldsAs
  <2>7. ASSUME NEW o \in Owners, o \notin {oTables(p), oStack(p), oImage(p), oOrphan} PROVE H2[o] = H[o]
    <3>1. CASE o \in {oBook, oTrap, oKernel}
      BY <1>2, <1>24, <2>2, <3>1 DEF HoldsAs, SameTree
    <3>2. ASSUME NEW k \in HeapPages, o = oHeap(k) PROVE H2[o] = H[o]
      <4>1. H2[oHeap(k)] = IF k < top THEN {HeapPage(c, k)} ELSE {}
        BY <2>2 DEF HoldsAs
      <4>2. H[oHeap(k)] = IF k < top THEN {HeapPage(m, k)} ELSE {}
        BY <1>2 DEF HoldsAs
      <4> QED BY <1>27, <3>2, <4>1, <4>2
    <3>3. ASSUME NEW q \in Procs, o = oTables(q) \/ o = oStack(q) \/ o = oImage(q) PROVE H2[o] = H[o]
      <4>1. q # p
        BY <2>7, <3>3
      <4>2. pr2[q] = pr[q] /\ (pr[q].state # "none" => TablesOf(c, pr[q].ptable) = TablesOf(m, pr[q].ptable))
        BY <1>6, <1>25, <4>1 DEF SameTree
      <4>3. /\ H2[oTables(q)] = IF pr2[q].state = "none" THEN {} ELSE TablesOf(c, pr2[q].ptable)
            /\ H2[oStack(q)] = IF pr2[q].state = "none" THEN {} ELSE {pr2[q].stack}
            /\ H2[oImage(q)] = ImageOf(pr2[q])
        BY <2>2 DEF HoldsAs
      <4>4. /\ H[oTables(q)] = IF pr[q].state = "none" THEN {} ELSE TablesOf(m, pr[q].ptable)
            /\ H[oStack(q)] = IF pr[q].state = "none" THEN {} ELSE {pr[q].stack}
            /\ H[oImage(q)] = ImageOf(pr[q])
        BY <1>2 DEF HoldsAs
      <4> QED BY <3>3, <4>2, <4>3, <4>4
    <3> QED BY <2>7, <3>1, <3>2, <3>3, OwnersAre
  <2>8. ASSUME NEW o \in Owners
        PROVE  H2[o] = IF o = oTables(p) THEN {}
                       ELSE IF o = oOrphan THEN H1[oTables(p)] \union H1[oOrphan] ELSE H1[o]
    <3>1. CASE o \in {oTables(p), oStack(p), oImage(p)}
      BY <1>8, <2>4, <2>5, <3>1, OwnersDiffer
    <3>2. CASE o = oOrphan
      BY <1>8, <2>6, <3>2
    <3>3. CASE o \notin {oTables(p), oStack(p), oImage(p), oOrphan}
      BY <2>3, <2>7, <3>3
    <3> QED BY <3>1, <3>2, <3>3
  <2>9. Partition(H2, m.taken \ Y)
    <3> DEFINE T == m.taken \ Y
    <3>1. Partition(H1, T)
      BY <2>1
    <3> HIDE DEF T
    <3>2. Partition(H2, T)
      BY <1>8, <2>8, <3>1, PartitionMoves
    <3> QED BY <3>2 DEF T
  <2> QED BY <1>21, <2>9
<1>30. Sound(c, top, pr2, orp2)
  <2>1. EndBits(c.taken, c.last, Interior(pr2), Joints(c, top) \union orp2)
    BY <1>20, <1>28 DEF EndBits, I2, J
  <2>2. Partition(Holding(c, top, pr2, orp2), c.taken)
    BY <1>29 DEF H2
  <2>3. Tree(c, K) /\ \A q \in Procs : pr2[q].state # "none" => Tree(c, pr2[q].ptable)
    BY <1>24, <1>26 DEF SameTree, SameTrees
  <2>4. c.fault \/ NothingFrom(c, top)
    BY <1>21, <1>27 DEF Sound, NothingFrom
  <2> HIDE DEF orp2
  <2> QED BY <1>1, <1>6, <1>20, <2>1, <2>2, <2>3, <2>4, SoundMakes
<1> QED BY <1>6, <1>21, <1>26, <1>27, <1>30 DEF FreedOutcome, W, pt

(* The kernel comes up *)

\* With the first k pages taken the next one is page k.
LEMMA FirstFitAt ==
    ASSUME NEW k \in Nat, k < ScanPages
    PROVE  FirstFit(0 .. k - 1, 1) = k
<1> DEFINE T == 0 .. k - 1
<1>1. \A i \in 0 .. ScanPages - 1 : Fits(T, 1, i) <=> i >= k
  BY PagesAssumption DEF Fits, Need
<1>2. k \in 0 .. ScanPages - 1
  BY PagesAssumption
<1> HIDE DEF T
<1>3. Fits(T, 1, k) /\ \A j \in 0 .. k - 1 : ~Fits(T, 1, j)
  <2>1. \A j \in 0 .. k - 1 : j \in 0 .. ScanPages - 1 /\ ~(j >= k)
    BY <1>2, PagesAssumption
  <2> QED BY <1>1, <1>2, <2>1
<1>4. ASSUME NEW i \in 0 .. ScanPages - 1, Fits(T, 1, i), \A j \in 0 .. i - 1 : ~Fits(T, 1, j)
      PROVE  i = k
  <2>1. i >= k
    BY <1>1, <1>4
  <2>2. k \notin 0 .. i - 1
    BY <1>3, <1>4
  <2> QED BY <1>2, <2>1, <2>2
<1>5. FirstFit(T, 1) = CHOOSE i \in 0 .. ScanPages - 1 : Fits(T, 1, i) /\ \A j \in 0 .. i - 1 : ~Fits(T, 1, j)
  BY <1>2, <1>3 DEF FirstFit
<1> QED BY <1>2, <1>3, <1>4, <1>5 DEF T

\* The trap stacks are single pages.
Stacked(m, x) ==
    /\ MemOK(x) /\ ~x.fault /\ x.tables = m.tables /\ m.taken \subseteq x.taken
    /\ x.last = m.last \union (x.taken \ m.taken)
\* One more trap stack.
LEMMA StackTaken ==
    ASSUME NEW m, MemOK(m), m.last \subseteq m.taken, NEW x, Stacked(m, x)
    PROVE  Stacked(m, Taken(x, 1))
<1>1. CASE FirstFit(x.taken, 1) = NoPage
  BY <1>1 DEF Taken
<1>2. CASE FirstFit(x.taken, 1) # NoPage
  <2> DEFINE f == FirstFit(x.taken, 1)
             b == Taken(x, 1)
  <2>1. TakenOutcome(x, f, b)
    BY <1>2, TakenOne DEF Stacked
  <2> HIDE DEF f, b
  <2>2. Stacked(m, b)
    BY <2>1 DEF Stacked, TakenOutcome
  <2> QED BY <2>2 DEF b
<1> QED BY <1>1, <1>2

\* The trap stacks of all harts.
LEMMA BootRounds ==
    ASSUME NEW m, MemOK(m), ~m.fault, m.last \subseteq m.taken, NEW n \in Nat
    PROVE  LET after[i \in 0 .. n] == IF i = 0 THEN m ELSE Taken(after[i - 1], 1)
           IN Stacked(m, after[n])
<1> DEFINE S == {x \in Memory : Stacked(m, x)}
           R(x) == Taken(x, 1)
           F == [x \in (1 .. n) \X S |-> R(x[2])]
           G(g) == g = [i \in 0 .. n |-> IF i = 0 THEN m ELSE R(g[i - 1])]
           A == CHOOSE g : G(g)
<1>1. ASSUME NEW x \in S PROVE R(x) \in S
  <2>1. Stacked(m, R(x))
    BY StackTaken
  <2> QED BY <2>1 DEF Stacked, MemOK
<1>2. F \in [(1 .. n) \X S -> S]
  BY <1>1
<1>3. m \in S
  BY DEF Stacked, MemOK
<1> HIDE DEF S, R
<1>4. PICK c : c \in [0 .. n -> S] /\ c[0] = m /\ \A i \in 1 .. n : c[i] = F[<<i, c[i - 1]>>]
  <2> HIDE DEF F
  <2>1. PICK c : c \in Rounds(n, S, m, F)
    BY <1>2, <1>3, LoopHasValues
  <2> QED BY <2>1 DEF Rounds
<1>5. ASSUME NEW i \in 1 .. n PROVE c[i] = R(c[i - 1])
  <2>1. i - 1 \in 0 .. n
    OBVIOUS
  <2>2. c[i - 1] \in S
    BY <1>4, <2>1
  <2>3. F[<<i, c[i - 1]>>] = R(c[i - 1])
    BY <2>2
  <2> QED BY <1>4, <2>3
<1>6. G(c)
  BY <1>4, <1>5
<1>7. G(A)
  BY <1>6
<1> HIDE DEF A
<1>8. A[0] = m /\ \A i \in 1 .. n : A[i] = R(A[i - 1])
  BY <1>7
<1> DEFINE T == {i \in 0 .. n : A[i] \in S}
<1>9. 0 \in T
  BY <1>3, <1>8
<1>10. \A i \in 0 .. n - 1 : i \in T => i + 1 \in T
  <2> SUFFICES ASSUME NEW i \in 0 .. n - 1, i \in T PROVE i + 1 \in T
    OBVIOUS
  <2>1. i + 1 \in 1 .. n /\ (i + 1) - 1 = i
    OBVIOUS
  <2>2. A[i + 1] = R(A[i])
    BY <1>8, <2>1
  <2> QED BY <1>1, <2>1, <2>2
<1>11. n \in 0 .. n
  OBVIOUS
<1>12. n \in T
  <2> HIDE DEF T
  <2> QED BY <1>9, <1>10, <1>11, InductionUpTo
<1>13. Stacked(m, A[n])
  BY <1>12 DEF S
<1> QED BY <1>13 DEF A, R

\* What the boot leaves: the first page of the heap is mapped, by tables N.
Booted(c, N) ==
    /\ MemOK(c) /\ ~c.fault /\ Tree(c, kernel_mmu_table) /\ N \cap (0 .. BkPages + 1) = {}
    /\ TablesOf(c, kernel_mmu_table) = {BkPages} \union N
    /\ (0 .. BkPages + 1) \union N \subseteq c.taken
    /\ c.last = c.taken \ (0 .. BkPages - 2)
    /\ \A k \in HeapPages : HeapPage(c, k) = IF k = 0 THEN BkPages + 1 ELSE NoPage
\* The boot finds all the pages that it needs.
LEMMA BootIs == \E N \in SUBSET Pages : Booted(BootMemory, N)
<1> DEFINE K == kernel_mmu_table
           m0 == [taken |-> 0 .. BkPages - 1, last |-> {BkPages - 1},
                  tables |-> [t \in {} |-> NoEntries], fault |-> FALSE]
           a == NewTable(m0)
           b == Taken(a, 1)
           m1 == init_kernel_heap(a)
<1>1. /\ BkPages \in Nat /\ BkPages > 0 /\ ScanPages \in Nat /\ BkPages + 4 <= ScanPages /\ K = BkPages
      /\ ScanPages <= TotalPages /\ TotalPages \in Nat /\ HeapStart \in Nat
  BY PagesAssumption, MemoryAssumption, HeapAssumption DEF kernel_mmu_table
<1>2. /\ MemOK(m0) /\ m0.taken = 0 .. BkPages - 1 /\ m0.last = {BkPages - 1} /\ ~m0.fault
      /\ DOMAIN m0.tables = {}
  <2>1. [t \in {} |-> NoEntries] \in TableMaps
    BY TableMapMakes
  <2>2. 0 .. BkPages - 1 \subseteq Pages /\ BkPages - 1 \in Pages
    BY <1>1 DEF Pages
  <2> QED BY <2>1, <2>2 DEF MemOK, Memory
<1>3. FirstFit(m0.taken, 1) = BkPages
  BY <1>1, <1>2, FirstFitAt
<1> HIDE DEF m0
<1>4. /\ MemOK(a) /\ a.taken = 0 .. BkPages /\ a.last = {BkPages - 1, BkPages} /\ ~a.fault
      /\ DOMAIN a.tables = {K} /\ a.tables[K] = NoEntries
  <2>1. BkPages # NoPage
    BY <1>1 DEF NoPage
  <2>2. /\ MemOK(a) /\ a.taken = m0.taken \union {BkPages} /\ a.last = m0.last \union {BkPages}
        /\ a.fault = m0.fault /\ DOMAIN a.tables = DOMAIN m0.tables \union {BkPages}
        /\ a.tables[BkPages] = NoEntries
    BY <1>2, <1>3, <2>1, NewTableIs
  <2>3. (0 .. BkPages - 1) \union {BkPages} = 0 .. BkPages
    BY <1>1
  <2> QED BY <1>1, <1>2, <2>2, <2>3
<1> HIDE DEF a
<1>5. FirstFit(a.taken, 1) = BkPages + 1
  <2>1. 0 .. BkPages = 0 .. (BkPages + 1) - 1
    BY <1>1
  <2> DEFINE k == BkPages + 1
  <2>2. k \in Nat /\ k < ScanPages
    BY <1>1
  <2> HIDE DEF k
  <2>3. FirstFit(0 .. k - 1, 1) = k
    BY <2>2, FirstFitAt
  <2> QED BY <1>4, <2>1, <2>3 DEF k
<1>6. /\ MemOK(b) /\ b.taken = 0 .. BkPages + 1 /\ b.last = {BkPages - 1, BkPages, BkPages + 1}
      /\ ~b.fault /\ b.tables = a.tables
  <2>1. BkPages + 1 # NoPage
    BY <1>1 DEF NoPage
  <2>2. TakenOutcome(a, BkPages + 1, b)
    <3> DEFINE f == FirstFit(a.taken, 1)
    <3>1. f # NoPage
      BY <1>5, <2>1
    <3> HIDE DEF f
    <3>2. TakenOutcome(a, f, b)
      BY <1>4, <3>1, TakenOne DEF f
    <3> QED BY <1>5, <3>2 DEF f
  <2>3. (0 .. BkPages) \union {BkPages + 1} = 0 .. BkPages + 1
    BY <1>1
  <2> QED BY <1>4, <2>2, <2>3 DEF TakenOutcome
<1> HIDE DEF b
<1>7. /\ Tree(b, K) /\ TablesOf(b, K) = {K} /\ \A v \in VirtualPages : mmu_translate(b, K, v) = NoPage
  <2>1. K \in DOMAIN b.tables /\ \A j \in Indices : b.tables[K][j] = Invalid
    BY <1>4, <1>6 DEF NoEntries
  <2> QED BY <1>6, <2>1, FreshRoot
<1> DEFINE e == Leaf(BkPages + 1)
<1>8. e \in Entry /\ e.kind # "branch" /\ e.page = BkPages + 1
  BY <1>1, EntryMakes
<1>9. HeapStart \in VirtualPages /\ 0 \in HeapPages /\ HeapStart + 0 = HeapStart
  <2>1. 0 \in HeapPages /\ HeapStart + 0 = HeapStart
    BY HeapAssumption DEF HeapPages
  <2> QED BY <2>1, HeapVirtual
<1>10. m1 = mmu_set(b, K, HeapStart, e)
  BY <1>5 DEF init_kernel_heap, mmu_map, b
<1> HIDE DEF e, m1
<1>11. SetOutcome(b, K, HeapStart, e, m1)
  BY <1>6, <1>7, <1>8, <1>9, <1>10, SetKeeps
<1>12. ASSUME NEW T \in {b.taken, b.taken \union {FirstFit(b.taken, 1)}} PROVE FirstFit(T, 1) # NoPage
  <2> DEFINE k == BkPages + 2
             l == BkPages + 3
  <2>1. /\ k \in Nat /\ k < ScanPages /\ l \in Nat /\ l < ScanPages /\ 0 .. BkPages + 1 = 0 .. k - 1
        /\ (0 .. k - 1) \union {k} = 0 .. l - 1 /\ k # NoPage /\ l # NoPage
    BY <1>1 DEF NoPage
  <2> HIDE DEF k, l
  <2>2. FirstFit(0 .. k - 1, 1) = k /\ FirstFit(0 .. l - 1, 1) = l
    BY <2>1, FirstFitAt
  <2> QED BY <1>6, <1>12, <2>1, <2>2
<1>13. PICK N \in SUBSET Pages :
          /\ Extended(b, K, N, m1) /\ ~m1.fault
          /\ \A w \in VirtualPages :
                mmu_translate(m1, K, w) = IF w = HeapStart THEN BkPages + 1 ELSE mmu_translate(b, K, w)
  BY <1>8, <1>11, <1>12 DEF SetOutcome
<1>14. /\ MemOK(m1) /\ ~m1.fault /\ Tree(m1, K) /\ N \cap (0 .. BkPages + 1) = {}
       /\ m1.taken = (0 .. BkPages + 1) \union N
       /\ m1.last = {BkPages - 1, BkPages, BkPages + 1} \union N
       /\ TablesOf(m1, K) = {K} \union N /\ m1 \in Memory
  BY <1>6, <1>7, <1>13 DEF Extended, MemOK
<1>15. m1.last \subseteq m1.taken /\ m1.last = m1.taken \ (0 .. BkPages - 2)
  BY <1>1, <1>14
<1> DEFINE c == BootMemory
<1>16. Stacked(m1, c)
  <2>1. TrapStacks \in Nat
    BY HeapAssumption, FS_CardinalityType DEF TrapStacks
  <2> DEFINE n == TrapStacks
  <2> HIDE DEF n
  <2>2. LET after[i \in 0 .. n] == IF i = 0 THEN m1 ELSE Taken(after[i - 1], 1)
        IN Stacked(m1, after[n])
    BY <1>14, <1>15, <2>1, BootRounds DEF n
  <2> QED BY <2>2 DEF BootMemory, n, m1, a, m0
<1> HIDE DEF c
<1>17. MemOK(c) /\ ~c.fault /\ c.tables = m1.tables /\ m1.taken \subseteq c.taken /\ c \in Memory
       /\ c.last = m1.last \union (c.taken \ m1.taken)
  BY <1>16 DEF Stacked, MemOK
<1>18. /\ Tree(c, K) /\ TablesOf(c, K) = TablesOf(m1, K)
       /\ \A v \in VirtualPages : mmu_translate(c, K, v) = mmu_translate(m1, K, v)
  <2>1. \A t \in TablesOf(m1, K) : t \in DOMAIN c.tables /\ c.tables[t] = m1.tables[t]
    BY <1>14, <1>17, TablesOfIs DEF Tree
  <2> QED BY <1>14, <1>17, <2>1, FrameStep
<1>19. ASSUME NEW k \in HeapPages PROVE HeapPage(c, k) = IF k = 0 THEN BkPages + 1 ELSE NoPage
  <2>1. HeapStart + k \in VirtualPages /\ k \in Nat
    BY HeapVirtual DEF HeapPages
  <2>2. HeapStart + k = HeapStart <=> k = 0
    BY <1>1, <2>1
  <2> QED BY <1>7, <1>13, <1>18, <2>1, <2>2 DEF HeapPage
<1>20. c.last = c.taken \ (0 .. BkPages - 2)
  <2>1. 0 .. BkPages - 2 \subseteq m1.taken
    BY <1>1, <1>14
  <2> QED BY <1>15, <1>17, <2>1
<1>21. Booted(c, N)
  BY <1>1, <1>14, <1>17, <1>18, <1>19, <1>20 DEF Booted
<1> QED BY <1>21 DEF c

\* The memory after the boot is in order, with one page of heap and no process.
LEMMA BootSound ==
    ASSUME NEW pr, pr = [p \in Procs |-> None], NEW c, c = BootMemory
    PROVE  Sound(c, 1, pr, {}) /\ pr \in [Procs -> Process]
<1> DEFINE K == kernel_mmu_table
<1>1. PICK N \in SUBSET Pages : Booted(c, N)
  BY BootIs
<1>2. /\ MemOK(c) /\ ~c.fault /\ Tree(c, K) /\ N \cap (0 .. BkPages + 1) = {}
      /\ TablesOf(c, K) = {BkPages} \union N /\ (0 .. BkPages + 1) \union N \subseteq c.taken
      /\ c.last = c.taken \ (0 .. BkPages - 2)
      /\ \A k \in HeapPages : HeapPage(c, k) = IF k = 0 THEN BkPages + 1 ELSE NoPage
  BY <1>1 DEF Booted
<1>3. pr \in [Procs -> Process] /\ \A p \in Procs : pr[p] = None /\ pr[p].state = "none"
  BY NoneIs
<1>4. BkPages \in Nat /\ BkPages > 0 /\ MaxHeapPages \in Nat /\ 1 <= MaxHeapPages /\ 0 \in HeapPages
  BY PagesAssumption, HeapAssumption DEF HeapPages
<1>5. Interior(pr) = {x \in Pages : x < BkPages - 1}
  BY <1>3 DEF Interior
<1>6. EndBits(c.taken, c.last, Interior(pr), Joints(c, 1) \union {})
  <2>1. Interior(pr) \subseteq 0 .. BkPages - 2
    BY <1>4, <1>5 DEF Pages
  <2>2. \A x \in 0 .. BkPages - 2 : x \in c.taken => x \in Interior(pr)
    <3>1. c.taken \subseteq Pages
      BY <1>2, MemoryIs DEF MemOK
    <3> QED BY <1>4, <1>5, <3>1
  <2> QED BY <1>2, <2>1, <2>2 DEF EndBits
<1>7. Partition(Holding(c, 1, pr, {}), c.taken)
  <2> DEFINE H == Holding(c, 1, pr, {})
             B == 0 .. BkPages - 1
             P == BkPages + 1
             M == {BkPages} \union N
  <2>1. HoldsAs(H, c, 1, pr, {})
    BY HoldingIs
  <2>2. trap_stacks = c.taken \ (B \union {P} \union M)
    BY <1>2, <1>4 DEF trap_stacks
  <2>3. /\ B \subseteq c.taken /\ P \in c.taken /\ M \subseteq c.taken
        /\ B \cap M = {} /\ P \notin B /\ P \notin M
    BY <1>2, <1>4
  <2> HIDE DEF H, B, P, M
  <2>4. /\ H[oBook] = B /\ H[oTrap] = trap_stacks /\ H[oKernel] = M /\ H[oOrphan] = {} /\ H[oHeap(0)] = {P}
        /\ \A k \in HeapPages : k # 0 => H[oHeap(k)] = {}
        /\ \A p \in Procs : H[oTables(p)] = {} /\ H[oStack(p)] = {} /\ H[oImage(p)] = {}
    <3>1. H[oHeap(0)] = {P}
      <4>1. H[oHeap(0)] = IF 0 < 1 THEN {HeapPage(c, 0)} ELSE {}
        BY <1>4, <2>1 DEF HoldsAs
      <4> QED BY <1>2, <1>4, <4>1 DEF P
    <3>2. ASSUME NEW k \in HeapPages, k # 0 PROVE H[oHeap(k)] = {}
      <4>1. ~(k < 1)
        BY <3>2 DEF HeapPages
      <4> QED BY <2>1, <4>1 DEF HoldsAs
    <3>3. ASSUME NEW p \in Procs PROVE H[oTables(p)] = {} /\ H[oStack(p)] = {} /\ H[oImage(p)] = {}
      BY <1>3, <2>1 DEF HoldsAs, ImageOf
    <3>4. /\ H[oBook] = B /\ H[oTrap] = trap_stacks /\ H[oKernel] = M /\ H[oOrphan] = {}
      BY <1>2, <2>1 DEF HoldsAs, B, M
    <3> QED BY <3>1, <3>2, <3>3, <3>4
  <2>5. ASSUME NEW o \in Owners, o \notin {oBook, oTrap, oKernel, oHeap(0)} PROVE H[o] = {}
    BY <2>4, <2>5, OwnersAre
  <2>6. oHeap(0) \in Owners /\ oBook \in Owners /\ oTrap \in Owners /\ oKernel \in Owners
    BY <1>4, OwnersAre
  <2>7. \A o \in Owners : H[o] \subseteq c.taken
    BY <2>2, <2>3, <2>4, <2>5
  <2>8. ASSUME NEW x \in c.taken PROVE \E o \in Owners : x \in H[o]
    <3>1. x \in H[oBook] \/ x \in H[oTrap] \/ x \in H[oKernel] \/ x \in H[oHeap(0)]
      BY <2>2, <2>4
    <3> QED BY <2>6, <3>1
  <2>9. /\ H[oBook] \cap H[oTrap] = {} /\ H[oBook] \cap H[oKernel] = {} /\ H[oBook] \cap H[oHeap(0)] = {}
        /\ H[oTrap] \cap H[oKernel] = {} /\ H[oTrap] \cap H[oHeap(0)] = {} /\ H[oKernel] \cap H[oHeap(0)] = {}
    BY <2>2, <2>3, <2>4
  <2>10. ASSUME NEW o \in Owners, NEW q \in Owners, o # q PROVE H[o] \cap H[q] = {}
    BY <2>5, <2>9, <2>10
  <2>11. Partition(H, c.taken)
    BY <2>7, <2>8, <2>10 DEF Partition
  <2> QED BY <2>11 DEF H
<1>8. NothingFrom(c, 1)
  BY <1>2 DEF HeapPages, NothingFrom
<1>9. \A p \in Procs : pr[p].state # "none" => Tree(c, pr[p].ptable)
  BY <1>3
<1>10. 1 \in Nat
  OBVIOUS
<1>11. Sound(c, 1, pr, {})
  BY <1>2, <1>3, <1>4, <1>6, <1>7, <1>8, <1>9, <1>10, SoundMakes
<1> QED BY <1>3, <1>11

\* The heap that init_kernel_heap makes is in order.
LEMMA FirstHeap == HeapWF(<<FirstNode>>, {}, PAGE_SIZE)
<1> DEFINE f == FirstNode
           l == <<f>>
           N == {<<0, 0>>, f}
<1>1. HDR \in Nat /\ HDR > 0 /\ PAGE_SIZE \in Nat /\ PAGE_SIZE > 2 * HDR
  BY HeapSizes
<1>2. f \in Node /\ f[1] = HDR /\ f[2] = PAGE_SIZE - 2 * HDR /\ <<0, 0>> \in Node
  BY <1>1 DEF FirstNode, Node
<1>3. Fin(f) = PAGE_SIZE /\ Fin(<<0, 0>>) = HDR
  BY <1>1, <1>2 DEF Fin
<1> HIDE DEF f
<1>4. l \in Seq(Node) /\ Len(l) = 1 /\ l[1] = f
  BY <1>2
<1>5. ToSet(l) = {f}
  <2>1. ToSet(l) = {l[i] : i \in 1 .. Len(l)}
    BY <1>4, ToSetIs
  <2>2. 1 .. Len(l) = {1}
    BY <1>4
  <2> QED BY <1>4, <2>1, <2>2
<1>6. Tiles(N, PAGE_SIZE)
  <2>1. N \subseteq Node
    BY <1>2
  <2>2. \A n \in N : Fin(n) <= PAGE_SIZE /\ (Fin(n) = PAGE_SIZE \/ \E o \in N : o[1] = Fin(n))
    BY <1>1, <1>2, <1>3
  <2>3. \A n, o \in N : n # o => Fin(n) <= o[1] \/ Fin(o) <= n[1]
    BY <1>1, <1>2, <1>3
  <2> QED BY <2>1, <2>2, <2>3 DEF Tiles
<1>7. {<<0, 0>>} \union ToSet(l) \union HeldNodes({}) = N
  BY <1>5 DEF HeldNodes
<1>8. Ascending(l) /\ \A i \in 1 .. Len(l) : l[i][1] > 0
  BY <1>1, <1>2, <1>4 DEF Ascending
<1> HIDE DEF l, N
<1>9. HeapWF(l, {}, PAGE_SIZE)
  BY <1>1, <1>4, <1>6, <1>7, <1>8 DEF HeapWF
<1> QED BY <1>9 DEF l, f

\* The first heap is one page.
LEMMA OnePage == PAGE_SIZE \div PAGE_SIZE = 1 /\ PAGE_SIZE = (PAGE_SIZE \div PAGE_SIZE) * PAGE_SIZE
  BY HeapSizes

\* The memory that init leaves is in order.
LEMMA InitMemory == Init => MemoryInv
<1> SUFFICES ASSUME Init PROVE MemoryInv
  OBVIOUS
<1>1. HeapOK
  BY FirstHeap DEF Init, HeapOK
<1>2. brk = PAGE_SIZE /\ brk \div PAGE_SIZE = 1 /\ brk = (brk \div PAGE_SIZE) * PAGE_SIZE
  BY OnePage DEF Init
<1> DEFINE sh == Shape(proc)
<1>0. sh = [p \in Procs |-> None] /\ IsMap(proc)
  BY DEF Init, Shape, IsMap
<1> HIDE DEF sh
<1>3. Sound(mem, 1, sh, orphans) /\ sh \in [Procs -> Process]
  BY <1>0, BootSound DEF Init
<1>4. \A p \in Procs : sh[p] = None /\ sh[p].state = "none" /\ sh[p].pages = 0
  BY <1>0, NoneIs
<1>5. ProcsOK(sh, held) /\ AllSee(mem, sh) /\ Contiguous(mem, held)
  BY <1>3, <1>4 DEF ProcsOK, AllSee, Contiguous, Init
<1>6. TlbOK(mem, 1, tlb, behind)
  <2>1. NothingCached \in [HeapPages -> Int] /\ \A k \in HeapPages : NothingCached[k] = NoPage
    BY NoPageIs DEF NothingCached
  <2>2. 0 .. 1 - 1 \subseteq HeapPages
    BY HeapAssumption DEF HeapPages
  <2> QED BY <2>1, <2>2 DEF TlbOK, Init
<1>7. scene \in Scenes
  BY DEF Init
<1> QED BY <1>0, <1>1, <1>2, <1>3, <1>5, <1>6, <1>7 DEF MemoryInv, StateOK, HeapOK, sh

(* The end of the heap, in bytes and in pages *)

\* A whole number of pages in bytes and back.
LEMMA WholePages ==
    ASSUME NEW t \in Nat
    PROVE  (t * PAGE_SIZE) \div PAGE_SIZE = t /\ t * PAGE_SIZE \in Nat
<1> DEFINE d == PAGE_SIZE
<1>1. d \in Nat \ {0} /\ 0 \in 0 .. d - 1
  BY HeapSizes
<1> HIDE DEF d
<1>2. d * t + 0 = t * d /\ t * d \in Nat
  BY <1>1
<1>3. (d * t + 0) \div d = t
  BY <1>1, DivIs
<1> QED BY <1>2, <1>3 DEF d

\* Pages and bytes are ordered alike.
LEMMA ProductOrder ==
    ASSUME NEW d \in Nat, d > 0, NEW a \in Int, NEW b \in Int
    PROVE  a * d < b * d <=> a < b
<1>1. ASSUME a < b PROVE a * d < b * d
  <2>1. (b - a) * d > 0
    <3>1. b - a \in Nat /\ b - a > 0
      BY <1>1
    <3> DEFINE x == b - a
    <3> HIDE DEF x
    <3>2. x \in Nat /\ x > 0
      BY <3>1 DEF x
    <3>3. x * d > 0
      BY <3>2
    <3> QED BY <3>3 DEF x
  <2>2. (b - a) * d = b * d - a * d /\ a * d \in Int /\ b * d \in Int
    OBVIOUS
  <2> QED BY <2>1, <2>2
<1>2. ASSUME ~(a < b) PROVE ~(a * d < b * d)
  <2>1. (a - b) * d >= 0
    <3>1. a - b \in Nat
      BY <1>2
    <3> DEFINE x == a - b
    <3> HIDE DEF x
    <3>2. x \in Nat
      BY <3>1 DEF x
    <3>3. x * d >= 0
      BY <3>2
    <3> QED BY <3>3 DEF x
  <2>2. (a - b) * d = a * d - b * d /\ a * d \in Int /\ b * d \in Int
    OBVIOUS
  <2> QED BY <2>1, <2>2
<1> QED BY <1>1, <1>2

\* The end of the heap when it has grown.
LEMMA GrowTop ==
    ASSUME NEW t \in Nat, NEW n \in Nat, NEW b, b = t * PAGE_SIZE + n * PAGE_SIZE,
           b <= MaxHeapPages * PAGE_SIZE
    PROVE  b \div PAGE_SIZE = t + n /\ b = (t + n) * PAGE_SIZE /\ t + n <= MaxHeapPages
<1> DEFINE d == PAGE_SIZE
<1>1. d \in Nat /\ d > 0 /\ MaxHeapPages \in Nat
  BY HeapSizes
<1> HIDE DEF d
<1>2. b = (t + n) * d
  BY <1>1 DEF d
<1>3. t + n \in Nat
  OBVIOUS
<1>4. ~(MaxHeapPages < t + n)
  <2>1. (t + n) * d \in Int /\ MaxHeapPages * d \in Int /\ b <= MaxHeapPages * d
    BY <1>1, <1>3 DEF d
  <2>2. ~(MaxHeapPages * d < (t + n) * d)
    BY <1>2, <2>1
  <2>3. MaxHeapPages \in Int /\ t + n \in Int
    BY <1>1
  <2> QED BY <1>1, <2>2, <2>3, ProductOrder
<1>5. b \div d = t + n
  BY <1>2, <1>3, WholePages DEF d
<1> QED BY <1>1, <1>2, <1>3, <1>4, <1>5 DEF d

\* The end of the heap when it has shrunk.
LEMMA ShrinkTop ==
    ASSUME NEW t \in Nat, NEW n \in Nat, NEW b, b = t * PAGE_SIZE - n * PAGE_SIZE, b > 0
    PROVE  n < t /\ t - n \in Nat /\ b \div PAGE_SIZE = t - n /\ b = (t - n) * PAGE_SIZE
<1> DEFINE d == PAGE_SIZE
<1>1. d \in Nat /\ d > 0
  BY HeapSizes
<1> HIDE DEF d
<1>2. b = (t - n) * d /\ t * d \in Int /\ n * d \in Int /\ b = t * d - n * d
  BY <1>1 DEF d
<1>3. n * d < t * d
  BY <1>2
<1>4. n < t
  BY <1>1, <1>3, ProductOrder
<1>5. t - n \in Nat
  BY <1>4
<1>6. b \div d = t - n
  BY <1>2, <1>5, WholePages DEF d
<1> QED BY <1>2, <1>4, <1>5, <1>6 DEF d

\* An address below the end lies in a page below it.
LEMMA PageOf ==
    ASSUME NEW t \in Nat, NEW x \in Nat
    PROVE  /\ x \div PAGE_SIZE \in Nat
           /\ x < t * PAGE_SIZE => x \div PAGE_SIZE < t
           /\ x >= t * PAGE_SIZE => x \div PAGE_SIZE >= t
<1> DEFINE d == PAGE_SIZE
           q == x \div d
<1>1. d \in Nat /\ d > 0
  BY HeapSizes
<1>2. q \in Nat /\ q * d \in Nat /\ q * d <= x /\ x < q * d + d
  BY <1>1, UnitsWithin
<1> HIDE DEF d, q
<1>3. t * d \in Nat /\ (q + 1) * d = q * d + d /\ q + 1 \in Int
  BY <1>1, <1>2
<1>4. ASSUME x < t * d PROVE q < t
  <2>1. q * d < t * d
    BY <1>2, <1>3, <1>4
  <2> QED BY <1>1, <1>2, <2>1, ProductOrder
<1>5. ASSUME x >= t * d PROVE q >= t
  <2>1. t * d < (q + 1) * d
    <3> DEFINE A == q * d
               B == t * d
               C == (q + 1) * d
    <3>1. A \in Nat /\ B \in Nat /\ C = A + d /\ x < A + d /\ x >= B
      BY <1>2, <1>3, <1>5
    <3> HIDE DEF A, B, C
    <3>2. B < C
      BY <1>1, <3>1
    <3> QED BY <3>2 DEF B, C
  <2>2. t < q + 1
    BY <1>1, <1>2, <1>3, <2>1, ProductOrder
  <2> QED BY <1>2, <2>2
<1> QED BY <1>2, <1>4, <1>5 DEF d, q

(* Allocations and the pages under them *)

\* An allocation lies below the end of the heap.
LEMMA HeldWithin ==
    ASSUME NEW l, NEW H, NEW b, HeapWF(l, H, b), NEW a \in H
    PROVE  a.addr \in Nat /\ a.size \in Nat /\ a.asked \in Nat /\ a.asked <= a.size
           /\ a.addr + HDR + a.size <= b /\ b \in Nat
<1>1. a \in Allocation /\ a.asked <= a.size /\ b \in Nat
  BY DEF HeapWF
<1>2. <<a.addr, a.size>> \in HeldNodes(H)
  BY DEF HeldNodes
<1>3. Fin(<<a.addr, a.size>>) <= b
  BY <1>2 DEF HeapWF, Tiles
<1> QED BY <1>1, <1>3 DEF Allocation, Fin

\* The pages under an allocation are pages of the heap.
LEMMA PagesUnderIn ==
    ASSUME NEW l, NEW H, NEW b, HeapWF(l, H, b), NEW a \in H, NEW s \in Nat, NEW t \in Nat,
           b = t * PAGE_SIZE, a.addr >= s * PAGE_SIZE
    PROVE  PagesUnder(a) \subseteq s .. t - 1
<1>1. a.addr \in Nat /\ a.size \in Nat /\ a.addr + HDR + a.size <= b /\ b \in Nat /\ HDR \in Nat /\ HDR > 0
  BY HeldWithin, HeapSizes
<1> DEFINE x == a.addr
           y == a.addr + HDR + a.size - 1
<1>2. y \in Nat /\ y < t * PAGE_SIZE
  BY <1>1
<1> HIDE DEF y, x
<1>3. y \div PAGE_SIZE < t /\ y \div PAGE_SIZE \in Nat
  BY <1>2, PageOf
<1>4. x \div PAGE_SIZE >= s /\ x \div PAGE_SIZE \in Nat
  BY <1>1, PageOf DEF x
<1>5. PagesUnder(a) = x \div PAGE_SIZE .. y \div PAGE_SIZE
  BY DEF PagesUnder, x, y
<1> HIDE DEF x
<1> DEFINE u == x \div PAGE_SIZE
           w == y \div PAGE_SIZE
<1>6. u \in Nat /\ w \in Nat /\ u >= s /\ w < t /\ PagesUnder(a) = u .. w
  BY <1>3, <1>4, <1>5
<1> HIDE DEF u, w
<1> QED BY <1>6

\* The page of the kernel's heap in which the frame of a process lies.
Frames(pr, t) ==
    \A p \in Procs : pr[p].state # "none" =>
       \E k \in HeapPages : k < t /\ FrameV(pr[p].object) = HeapStart + k
\* The frame of a process lies in a page of the heap: the object has at least one byte.
LEMMA FrameIn ==
    ASSUME NEW l, NEW H, NEW b, HeapWF(l, H, b), NEW a \in H, NEW t \in Nat, b = t * PAGE_SIZE,
           t <= MaxHeapPages, a.asked = ProcBytes
    PROVE  \E k \in HeapPages : k < t /\ FrameV(a) = HeapStart + k
<1>1. a.addr \in Nat /\ a.size \in Nat /\ a.asked \in Nat /\ a.asked <= a.size /\ a.addr + HDR + a.size <= b
      /\ HDR \in Nat /\ b \in Nat
  BY HeldWithin, HeapSizes
<1>2. ProcBytes \in Nat /\ ProcBytes > 0 /\ MaxHeapPages \in Nat
  BY MemoryAssumption, HeapSizes
<1> DEFINE x == a.addr + HDR
           k == x \div PAGE_SIZE
<1>3. x \in Nat /\ x < t * PAGE_SIZE
  BY <1>1, <1>2
<1> HIDE DEF x
<1>4. k \in Nat /\ k < t
  BY <1>3, PageOf
<1>5. FrameV(a) = HeapStart + k
  BY DEF FrameV, x
<1> HIDE DEF k
<1>6. k \in HeapPages
  BY <1>2, <1>4 DEF HeapPages
<1> QED BY <1>4, <1>5, <1>6

\* The frames of all processes lie in pages of the heap.
LEMMA FramesIn ==
    ASSUME NEW l, NEW H, NEW b, HeapWF(l, H, b), NEW pr, ProcsOK(pr, H), NEW t \in Nat,
           b = t * PAGE_SIZE, t <= MaxHeapPages
    PROVE  Frames(pr, t)
<1> SUFFICES ASSUME NEW p \in Procs, pr[p].state # "none"
             PROVE  \E k \in HeapPages : k < t /\ FrameV(pr[p].object) = HeapStart + k
  BY DEF Frames
<1> DEFINE a == pr[p].object
<1>1. a \in H /\ a.asked = ProcBytes
  BY DEF ProcsOK
<1> HIDE DEF a
<1>2. \E k \in HeapPages : k < t /\ FrameV(a) = HeapStart + k
  BY <1>1, FrameIn
<1> QED BY <1>2 DEF a

(* What holds of one memory and holds of the next *)

\* A process whose tables and whose frame stay sees what it saw.
LEMMA SeesKept ==
    ASSUME NEW m, NEW r, Sees(m, r), NEW m2, SameTree(m, m2, r.ptable), r.pages \in Nat,
           NEW k \in HeapPages, FrameV(r.object) = HeapStart + k, HeapPage(m2, k) = HeapPage(m, k)
    PROVE  Sees(m2, r)
<1> DEFINE pt == r.ptable
           F == FrameV(r.object)
           V == ImageV .. ImageV + r.pages - 1
<1>1. MappedBy(m, pt) = {TrampolineV, StackV, F} \union V /\ MappedBy(m, pt) \subseteq VirtualPages
  BY DEF Sees, MappedBy
<1>2. \A v \in VirtualPages : mmu_translate(m2, pt, v) = mmu_translate(m, pt, v)
  BY DEF SameTree
<1>3. MappedBy(m2, pt) = MappedBy(m, pt)
  BY <1>2 DEF MappedBy
<1>4. mmu_translate(m2, kernel_mmu_table, F) = mmu_translate(m, kernel_mmu_table, F)
  BY DEF HeapPage
<1>5. \A i \in 0 .. r.pages - 1 : ImageV + i \in V
  BY MemoryAssumption
<1>6. TrampolineV \in VirtualPages /\ StackV \in VirtualPages /\ F \in VirtualPages /\ V \subseteq VirtualPages
  BY <1>1
<1> HIDE DEF V
<1>7. \A i \in 0 .. r.pages - 1 : mmu_translate(m2, pt, ImageV + i) = mmu_translate(m, pt, ImageV + i)
  BY <1>2, <1>5, <1>6
<1> QED BY <1>1, <1>2, <1>3, <1>4, <1>6, <1>7 DEF Sees

\* The same for all processes.
LEMMA AllSeeKept ==
    ASSUME NEW m, NEW pr \in [Procs -> Process], AllSee(m, pr), NEW m2, SameTrees(m, m2, pr), NEW t,
           Frames(pr, t), \A k \in HeapPages : k < t => HeapPage(m2, k) = HeapPage(m, k)
    PROVE  AllSee(m2, pr)
<1> SUFFICES ASSUME NEW p \in Procs, pr[p].state \notin {"none", "stuck"} PROVE Sees(m2, pr[p])
  BY DEF AllSee
<1> DEFINE r == pr[p]
<1>1. PICK k \in HeapPages : k < t /\ FrameV(r.object) = HeapStart + k
  BY DEF Frames
<1>2. Sees(m, r) /\ SameTree(m, m2, r.ptable) /\ r.pages \in Nat
  BY ProcessIs DEF AllSee, SameTrees
<1>3. HeapPage(m2, k) = HeapPage(m, k)
  BY <1>1
<1> HIDE DEF r
<1>4. Sees(m2, r)
  BY <1>1, <1>2, <1>3, SeesKept
<1> QED BY <1>4 DEF r

\* Allocations stay on consecutive pages as long as the heap is mapped as it was.
LEMMA ContiguousKept ==
    ASSUME NEW m, NEW H, Contiguous(m, H), NEW H2, H2 \subseteq H, NEW l, NEW b, HeapWF(l, H2, b),
           NEW t \in Nat, b = t * PAGE_SIZE, t <= MaxHeapPages, NEW m2,
           \A k \in HeapPages : k < t => HeapPage(m2, k) = HeapPage(m, k)
    PROVE  Contiguous(m2, H2)
<1> SUFFICES ASSUME NEW a \in H2, a.contiguous, NEW j \in PagesUnder(a), NEW k \in PagesUnder(a)
             PROVE  HeapPage(m2, k) - HeapPage(m2, j) = k - j
  BY DEF Contiguous
<1>1. PagesUnder(a) \subseteq 0 .. t - 1
  <2>1. a.addr \in Nat /\ 0 * PAGE_SIZE = 0
    BY HeldWithin, HeapSizes
  <2> DEFINE s == 0
  <2>2. s \in Nat /\ a.addr >= s * PAGE_SIZE
    BY <2>1
  <2> HIDE DEF s
  <2>3. PagesUnder(a) \subseteq s .. t - 1
    BY <2>2, PagesUnderIn
  <2> QED BY <2>3 DEF s
<1>2. j \in HeapPages /\ j < t /\ k \in HeapPages /\ k < t
  BY <1>1, HeapSizes DEF HeapPages
<1>3. HeapPage(m, k) - HeapPage(m, j) = k - j
  BY DEF Contiguous
<1> QED BY <1>2, <1>3

\* A hart has cached translations since its last fence.
LEMMA TlbKept ==
    ASSUME NEW t, t \in [Harts -> [HeapPages -> Int]], NEW h \in Harts, NEW old \in [HeapPages -> Int],
           NEW md, NEW b, NEW top \in Nat, top <= MaxHeapPages, b \div PAGE_SIZE = top,
           NEW m2, \A k \in 0 .. top - 1 : HeapPage(md, k) = HeapPage(m2, k) /\ HeapPage(m2, k) \in Int,
           NEW bh,
           \A g \in Harts \ bh : \A k \in 0 .. top - 1 :
              (IF g = h THEN old ELSE t[g])[k] \in {NoPage, HeapPage(m2, k)},
           NEW t2, t2 = [t EXCEPT ![h] = Cached(md, b, old)]
    PROVE  TlbOK(m2, top, t2, bh)
<1> DEFINE C == Cached(md, b, old)
<1>1. \A k \in HeapPages : k < top <=> k \in 0 .. top - 1
  BY DEF HeapPages
<1>2. 0 .. top - 1 \subseteq HeapPages
  BY HeapSizes DEF HeapPages
<1>3. \A k \in HeapPages : C[k] = IF old[k] # NoPage THEN old[k]
                                  ELSE IF k < top THEN HeapPage(md, k) ELSE NoPage
  BY DEF Cached
<1>4. C = [k \in HeapPages |-> C[k]]
  BY DEF Cached
<1> HIDE DEF C
<1>5. C \in [HeapPages -> Int]
  <2>1. \A k \in HeapPages : C[k] \in Int
    BY <1>1, <1>3, NoPageIs
  <2> QED BY <1>4, <2>1
<1>6. t2 \in [Harts -> [HeapPages -> Int]] /\ t2[h] = C /\ \A g \in Harts : g # h => t2[g] = t[g]
  BY <1>5 DEF C
<1>7. ASSUME NEW g \in Harts \ bh, NEW k \in 0 .. top - 1 PROVE t2[g][k] \in {NoPage, HeapPage(m2, k)}
  <2>1. CASE g = h
    BY <1>1, <1>2, <1>3, <1>6, <2>1
  <2>2. CASE g # h
    BY <1>6, <2>2
  <2> QED BY <2>1, <2>2
<1> QED BY <1>6, <1>7 DEF TlbOK

\* Cached translations stay right as long as the heap is mapped as it was.
LEMMA TlbSame ==
    ASSUME NEW m, NEW top \in Nat, top <= MaxHeapPages, NEW t, NEW bh, TlbOK(m, top, t, bh), NEW m2,
           \A k \in HeapPages : k < top => HeapPage(m2, k) = HeapPage(m, k)
    PROVE  TlbOK(m2, top, t, bh)
<1>1. \A k \in 0 .. top - 1 : k \in HeapPages /\ k < top
  BY HeapSizes DEF HeapPages
<1> QED BY <1>1 DEF TlbOK

\* The size of the heap, and where its pages are.
LEMMA SoundSizes ==
    ASSUME NEW m, NEW top, NEW pr, NEW orp, Sound(m, top, pr, orp)
    PROVE  /\ top \in Nat /\ top <= MaxHeapPages /\ MaxHeapPages \in Nat /\ m \in Memory /\ MemOK(m)
           /\ \A k \in 0 .. top - 1 : HeapPage(m, k) \in Int /\ HeapPage(m, k) \in m.taken
<1>1. /\ top \in Nat /\ top <= MaxHeapPages /\ MaxHeapPages \in Nat /\ m \in Memory /\ MemOK(m)
      /\ \A k \in 0 .. top - 1 : HeapPage(m, k) \in m.taken
  BY HeapSizes DEF Sound, HeapMapped, MemOK
<1> QED BY <1>1, MemoryIs, NoPageIs

(* The steps *)

\* The processes as the invariant sees them.
LEMMA ShapeIs ==
    ASSUME MemoryInv, NEW p \in Procs
    PROVE  /\ Shape(proc)[p] = IF proc[p].state \in {"none", "left"} THEN None ELSE proc[p]
           /\ Shape(proc)[p].state # "none" <=> proc[p].state \notin {"none", "left"}
           /\ Shape(proc)[p].state = "none" => Shape(proc)[p] = None
           /\ Shape(proc)[p].state # "none" => Shape(proc)[p] = proc[p]
  BY NoneIs DEF Shape
\* One of them changes.
LEMMA ShapeChanges ==
    ASSUME MemoryInv, NEW p \in Procs, NEW r, NEW pr2, pr2 = [proc EXCEPT ![p] = r],
           NEW s, s = (IF r.state \in {"none", "left"} THEN None ELSE r),
           NEW sh2, sh2 = [Shape(proc) EXCEPT ![p] = s]
    PROVE  IsMap(pr2) /\ Shape(pr2) = sh2
<1> DEFINE P == proc
<1>1. P = [q \in Procs |-> P[q]]
  BY DEF MemoryInv, IsMap
<1>2. pr2 = [q \in Procs |-> IF q = p THEN r ELSE P[q]]
  BY <1>1
<1> HIDE DEF P
<1>3. pr2 = [q \in Procs |-> pr2[q]] /\ pr2[p] = r /\ \A q \in Procs : q # p => pr2[q] = P[q]
  BY <1>2
<1>4. Shape(pr2) = [q \in Procs |-> IF q = p THEN s ELSE Shape(P)[q]]
  BY <1>3 DEF Shape
<1>5. [Shape(P) EXCEPT ![p] = s] = [q \in Procs |-> IF q = p THEN s ELSE Shape(P)[q]]
  BY DEF Shape
<1> QED BY <1>3, <1>4, <1>5 DEF P, IsMap

\* The memory changes and with it the processes; the heap and its pages stay.
LEMMA MemoryChanges ==
    ASSUME NEW l, NEW H, NEW b, NEW m, NEW pr, NEW orp, NEW t, NEW bh,
           StateOK(l, H, b, m, pr, orp, t, bh), NEW m2, NEW pr2, NEW orp2,
           \A k \in HeapPages : k < b \div PAGE_SIZE => HeapPage(m2, k) = HeapPage(m, k),
           Sound(m2, b \div PAGE_SIZE, pr2, orp2), ProcsOK(pr2, H), AllSee(m2, pr2)
    PROVE  StateOK(l, H, b, m2, pr2, orp2, t, bh)
<1> DEFINE top == b \div PAGE_SIZE
<1>1. /\ HeapWF(l, H, b) /\ b = top * PAGE_SIZE /\ Sound(m, top, pr, orp)
      /\ Contiguous(m, H) /\ TlbOK(m, top, t, bh) /\ Sound(m2, top, pr2, orp2)
      /\ \A k \in HeapPages : k < top => HeapPage(m2, k) = HeapPage(m, k)
  BY DEF StateOK
<1> HIDE DEF top
<1>2. top \in Nat /\ top <= MaxHeapPages
  BY <1>1, SoundSizes
<1>3. Contiguous(m2, H)
  BY <1>1, <1>2, ContiguousKept
<1>4. TlbOK(m2, top, t, bh)
  BY <1>1, <1>2, TlbSame
<1> QED BY <1>1, <1>3, <1>4 DEF StateOK, top

\* The memory changes and nobody's share of it.
LEMMA OnlyMemoryChanges ==
    ASSUME NEW l, NEW H, NEW b, NEW m, NEW pr, NEW orp, NEW t, NEW bh,
           StateOK(l, H, b, m, pr, orp, t, bh), NEW m2, NEW orp2,
           \A k \in HeapPages : k < b \div PAGE_SIZE => HeapPage(m2, k) = HeapPage(m, k),
           Sound(m2, b \div PAGE_SIZE, pr, orp2), SameTrees(m, m2, pr)
    PROVE  StateOK(l, H, b, m2, pr, orp2, t, bh)
<1> DEFINE top == b \div PAGE_SIZE
<1>1. /\ HeapWF(l, H, b) /\ b = top * PAGE_SIZE /\ Sound(m, top, pr, orp)
      /\ ProcsOK(pr, H) /\ AllSee(m, pr) /\ pr \in [Procs -> Process]
      /\ \A k \in HeapPages : k < top => HeapPage(m2, k) = HeapPage(m, k)
  BY DEF StateOK, ProcsOK
<1> HIDE DEF top
<1>2. top \in Nat /\ top <= MaxHeapPages
  BY <1>1, SoundSizes
<1>3. Frames(pr, top)
  BY <1>1, <1>2, FramesIn
<1>4. AllSee(m2, pr)
  BY <1>1, <1>3, AllSeeKept
<1> QED BY <1>1, <1>4, MemoryChanges DEF top

\* common_alloc leaves a memory and a heap in order: with one allocation more, without it
\* if it answers NULL, and with the pages it had taken lost if it stops on the way.
Obtained(h, request, contiguous, r) ==
    /\ StateOK(r.freelist, held \union ({r.got} \ {NULL}), r.brk, r.mem, Shape(proc),
               orphans \union r.lost, [tlb EXCEPT ![h] = r.tlb], r.behind)
    /\ r.got # NULL => /\ r.got \in Allocation /\ r.got \notin held /\ r.got.asked = request
                       /\ r.lost = {} /\ (contiguous => ~r.mem.fault)

\* More allocations do not concern the processes.
LEMMA ProcsMore ==
    ASSUME NEW pr, NEW H, ProcsOK(pr, H), NEW H2, H \subseteq H2
    PROVE  ProcsOK(pr, H2)
  BY DEF ProcsOK

\* common_alloc on the whole state: heap, page tables, owners and TLBs.
LEMMA AllocState ==
    ASSUME MemoryInv, NEW h \in Harts, NEW request \in Nat, NEW contiguous \in BOOLEAN,
           NEW r, r = common_alloc(h, request, contiguous), r.reach <= MaxHeapPages * PAGE_SIZE
    PROVE  Obtained(h, request, contiguous, r)
<1> DEFINE top == brk \div PAGE_SIZE
           H2 == held \union {r.got}
           t2 == [tlb EXCEPT ![h] = r.tlb]
           pr == Shape(proc)
           orp == orphans
<1>1. /\ HeapOK /\ HeapWF(freelist, held, brk) /\ brk = top * PAGE_SIZE /\ Sound(mem, top, pr, orp)
      /\ ProcsOK(pr, held) /\ AllSee(mem, pr) /\ Contiguous(mem, held) /\ TlbOK(mem, top, tlb, behind)
      /\ pr \in [Procs -> Process]
      /\ StateOK(freelist, held, brk, mem, pr, orp, tlb, behind)
  BY DEF MemoryInv, StateOK, HeapOK, ProcsOK
<1> HIDE DEF top, pr, orp
<1>2. /\ top \in Nat /\ top <= MaxHeapPages /\ MaxHeapPages \in Nat
      /\ \A k \in 0 .. top - 1 : HeapPage(mem, k) \in Int
  BY <1>1, SoundSizes
<1>3. Frames(pr, top)
  BY <1>1, <1>2, FramesIn
<1>4. tlb \in [Harts -> [HeapPages -> Int]]
  BY <1>1 DEF TlbOK
<1>5. CASE /\ r.got = NULL /\ r.freelist = freelist /\ r.brk = brk
           /\ r.mem = mem /\ r.tlb = tlb[h] /\ r.behind = behind /\ r.lost = {}
  <2>1. held \union ({r.got} \ {NULL}) = held /\ orp \union r.lost = orp
    BY <1>5
  <2>2. t2 = tlb
    BY <1>4, <1>5
  <2> HIDE DEF t2
  <2> QED BY <1>1, <1>5, <2>1, <2>2 DEF Obtained, pr, orp, t2
<1>12. ASSUME NEW n \in Nat, n > 0, r.reach = brk + n * PAGE_SIZE, FirstFit(mem.taken, n) # NoPage,
              r.mem = Grown(mem, n), r.mem.fault,
              r.lost = FirstFit(mem.taken, n) .. FirstFit(mem.taken, n) + n - 1,
              r.got = NULL, r.freelist = freelist, r.brk = brk, r.tlb = tlb[h], r.behind = behind
       PROVE  Obtained(h, request, contiguous, r)
  <2> DEFINE m2 == Grown(mem, n)
             b == r.reach
             X == r.lost
  <2>1. top + n <= MaxHeapPages
    <3>1. b = top * PAGE_SIZE + n * PAGE_SIZE /\ b <= MaxHeapPages * PAGE_SIZE
      BY <1>1, <1>12
    <3> HIDE DEF b
    <3> QED BY <1>2, <1>12, <3>1, GrowTop
  <2>2. GrowOutcome(mem, top, n, pr, orp, m2)
    <3>1. m2 = mmu_map_multiple(Taken(mem, n), kernel_mmu_table, HeapStart + top, FirstFit(mem.taken, n), n)
      BY DEF Grown, top
    <3> HIDE DEF m2
    <3> QED BY <1>1, <1>12, <2>1, <3>1, GrowSound
  <2>3. m2 = r.mem /\ X = FirstFit(mem.taken, n) .. FirstFit(mem.taken, n) + n - 1
    BY <1>12
  <2> HIDE DEF m2, X
  <2>4. /\ Sound(m2, top, pr, orp \union X) /\ SameTrees(mem, m2, pr)
        /\ \A k \in HeapPages : k < top => HeapPage(m2, k) = HeapPage(mem, k)
    BY <1>12, <2>2, <2>3 DEF GrowOutcome
  <2>5. StateOK(freelist, held, brk, m2, pr, orp \union X, tlb, behind)
    BY <1>1, <2>4, OnlyMemoryChanges DEF top
  <2>6. held \union ({r.got} \ {NULL}) = held
    BY <1>12
  <2>7. t2 = tlb
    BY <1>4, <1>12
  <2> HIDE DEF t2
  <2> QED BY <1>12, <2>3, <2>5, <2>6, <2>7 DEF Obtained, pr, orp, t2, X
<1>6. ASSUME r.got \in Allocation, r.got \notin held, r.got # NULL,
             r.got.asked = request, r.got.contiguous = contiguous,
             HeapWF(r.freelist, held \union {r.got}, r.brk),
             r.lost = {}, ~contiguous, r.brk = brk, r.mem = mem, r.behind = behind, r.tlb = Cached(mem, brk, tlb[h])
      PROVE  Obtained(h, request, contiguous, r)
  <2>1. TlbOK(mem, top, t2, behind)
    <3>1. tlb[h] \in [HeapPages -> Int] /\ brk \div PAGE_SIZE = top
      BY <1>4 DEF top
    <3>2. \A g \in Harts \ behind : \A k \in 0 .. top - 1 :
              (IF g = h THEN tlb[h] ELSE tlb[g])[k] \in {NoPage, HeapPage(mem, k)}
      BY <1>1 DEF TlbOK
    <3>3. t2 = [tlb EXCEPT ![h] = Cached(mem, brk, tlb[h])]
      BY <1>6
    <3> DEFINE old == tlb[h]
               b == brk
               md == mem
    <3> HIDE DEF t2, old, b, md
    <3>4. /\ old \in [HeapPages -> Int] /\ t2 = [tlb EXCEPT ![h] = Cached(md, b, old)] /\ b \div PAGE_SIZE = top
          /\ \A g \in Harts \ behind : \A k \in 0 .. top - 1 :
                (IF g = h THEN old ELSE tlb[g])[k] \in {NoPage, HeapPage(md, k)}
          /\ \A k \in 0 .. top - 1 : HeapPage(md, k) = HeapPage(md, k) /\ HeapPage(md, k) \in Int
      BY <1>2, <3>1, <3>2, <3>3 DEF old, b, md
    <3>5. TlbOK(md, top, t2, behind)
      BY <1>2, <1>4, <3>4, TlbKept
    <3> QED BY <3>5 DEF md
  <2>2. Contiguous(mem, H2)
    BY <1>1, <1>6 DEF Contiguous
  <2>3. ProcsOK(pr, H2)
    BY <1>1, ProcsMore
  <2>4. StateOK(r.freelist, H2, r.brk, r.mem, pr, orp, t2, r.behind)
    BY <1>1, <1>6, <2>1, <2>2, <2>3 DEF StateOK, top
  <2>5. H2 = held \union ({r.got} \ {NULL}) /\ orp \union r.lost = orp
    BY <1>6
  <2> HIDE DEF H2, t2
  <2> QED BY <1>6, <2>4, <2>5 DEF Obtained, pr, orp, t2
<1>7. ASSUME r.got \in Allocation, r.got \notin held, r.got # NULL,
             r.got.asked = request, r.got.contiguous = contiguous,
             HeapWF(r.freelist, held \union {r.got}, r.brk), NEW n \in Nat, n > 0,
             r.brk = brk + n * PAGE_SIZE, FirstFit(mem.taken, n) # NoPage,
             r.mem = Grown(mem, n), r.behind = Harts \ {h},
             r.tlb = Cached(Grown(mem, n), r.brk, sfence(tlb[h])), r.got.addr = brk,
             r.lost = {}, ~r.mem.fault, r.reach = r.brk
      PROVE  Obtained(h, request, contiguous, r)
  <2> DEFINE f == FirstFit(mem.taken, n)
             b == r.brk
             m2 == Grown(mem, n)
             tt == top + n
             got == r.got
  <2>1. b \div PAGE_SIZE = tt /\ b = tt * PAGE_SIZE /\ tt <= MaxHeapPages /\ tt \in Nat
    <3>1. b = top * PAGE_SIZE + n * PAGE_SIZE /\ b <= MaxHeapPages * PAGE_SIZE
      BY <1>1, <1>7
    <3> HIDE DEF b
    <3> QED BY <1>2, <1>7, <3>1, GrowTop
  <2>2. GrowOutcome(mem, top, n, pr, orp, m2)
    <3>1. m2 = mmu_map_multiple(Taken(mem, n), kernel_mmu_table, HeapStart + top, f, n)
      BY DEF Grown, top
    <3> HIDE DEF m2
    <3> QED BY <1>1, <1>7, <2>1, <3>1, GrowSound
  <2> HIDE DEF m2, b
  <2>3. ~m2.fault
    BY <1>7 DEF m2
  <2>4. CASE /\ ~m2.fault /\ Sound(m2, tt, pr, orp) /\ SameTrees(mem, m2, pr)
             /\ \A k \in HeapPages :
                   HeapPage(m2, k) = IF k \in top .. top + n - 1 THEN f + (k - top) ELSE HeapPage(mem, k)
    <3>1. \A k \in HeapPages : k < top => HeapPage(m2, k) = HeapPage(mem, k)
      BY <1>2, <2>4 DEF HeapPages
    <3>2. AllSee(m2, pr)
      BY <1>1, <1>3, <2>4, <3>1, AllSeeKept
    <3>3. Contiguous(m2, H2)
      <4>1. Contiguous(m2, held)
        BY <1>1, <1>2, <3>1, ContiguousKept
      <4>2. ASSUME NEW j \in PagesUnder(got), NEW k \in PagesUnder(got)
            PROVE  HeapPage(m2, k) - HeapPage(m2, j) = k - j
        <5>1. PagesUnder(got) \subseteq top .. tt - 1
          <6>1. HeapWF(r.freelist, H2, b) /\ got \in H2 /\ got.addr >= top * PAGE_SIZE
            <7>1. brk \in Nat
              BY <1>1 DEF HeapWF
            <7> QED BY <1>1, <1>7, <7>1 DEF b
          <6> HIDE DEF H2, got, tt
          <6> QED BY <1>2, <2>1, <6>1, PagesUnderIn
        <5>2. j \in HeapPages /\ k \in HeapPages /\ j \in top .. top + n - 1 /\ k \in top .. top + n - 1
          BY <1>2, <2>1, <5>1 DEF HeapPages
        <5>3. HeapPage(m2, j) = f + (j - top) /\ HeapPage(m2, k) = f + (k - top)
          BY <2>4, <5>2
        <5>4. f \in Int
          BY <1>7, FitIs, NoPageIs
        <5> HIDE DEF f
        <5> QED BY <1>2, <5>2, <5>3, <5>4
      <4> HIDE DEF got
      <4>3. H2 = held \union {got}
        BY DEF got
      <4> QED BY <4>1, <4>2, <4>3 DEF Contiguous
    <3>4. TlbOK(m2, tt, t2, Harts \ {h})
      <4>1. \A k \in 0 .. tt - 1 : HeapPage(m2, k) \in Int
        BY <2>4, SoundSizes
      <4>2. /\ sfence(tlb[h]) \in [HeapPages -> Int] /\ \A k \in HeapPages : sfence(tlb[h])[k] = NoPage
        BY NoPageIs DEF sfence, NothingCached
      <4>3. t2 = [tlb EXCEPT ![h] = Cached(m2, b, sfence(tlb[h]))]
        BY <1>7 DEF m2, b
      <4> DEFINE old == sfence(tlb[h])
                 bh == Harts \ {h}
      <4>4. 0 .. tt - 1 \subseteq HeapPages
        BY <1>2, <2>1 DEF HeapPages
      <4>5. \A g \in Harts \ bh : g = h
        OBVIOUS
      <4> HIDE DEF old, bh, t2, tt
      <4>6. \A g \in Harts \ bh : \A k \in 0 .. tt - 1 :
                (IF g = h THEN old ELSE tlb[g])[k] \in {NoPage, HeapPage(m2, k)}
        BY <4>2, <4>4, <4>5 DEF old
      <4>7. old \in [HeapPages -> Int] /\ t2 = [tlb EXCEPT ![h] = Cached(m2, b, old)]
        BY <4>2, <4>3 DEF old
      <4>8. TlbOK(m2, tt, t2, bh)
        BY <1>4, <2>1, <4>1, <4>6, <4>7, TlbKept
      <4> QED BY <4>8 DEF bh
    <3>5. ProcsOK(pr, H2)
      BY <1>1, ProcsMore
    <3>6. HeapWF(r.freelist, H2, b) /\ b = r.brk /\ r.mem = m2 /\ r.behind = Harts \ {h}
      BY <1>7 DEF b, m2
    <3> HIDE DEF H2, t2, tt
    <3>7. StateOK(r.freelist, H2, b, m2, pr, orp, t2, Harts \ {h})
      BY <2>1, <2>4, <3>2, <3>3, <3>4, <3>5, <3>6 DEF StateOK
    <3>8. H2 = held \union ({r.got} \ {NULL}) /\ orp \union r.lost = orp
      BY <1>7 DEF H2
    <3> QED BY <1>7, <2>4, <3>6, <3>7, <3>8 DEF Obtained, pr, orp, t2
  <2> QED BY <2>2, <2>3, <2>4 DEF GrowOutcome
<1>8. AllocOutcome(h, request, contiguous, r)
  BY <1>1, AllocKeeps
<1> QED BY <1>5, <1>6, <1>7, <1>8, <1>12 DEF AllocOutcome

\* kfree of an allocation, on a memory whose heap is the kernel's, leaves the memory and
\* the heap in order.
Released(h, a, r, pr, orp) ==
    StateOK(r.freelist, held \ {a}, r.brk, r.mem, pr, orp, [tlb EXCEPT ![h] = r.tlb], r.behind)
\* kfree on the whole state: the heap may shrink, which unmaps and gives back pages.
LEMMA FreeState ==
    ASSUME MemoryInv, NEW h \in Harts, NEW a \in held, NEW m, NEW pr, NEW orp,
           Sound(m, brk \div PAGE_SIZE, pr, orp), ProcsOK(pr, held \ {a}), AllSee(m, pr),
           \A k \in HeapPages : HeapPage(m, k) = HeapPage(mem, k),
           NEW r, r = kfree(h, m, a)
    PROVE  Released(h, a, r, pr, orp)
<1> DEFINE top == brk \div PAGE_SIZE
           H2 == held \ {a}
           t2 == [tlb EXCEPT ![h] = r.tlb]
<1>1. /\ HeapOK /\ HeapWF(freelist, held, brk) /\ brk = top * PAGE_SIZE /\ Sound(m, top, pr, orp)
      /\ Contiguous(mem, held) /\ TlbOK(mem, top, tlb, behind) /\ pr \in [Procs -> Process]
  BY DEF MemoryInv, StateOK, HeapOK, ProcsOK
<1>2. PICK n \in Nat : FreeOutcome(h, m, a, r, n)
  BY <1>1, FreeKeeps
<1>3. /\ HeapWF(r.freelist, H2, r.brk) /\ r.brk = brk - n * PAGE_SIZE /\ r.brk > 0
      /\ r.mem = PagesDropped(m, top, n) /\ r.tlb = Cached(r.mem, r.brk, tlb[h])
      /\ r.behind = IF n = 0 THEN behind ELSE behind \union (Harts \ {h})
  BY <1>2 DEF FreeOutcome
<1> HIDE DEF top, H2
<1>4. /\ top \in Nat /\ top <= MaxHeapPages /\ MaxHeapPages \in Nat
  BY <1>1, SoundSizes
<1> DEFINE b == r.brk
           tt == top - n
           m2 == r.mem
<1>5. n < top /\ tt \in Nat /\ b \div PAGE_SIZE = tt /\ b = tt * PAGE_SIZE /\ tt <= top
  <2>1. b = top * PAGE_SIZE - n * PAGE_SIZE /\ b > 0
    BY <1>1, <1>3
  <2> HIDE DEF b
  <2> QED BY <1>4, <2>1, ShrinkTop
<1>6. /\ Sound(m2, tt, pr, orp) /\ SameTrees(m, m2, pr)
      /\ \A k \in HeapPages : k < tt => HeapPage(m2, k) = HeapPage(m, k)
  <2>1. n <= top /\ m2 = PagesDropped(m, top, n)
    BY <1>3, <1>4, <1>5
  <2> HIDE DEF m2
  <2>2. ShrinkOutcome(m, top, n, pr, orp, m2)
    BY <1>1, <2>1, ShrinkSound
  <2> QED BY <2>2 DEF ShrinkOutcome
<1> HIDE DEF b, tt, m2
<1>7. tt <= MaxHeapPages
  BY <1>4, <1>5
<1>8. HeapWF(r.freelist, H2, b) /\ ProcsOK(pr, H2)
  BY <1>3 DEF b, H2
<1>9. AllSee(m2, pr)
  <2>1. Frames(pr, tt)
    BY <1>5, <1>7, <1>8, FramesIn
  <2> QED BY <1>1, <1>6, <2>1, AllSeeKept
<1>10. \A k \in HeapPages : k < tt => HeapPage(m2, k) = HeapPage(mem, k)
  BY <1>6
<1>11. Contiguous(m2, H2)
  <2>1. H2 \subseteq held
    BY DEF H2
  <2> QED BY <1>1, <1>5, <1>7, <1>8, <1>10, <2>1, ContiguousKept
<1>12. TlbOK(m2, tt, t2, r.behind)
  <2>1. tlb \in [Harts -> [HeapPages -> Int]] /\ tlb[h] \in [HeapPages -> Int]
    BY <1>1 DEF TlbOK
  <2>2. \A k \in 0 .. tt - 1 : k \in HeapPages /\ k < tt /\ k \in 0 .. top - 1
    BY <1>4, <1>5 DEF HeapPages
  <2>3. \A k \in 0 .. tt - 1 : HeapPage(m2, k) \in Int
    BY <1>6, SoundSizes
  <2> DEFINE old == tlb[h]
             bh == r.behind
  <2>4. \A g \in Harts \ bh : g \notin behind
    BY <1>3
  <2> HIDE DEF old, bh
  <2>5. \A g \in Harts \ bh : \A k \in 0 .. tt - 1 :
            (IF g = h THEN old ELSE tlb[g])[k] \in {NoPage, HeapPage(m2, k)}
    BY <1>1, <1>10, <2>2, <2>4 DEF TlbOK, old
  <2>6. t2 = [tlb EXCEPT ![h] = Cached(m2, b, old)] /\ old \in [HeapPages -> Int]
    BY <1>3, <2>1 DEF m2, b, old
  <2> HIDE DEF t2
  <2>7. TlbOK(m2, tt, t2, bh)
    BY <1>5, <1>7, <2>1, <2>3, <2>5, <2>6, TlbKept
  <2> QED BY <2>7 DEF bh
<1> HIDE DEF t2
<1>13. StateOK(r.freelist, H2, b, m2, pr, orp, t2, r.behind)
  BY <1>5, <1>6, <1>8, <1>9, <1>11, <1>12 DEF StateOK
<1> QED BY <1>13 DEF Released, H2, b, m2, t2

\* The harts, requests and processes that take part.
LEMMA SceneIs ==
    ASSUME MemoryInv
    PROVE  scene.harts \subseteq Harts /\ scene.requests \subseteq Nat \X BOOLEAN /\ scene.procs \subseteq Procs
  BY HeapAssumption, MemoryAssumption DEF MemoryInv

\* kmalloc, kzalloc and kcalloc.
LEMMA HeapAllocStep ==
    ASSUME MemoryInv, NEW h \in Harts, NEW request \in Nat, NEW contiguous \in BOOLEAN,
           HeapAlloc(h, request, contiguous)
    PROVE  MemoryInv'
<1> DEFINE r == common_alloc(h, request, contiguous)
           holding == held \union ({r.got} \ {NULL})
<1>1. /\ InBounds(r) /\ Outcome(h, r, holding, r.stops)
      /\ orphans' = orphans \union r.lost /\ proc' = proc
  BY DEF HeapAlloc, Allocated, Alloc
<1> HIDE DEF r
<1>2. Obtained(h, request, contiguous, r)
  <2>1. r.reach <= MaxHeapPages * PAGE_SIZE
    BY <1>1 DEF InBounds
  <2> QED BY <2>1, AllocState DEF r
<1> HIDE DEF holding
<1>3. StateOK(r.freelist, holding, r.brk, r.mem, Shape(proc), orphans \union r.lost,
              [tlb EXCEPT ![h] = r.tlb], r.behind)
  BY <1>2 DEF Obtained, holding
<1>4. /\ mem' = r.mem /\ freelist' = r.freelist /\ brk' = r.brk /\ held' = holding
      /\ tlb' = [tlb EXCEPT ![h] = r.tlb] /\ behind' = r.behind /\ scene' = scene
  BY <1>1 DEF Outcome
<1> QED BY <1>1, <1>3, <1>4 DEF MemoryInv

\* kfree by anyone but process_free.
LEMMA HeapFreeStep ==
    ASSUME MemoryInv, NEW h \in Harts, NEW a \in held, HeapFree(h, a)
    PROVE  MemoryInv'
<1> DEFINE r == kfree(h, mem, a)
           pr == Shape(proc)
<1>1. /\ Outcome(h, r, held \ {a}, r.stops) /\ orphans' = orphans /\ proc' = proc
      /\ \A p \in Procs : a # proc[p].object
  BY DEF HeapFree, Free, Freeing
<1>2. /\ Sound(mem, brk \div PAGE_SIZE, pr, orphans) /\ AllSee(mem, pr) /\ ProcsOK(pr, held)
  BY DEF MemoryInv, StateOK
<1>3. \A p \in Procs : pr[p].state # "none" => pr[p].object # a
  BY <1>1, ShapeIs
<1> HIDE DEF r, pr
<1>4. ProcsOK(pr, held \ {a})
  BY <1>2, <1>3 DEF ProcsOK
<1>5. Released(h, a, r, pr, orphans)
  BY <1>2, <1>4, FreeState DEF r
<1>6. /\ mem' = r.mem /\ freelist' = r.freelist /\ brk' = r.brk /\ held' = held \ {a}
      /\ tlb' = [tlb EXCEPT ![h] = r.tlb] /\ behind' = r.behind /\ scene' = scene
  BY <1>1 DEF Outcome
<1> QED BY <1>1, <1>5, <1>6 DEF Released, MemoryInv, pr

\* An answer of common_alloc with another memory is otherwise the same answer.
LEMMA AllocFields ==
    ASSUME NEW h, NEW request, NEW contiguous, NEW r, r = common_alloc(h, request, contiguous), NEW m,
           NEW s, s = [r EXCEPT !.mem = m]
    PROVE  /\ s.mem = m /\ s.freelist = r.freelist /\ s.brk = r.brk /\ s.tlb = r.tlb
           /\ s.behind = r.behind /\ s.got = r.got
  BY DEF common_alloc

\* One process changes and with it the memory; the heap and what the others see stay.
OnlyChanges(m, pr, p, m2, pr2) ==
    /\ \A k \in HeapPages : HeapPage(m2, k) = HeapPage(m, k)
    /\ \A q \in Procs : q # p =>
          pr2[q] = pr[q] /\ (pr[q].state # "none" => SameTree(m, m2, pr[q].ptable))
    /\ pr2[p].state \notin {"none", "stuck"} => Sees(m2, pr2[p])
\* One process changes, with what is its own: the state stays in order.
LEMMA ProcessChanges ==
    ASSUME NEW l, NEW H, NEW b, NEW m, NEW pr, NEW orp, NEW t, NEW bh,
           StateOK(l, H, b, m, pr, orp, t, bh), NEW p \in Procs, NEW m2, NEW pr2, NEW orp2,
           OnlyChanges(m, pr, p, m2, pr2), Sound(m2, b \div PAGE_SIZE, pr2, orp2), ProcsOK(pr2, H)
    PROVE  StateOK(l, H, b, m2, pr2, orp2, t, bh)
<1> DEFINE top == b \div PAGE_SIZE
<1>1. /\ HeapWF(l, H, b) /\ b = top * PAGE_SIZE /\ Sound(m, top, pr, orp) /\ ProcsOK(pr, H)
      /\ AllSee(m, pr)
  BY DEF StateOK
<1> HIDE DEF top
<1>2. top \in Nat /\ top <= MaxHeapPages
  BY <1>1, SoundSizes
<1>3. \A k \in HeapPages : HeapPage(m2, k) = HeapPage(m, k)
  BY DEF OnlyChanges
<1>4. AllSee(m2, pr2)
  <2> SUFFICES ASSUME NEW q \in Procs, pr2[q].state \notin {"none", "stuck"}
               PROVE  Sees(m2, pr2[q])
    BY DEF AllSee
  <2>1. CASE q = p
    BY <2>1 DEF OnlyChanges
  <2>2. CASE q # p
    <3> DEFINE r == pr[q]
    <3>1. /\ pr2[q] = r /\ r.state \notin {"none", "stuck"} /\ SameTree(m, m2, r.ptable) /\ Sees(m, r)
      BY <1>1, <2>2 DEF OnlyChanges, AllSee
    <3>2. r.pages \in Nat
      BY <1>1 DEF ProcsOK, Process
    <3>3. Frames(pr, top)
      BY <1>1, <1>2, FramesIn
    <3>4. PICK k \in HeapPages : k < top /\ FrameV(r.object) = HeapStart + k
      BY <3>1, <3>3 DEF Frames
    <3>5. HeapPage(m2, k) = HeapPage(m, k)
      BY <1>3, <3>4
    <3> HIDE DEF r
    <3>6. Sees(m2, r)
      BY <3>1, <3>2, <3>4, <3>5, SeesKept
    <3> QED BY <3>1, <3>6
  <2> QED BY <2>1, <2>2
<1> QED BY <1>3, <1>4, MemoryChanges

\* The object of a process that is made is one that nobody held.
LEMMA ProcsNew ==
    ASSUME NEW pr, NEW H, ProcsOK(pr, H), NEW got \in Allocation, got \notin H, got.asked = ProcBytes,
           NEW p \in Procs, NEW pr2 \in [Procs -> Process], pr2[p].state = "new", pr2[p].object = got,
           pr2[p].pages = 0, \A q \in Procs : q # p => pr2[q] = pr[q]
    PROVE  ProcsOK(pr2, H \union {got})
<1>1. pr \in [Procs -> Process]
  BY DEF ProcsOK
<1>2. ASSUME NEW q \in Procs
      PROVE  /\ pr2[q].state # "none" => pr2[q].object \in H \union {got} /\ pr2[q].object.asked = ProcBytes
             /\ pr2[q].state = "loaded" => pr2[q].pages \in Sizes
             /\ pr2[q].state # "loaded" => pr2[q].pages = 0
  BY <1>1 DEF ProcsOK
<1>3. ASSUME NEW q \in Procs, NEW s \in Procs, q # s, pr2[q].state # "none", pr2[s].state # "none"
      PROVE  pr2[q].object # pr2[s].object
  BY <1>1, <1>3 DEF ProcsOK
<1> QED BY <1>1, <1>2, <1>3 DEF ProcsOK

\* process_init_new, once it has the object: the hart stops and what it has taken since is
\* nobody's, or there is a process more.
MadeOutcome(l, H2, b, m, pr, orp, t, bh, c, pr2) ==
    IF c.fault THEN StateOK(l, H2, b, c, pr, orp \union (c.taken \ m.taken), t, bh)
    ELSE StateOK(l, H2, b, c, pr2, orp, t, bh)
\* process_init_new, once it has the object, leaves the state in order.
LEMMA ProcessMade ==
    ASSUME NEW p \in Procs, NEW l, NEW H, NEW b, NEW m, NEW pr, NEW orp, NEW t, NEW bh,
           NEW got, got \in Allocation, got \notin H, got.asked = ProcBytes, ~m.fault, ProcsOK(pr, H),
           StateOK(l, H \union {got}, b, m, pr, orp, t, bh), pr[p].state = "none",
           NEW pt, pt = FirstFit(m.taken, 1), NEW a, a = NewTable(m),
           NEW stack, stack = FirstFit(a.taken, 1),
           NEW c, c = IF a.fault THEN a ELSE Furnished(Taken(a, 1), pt, stack, got),
           NEW pr2, pr2 = [pr EXCEPT ![p] = NewProcess(got, pt, stack)]
    PROVE  MadeOutcome(l, H \union {got}, b, m, pr, orp, t, bh, c, pr2)
<1> DEFINE top == b \div PAGE_SIZE
           H2 == H \union {got}
<1>1. /\ HeapWF(l, H2, b) /\ b = top * PAGE_SIZE /\ Sound(m, top, pr, orp) /\ pr \in [Procs -> Process]
      /\ StateOK(l, H2, b, m, pr, orp, t, bh)
  BY DEF StateOK, ProcsOK
<1> HIDE DEF top
<1>2. top \in Nat /\ top <= MaxHeapPages
  BY <1>1, SoundSizes
<1>3. PICK k \in HeapPages : k < top /\ FrameV(got) = HeapStart + k
  <2>1. got \in H2
    OBVIOUS
  <2> HIDE DEF H2
  <2> QED BY <1>1, <1>2, <2>1, FrameIn
<1>4. NewOutcome(m, top, pr, orp, p, got, c, pr2)
  BY <1>1, <1>3, NewProcessSound
<1>5. CASE c.fault
  <2> DEFINE orp2 == orp \union (c.taken \ m.taken)
  <2>1. /\ Sound(c, top, pr, orp2) /\ SameTrees(m, c, pr)
        /\ \A j \in HeapPages : HeapPage(c, j) = HeapPage(m, j)
    BY <1>4, <1>5 DEF NewOutcome, LostOutcome
  <2> HIDE DEF orp2, H2
  <2>2. StateOK(l, H2, b, c, pr, orp2, t, bh)
    BY <1>1, <2>1, OnlyMemoryChanges DEF top
  <2> QED BY <1>5, <2>2 DEF MadeOutcome, orp2, H2
<1>6. CASE ~c.fault
  <2>1. /\ Sound(c, top, pr2, orp) /\ SameTrees(m, c, pr) /\ Sees(c, pr2[p])
        /\ \A j \in HeapPages : HeapPage(c, j) = HeapPage(m, j)
    BY <1>4, <1>6 DEF NewOutcome
  <2>2. pt \in Int /\ stack \in Int
    BY FitIs, NoPageIs
  <2>3. OnlyChanges(m, pr, p, c, pr2)
    <3>1. \A q \in Procs : q # p => pr2[q] = pr[q]
      BY <1>1
    <3> QED BY <2>1, <3>1 DEF OnlyChanges, SameTrees
  <2>4. ProcsOK(pr2, H2)
    <3> DEFINE n == NewProcess(got, pt, stack)
    <3>1. n \in Process /\ n.state = "new" /\ n.object = got /\ n.pages = 0
      BY <2>2, NewProcessIs
    <3> HIDE DEF n
    <3>2. pr2 \in [Procs -> Process] /\ pr2[p] = n /\ \A q \in Procs : q # p => pr2[q] = pr[q]
      BY <1>1, <3>1 DEF n
    <3>3. ProcsOK(pr2, H \union {got})
      BY <3>1, <3>2, ProcsNew
    <3> QED BY <3>3 DEF H2
  <2> HIDE DEF H2
  <2>5. StateOK(l, H2, b, c, pr2, orp, t, bh)
    BY <1>1, <2>1, <2>3, <2>4, ProcessChanges DEF top
  <2> QED BY <1>6, <2>5 DEF MadeOutcome, H2
<1> QED BY <1>5, <1>6

\* process_init_new with its object, by the state that it leaves.
MadeStep(h, p, r, pt, stack, c) ==
    /\ mem' = c /\ freelist' = r.freelist /\ brk' = r.brk /\ behind' = r.behind
    /\ tlb' = [tlb EXCEPT ![h] = r.tlb] /\ held' = held \union {r.got} /\ scene' = scene
    /\ proc' = [proc EXCEPT ![p] = IF c.fault THEN Remains(r.got) ELSE NewProcess(r.got, pt, stack)]
    /\ orphans' = IF c.fault THEN orphans \union r.lost \union (c.taken \ r.mem.taken) ELSE orphans
\* process_init_new.
LEMMA NewProcessStep ==
    ASSUME MemoryInv, NEW h \in Harts, NEW p \in Procs, process_init_new(h, p)
    PROVE  MemoryInv'
<1> DEFINE r == common_alloc(h, ProcBytes, TRUE)
           sh == Shape(proc)
           t2 == [tlb EXCEPT ![h] = r.tlb]
<1>1. proc[p].state = "none" /\ WithObject(h, p, r)
  BY DEF process_init_new
<1>2. sh[p].state = "none" /\ sh[p] = None /\ ProcsOK(sh, held) /\ sh \in [Procs -> Process]
  BY <1>1, ShapeIs DEF MemoryInv, StateOK, ProcsOK
<1>3. r = common_alloc(h, ProcBytes, TRUE)
  OBVIOUS
<1> HIDE DEF r, sh
<1>4. Obtained(h, ProcBytes, TRUE, r)
  <2>1. r.reach <= MaxHeapPages * PAGE_SIZE
    BY <1>1 DEF WithObject, WithTable, Made, InBounds
  <2>2. ProcBytes \in Nat
    BY MemoryAssumption
  <2> QED BY <1>3, <2>1, <2>2, AllocState
<1>5. StateOK(r.freelist, held \union ({r.got} \ {NULL}), r.brk, r.mem, sh, orphans \union r.lost,
              t2, r.behind)
  BY <1>4 DEF Obtained, sh
<1> HIDE DEF t2
<1>6. CASE r.got = NULL
  <2> DEFINE s == [r EXCEPT !.mem = r.mem]
  <2>1. Made(h, p, r, NoPage, NoPage, r.mem)
    BY <1>1, <1>6 DEF WithObject
  <2>2. /\ s.mem = r.mem /\ s.freelist = r.freelist /\ s.brk = r.brk /\ s.tlb = r.tlb
        /\ s.behind = r.behind
    BY <1>3, AllocFields
  <2>3. /\ Outcome(h, s, held \union ({r.got} \ {NULL}), TRUE) /\ proc' = proc
        /\ orphans' = orphans \union r.lost \union (r.mem.taken \ r.mem.taken)
    BY <1>6, <2>1 DEF Made
  <2> HIDE DEF s
  <2>4. /\ mem' = r.mem /\ freelist' = r.freelist /\ brk' = r.brk /\ behind' = r.behind
        /\ tlb' = t2 /\ held' = held \union ({r.got} \ {NULL}) /\ scene' = scene
    BY <2>2, <2>3 DEF Outcome, t2
  <2>5. orphans' = orphans \union r.lost
    BY <2>3
  <2> QED BY <1>5, <2>3, <2>4, <2>5 DEF MemoryInv, sh
<1>7. CASE r.got # NULL
  <2> DEFINE pt == FirstFit(r.mem.taken, 1)
             a == NewTable(r.mem)
             stack == FirstFit(a.taken, 1)
             c == IF a.fault THEN a ELSE Furnished(Taken(a, 1), pt, stack, r.got)
             s == [r EXCEPT !.mem = c]
             got == r.got
             H2 == held \union {got}
  <2>1. Made(h, p, r, pt, stack, c)
    BY <1>1, <1>7 DEF WithObject, WithTable
  <2>2. /\ s.mem = c /\ s.freelist = r.freelist /\ s.brk = r.brk /\ s.tlb = r.tlb
        /\ s.behind = r.behind
    <3> HIDE DEF c
    <3> QED BY <1>3, AllocFields
  <2>3. MadeStep(h, p, r, pt, stack, c)
    <3> HIDE DEF c, pt, stack
    <3>1. /\ Outcome(h, s, held \union ({r.got} \ {NULL}), ~(r.got # NULL /\ ~c.fault))
          /\ proc' = [proc EXCEPT ![p] = IF c.fault THEN Remains(r.got) ELSE NewProcess(r.got, pt, stack)]
          /\ orphans' = IF c.fault THEN orphans \union r.lost \union (c.taken \ r.mem.taken) ELSE orphans
      <4> HIDE DEF s
      <4>1. Outcome(h, s, held \union ({r.got} \ {NULL}), ~(r.got # NULL /\ ~c.fault))
        BY <2>1 DEF Made, s
      <4>3. orphans' = IF c.fault THEN orphans \union r.lost \union (c.taken \ r.mem.taken) ELSE orphans
        BY <1>7, <2>1 DEF Made
      <4>2. proc' = [proc EXCEPT ![p] = IF c.fault THEN Remains(r.got) ELSE NewProcess(r.got, pt, stack)]
        BY <1>7, <2>1 DEF Made, NewProcess
      <4> QED BY <4>1, <4>2, <4>3
    <3>2. held \union ({r.got} \ {NULL}) = held \union {r.got}
      BY <1>7
    <3> HIDE DEF s
    <3> QED BY <2>2, <3>1, <3>2 DEF Outcome, MadeStep
  <2>4. /\ got \in Allocation /\ got \notin held /\ got.asked = ProcBytes /\ ~r.mem.fault /\ r.lost = {}
        /\ StateOK(r.freelist, H2, r.brk, r.mem, sh, orphans, t2, r.behind)
    <3>1. held \union ({r.got} \ {NULL}) = H2 /\ got = r.got
      BY <1>7
    <3> HIDE DEF H2, got
    <3>2. /\ got \in Allocation /\ got \notin held /\ got.asked = ProcBytes /\ ~r.mem.fault /\ r.lost = {}
      BY <1>4, <1>7, <3>1 DEF Obtained
    <3>3. orphans \union r.lost = orphans
      BY <3>2
    <3> QED BY <1>5, <3>1, <3>2, <3>3
  <2> DEFINE n == NewProcess(got, pt, stack)
             pr2 == [sh EXCEPT ![p] = n]
             m == r.mem
  <2>5. MadeOutcome(r.freelist, H2, r.brk, m, sh, orphans, t2, r.behind, c, pr2)
    <3>1. /\ pt = FirstFit(m.taken, 1) /\ stack = FirstFit(a.taken, 1) /\ a = NewTable(m)
          /\ c = (IF a.fault THEN a ELSE Furnished(Taken(a, 1), pt, stack, got))
          /\ pr2 = [sh EXCEPT ![p] = NewProcess(got, pt, stack)] /\ H2 = held \union {got}
      OBVIOUS
    <3>2. StateOK(r.freelist, held \union {got}, r.brk, m, sh, orphans, t2, r.behind) /\ ~m.fault
      BY <2>4
    <3> HIDE DEF pt, a, stack, c, pr2, H2, m, got, n
    <3>3. MadeOutcome(r.freelist, held \union {got}, r.brk, m, sh, orphans, t2, r.behind, c, pr2)
      BY <1>2, <2>4, <3>1, <3>2, ProcessMade
    <3> QED BY <3>1, <3>3
  <2>6. pt \in Int /\ stack \in Int
    BY FitIs, NoPageIs
  <2>7. n.state = "new" /\ Remains(got).state = "left"
    <3>1. n.state = "new"
      <4> HIDE DEF pt, stack, got
      <4> QED BY <2>4, <2>6, NewProcessIs
    <3> QED BY <3>1 DEF Remains, None
  <2> HIDE DEF c, pt, stack, H2, n, m, a
  <2>8. CASE c.fault
    <3>1. StateOK(r.freelist, H2, r.brk, c, sh, orphans \union (c.taken \ m.taken), t2, r.behind)
      BY <2>5, <2>8 DEF MadeOutcome
    <3>2. proc' = [proc EXCEPT ![p] = Remains(got)] /\ orphans' = orphans \union (c.taken \ m.taken)
      BY <2>3, <2>4, <2>8 DEF MadeStep, m
    <3>3. IsMap(proc') /\ Shape(proc') = [sh EXCEPT ![p] = None]
      <4> DEFINE u == Remains(got)
      <4>1. None = (IF u.state \in {"none", "left"} THEN None ELSE u)
        BY <2>7
      <4>2. proc' = [proc EXCEPT ![p] = u]
        BY <3>2
      <4> HIDE DEF u
      <4> QED BY <4>1, <4>2, ShapeChanges DEF sh
    <3>4. [sh EXCEPT ![p] = None] = sh
      BY <1>2
    <3> QED BY <2>3, <3>1, <3>2, <3>3, <3>4 DEF MadeStep, MemoryInv, t2, H2
  <2>9. CASE ~c.fault
    <3>1. StateOK(r.freelist, H2, r.brk, c, pr2, orphans, t2, r.behind)
      BY <2>5, <2>9 DEF MadeOutcome
    <3>2. proc' = [proc EXCEPT ![p] = n] /\ orphans' = orphans
      BY <2>3, <2>9 DEF MadeStep, n
    <3>3. IsMap(proc') /\ Shape(proc') = pr2
      BY <2>7, <3>2, ShapeChanges DEF sh
    <3> QED BY <2>3, <3>1, <3>2, <3>3 DEF MadeStep, MemoryInv, t2, H2
  <2> QED BY <2>8, <2>9
<1> QED BY <1>6, <1>7

\* A process whose file is refused, or whose loading does not end, keeps what it has.
SoundRenamed(m, top, pr, orp, p, pr2) ==
    /\ Sound(m, top, pr2, orp) /\ pr2 \in [Procs -> Process]
    /\ pr2[p].object = pr[p].object /\ pr2[p].ptable = pr[p].ptable /\ pr2[p].stack = pr[p].stack
    /\ pr2[p].pages = pr[p].pages /\ pr2[p].image = pr[p].image
    /\ \A q \in Procs : q # p => pr2[q] = pr[q]
Put(r, st) == [r EXCEPT !.state = st]
PutAs(r, st, s) == /\ s \in Process /\ s.state = st /\ s.object = r.object /\ s.ptable = r.ptable
                   /\ s.stack = r.stack /\ s.image = r.image /\ s.pages = r.pages
PutAt(pr, p, st, pr2) == /\ pr2 \in [Procs -> Process] /\ PutAs(pr[p], st, pr2[p])
                         /\ \A q \in Procs : q # p => pr2[q] = pr[q]
\* The fields of a process that does not go on.
LEMMA PutIs ==
    ASSUME NEW r \in Process, NEW st \in {"refused", "stuck"}
    PROVE  PutAs(r, st, Put(r, st))
  BY DEF Put, PutAs, Process
\* The state of a process is not what it owns.
LEMMA Renamed ==
    ASSUME NEW m, NEW top, NEW pr \in [Procs -> Process], NEW orp, Sound(m, top, pr, orp),
           NEW p \in Procs, pr[p].state = "new", NEW st, st # "none", st # "loaded",
           NEW pr2, PutAt(pr, p, st, pr2)
    PROVE  SoundRenamed(m, top, pr, orp, p, pr2) /\ pr2[p].state = st
<1>1. /\ pr2 \in [Procs -> Process] /\ pr2[p].state = st /\ pr2[p].object = pr[p].object
      /\ pr2[p].ptable = pr[p].ptable /\ pr2[p].stack = pr[p].stack /\ pr2[p].image = pr[p].image
      /\ pr2[p].pages = pr[p].pages /\ \A q \in Procs : q # p => pr2[q] = pr[q]
  BY DEF PutAs, PutAt
<1>2. st # "none" /\ st # "loaded"
  OBVIOUS
<1>3. Interior(pr2) = Interior(pr)
  <2>1. \A q \in Procs : pr2[q].state = "loaded" <=> pr[q].state = "loaded"
    BY <1>1, <1>2
  <2>2. \A q \in Procs : pr2[q].image = pr[q].image /\ pr2[q].pages = pr[q].pages
    BY <1>1
  <2> QED BY <2>1, <2>2 DEF Interior
<1>4. Partition(Holding(m, top, pr2, orp), m.taken)
  <2>1. \A q \in Procs : (pr2[q].state = "none" <=> pr[q].state = "none")
                         /\ pr2[q].ptable = pr[q].ptable /\ pr2[q].stack = pr[q].stack
                         /\ ImageOf(pr2[q]) = ImageOf(pr[q])
    BY <1>1, <1>2 DEF ImageOf
  <2> DEFINE A == Holding(m, top, pr2, orp)
             B == Holding(m, top, pr, orp)
  <2>2. HoldsAs(A, m, top, pr2, orp) /\ HoldsAs(B, m, top, pr, orp)
    BY HoldingIs
  <2>3. Partition(B, m.taken)
    BY DEF Sound
  <2> HIDE DEF A, B
  <2>4. ASSUME NEW o \in Owners PROVE A[o] = B[o]
    <3>1. CASE o \in {oBook, oTrap, oKernel, oOrphan}
      BY <2>2, <3>1 DEF HoldsAs
    <3>2. ASSUME NEW k \in HeapPages PROVE A[oHeap(k)] = B[oHeap(k)]
      <4>1. A[oHeap(k)] = IF k < top THEN {HeapPage(m, k)} ELSE {}
        BY <2>2 DEF HoldsAs
      <4>2. B[oHeap(k)] = IF k < top THEN {HeapPage(m, k)} ELSE {}
        BY <2>2 DEF HoldsAs
      <4> QED BY <4>1, <4>2
    <3>3. ASSUME NEW q \in Procs PROVE /\ A[oTables(q)] = B[oTables(q)] /\ A[oStack(q)] = B[oStack(q)]
                                      /\ A[oImage(q)] = B[oImage(q)]
      <4>1. /\ A[oTables(q)] = IF pr2[q].state = "none" THEN {} ELSE TablesOf(m, pr2[q].ptable)
            /\ A[oStack(q)] = IF pr2[q].state = "none" THEN {} ELSE {pr2[q].stack}
            /\ A[oImage(q)] = ImageOf(pr2[q])
        BY <2>2 DEF HoldsAs
      <4>2. /\ B[oTables(q)] = IF pr[q].state = "none" THEN {} ELSE TablesOf(m, pr[q].ptable)
            /\ B[oStack(q)] = IF pr[q].state = "none" THEN {} ELSE {pr[q].stack}
            /\ B[oImage(q)] = ImageOf(pr[q])
        BY <2>2 DEF HoldsAs
      <4> QED BY <2>1, <4>1, <4>2
    <3> QED BY <3>1, <3>2, <3>3, OwnersAre
  <2>5. Partition(A, m.taken)
    BY <2>3, <2>4 DEF Partition
  <2> QED BY <2>5 DEF A
<1>5. \A q \in Procs : pr2[q].state # "none" => Tree(m, pr2[q].ptable)
  BY <1>1 DEF Sound
<1>6. Sound(m, top, pr2, orp)
  BY <1>3, <1>4, <1>5 DEF Sound
<1> QED BY <1>1, <1>6 DEF SoundRenamed

\* A process that is refused or stuck is held as it was.
LEMMA RenamedHeld ==
    ASSUME NEW m, NEW top, NEW pr, NEW orp, NEW p \in Procs, NEW pr2, SoundRenamed(m, top, pr, orp, p, pr2),
           pr[p].state = "new", pr2[p].state \in {"refused", "stuck"}, NEW H, ProcsOK(pr, H)
    PROVE  ProcsOK(pr2, H)
<1>1. /\ pr2 \in [Procs -> Process] /\ pr2[p].object = pr[p].object /\ pr2[p].pages = pr[p].pages
      /\ \A q \in Procs : q # p => pr2[q] = pr[q]
  BY DEF SoundRenamed
<1>2. pr2[p].state # "none" /\ pr2[p].state # "loaded" /\ pr[p].state # "none" /\ pr[p].state # "loaded"
  OBVIOUS
<1> QED BY <1>1, <1>2 DEF ProcsOK

\* A process that still holds what is its own is in the shape of the table as it is.
LEMMA ShapeKept ==
    ASSUME MemoryInv, NEW p \in Procs, NEW r, r.state # "none", r.state # "left",
           NEW pr2, pr2 = [proc EXCEPT ![p] = r], NEW sh2, sh2 = [Shape(proc) EXCEPT ![p] = r]
    PROVE  IsMap(pr2) /\ Shape(pr2) = sh2
<1>1. r = (IF r.state \in {"none", "left"} THEN None ELSE r)
  OBVIOUS
<1> QED BY <1>1, ShapeChanges

\* A step that only puts the state of a process to one in which it does not go on.
LEMMA RenamedStep ==
    ASSUME MemoryInv, NEW p \in Procs, proc[p].state = "new", NEW st \in {"refused", "stuck"},
           NEW r, r = Put(proc[p], st), proc' = [proc EXCEPT ![p] = r],
           UNCHANGED <<mem, freelist, brk, held, tlb, scene, behind, orphans>>
    PROVE  MemoryInv'
<1> DEFINE sh == Shape(proc)
           pr2 == [sh EXCEPT ![p] = r]
           top == brk \div PAGE_SIZE
<1>1. /\ StateOK(freelist, held, brk, mem, sh, orphans, tlb, behind)
      /\ Sound(mem, top, sh, orphans) /\ ProcsOK(sh, held) /\ AllSee(mem, sh)
      /\ sh \in [Procs -> Process] /\ scene \in Scenes
  BY DEF MemoryInv, StateOK, ProcsOK
<1>2. sh[p] = proc[p] /\ sh[p].state = "new"
  BY ShapeIs
<1>3. IsMap(proc') /\ Shape(proc') = pr2
  <2>1. r.state = st
    BY <1>1, <1>2, PutIs DEF PutAs
  <2>2. proc' = [proc EXCEPT ![p] = r]
    OBVIOUS
  <2>3. r.state # "none" /\ r.state # "left" /\ pr2 = [Shape(proc) EXCEPT ![p] = r]
    BY <2>1
  <2> HIDE DEF sh, pr2
  <2> QED BY <2>2, <2>3, ShapeKept
<1>8. PutAs(sh[p], st, r)
  BY <1>1, <1>2, PutIs
<1> HIDE DEF sh, top
<1>4. SoundRenamed(mem, top, sh, orphans, p, pr2) /\ pr2[p].state = st
  <2>1. r \in Process
    BY <1>8 DEF PutAs
  <2>2. PutAt(sh, p, st, pr2)
    BY <1>1, <1>8, <2>1 DEF PutAt
  <2>3. st # "none" /\ st # "loaded"
    OBVIOUS
  <2> HIDE DEF pr2
  <2> QED BY <1>1, <1>2, <2>2, <2>3, Renamed
<1> HIDE DEF pr2
<1>5. ProcsOK(pr2, held)
  BY <1>1, <1>2, <1>4, RenamedHeld
<1>6. OnlyChanges(mem, sh, p, mem, pr2)
  <2>1. Sees(mem, sh[p])
    BY <1>1, <1>2 DEF AllSee
  <2>2. Sees(mem, pr2[p])
    BY <1>4, <2>1 DEF Sees, SoundRenamed
  <2>3. \A q \in Procs : sh[q].state # "none" => SameTree(mem, mem, sh[q].ptable)
    BY <1>1 DEF SameTree, Sound
  <2> QED BY <1>4, <2>2, <2>3 DEF OnlyChanges, SoundRenamed
<1>7. StateOK(freelist, held, brk, mem, pr2, orphans, tlb, behind)
  BY <1>1, <1>4, <1>5, <1>6, ProcessChanges DEF top, SoundRenamed
<1> QED BY <1>1, <1>3, <1>7 DEF MemoryInv

\* elf_load and the idle processes' image, when there are pages for the image.
LEMMA LoadedStep ==
    ASSUME MemoryInv, NEW h, NEW p \in Procs, proc[p].state = "new", NEW n \in Sizes, NEW image,
           image = FirstFit(mem.taken, n), image # NoPage,
           NEW c, c = mmu_map_multiple(Taken(mem, n), proc[p].ptable, ImageV, image, n),
           Loaded(h, p, n, image, c), UNCHANGED <<freelist, brk, held, tlb, scene, behind>>
    PROVE  MemoryInv'
<1> DEFINE sh == Shape(proc)
           top == brk \div PAGE_SIZE
           X == image .. image + Need(n) - 1
           pr2 == [sh EXCEPT ![p] = LoadedAs(sh[p], image, n)]
           r3 == Put(sh[p], "stuck")
           pr3 == [sh EXCEPT ![p] = r3]
<1>1. /\ StateOK(freelist, held, brk, mem, sh, orphans, tlb, behind)
      /\ HeapWF(freelist, held, brk) /\ brk = top * PAGE_SIZE /\ Sound(mem, top, sh, orphans)
      /\ ProcsOK(sh, held) /\ AllSee(mem, sh) /\ sh \in [Procs -> Process] /\ scene \in Scenes
  BY DEF MemoryInv, StateOK, ProcsOK
<1>2. sh[p] = proc[p] /\ sh[p].state = "new"
  BY ShapeIs
<1> HIDE DEF sh, top
<1>3. mem \in Memory /\ top \in Nat /\ top <= MaxHeapPages /\ image \in Int /\ n \in Nat
  BY <1>1, SoundSizes, FitIs, NoPageIs, SizesAssumption
<1>4. Frames(sh, top)
  BY <1>1, <1>3, FramesIn
<1>5. PICK k \in HeapPages : k < top /\ FrameV(sh[p].object) = HeapStart + k
  BY <1>2, <1>4 DEF Frames
<1>6. sh[p].pages = 0 /\ Sees(mem, sh[p])
  BY <1>1, <1>2 DEF ProcsOK, AllSee
<1>7. LoadOutcome(mem, top, sh, orphans, p, X, c, pr2)
  <2>1. c = mmu_map_multiple(Taken(mem, n), sh[p].ptable, ImageV, image, n)
    BY <1>2
  <2>2. pr2 = [sh EXCEPT ![p] = LoadedAs(sh[p], image, n)]
    OBVIOUS
  <2> HIDE DEF pr2
  <2> QED BY <1>1, <1>2, <1>5, <1>6, <2>1, <2>2, LoadSound
<1> HIDE DEF X
<1>8. CASE c.fault
  <2> DEFINE r == Put(proc[p], "stuck")
             orp2 == orphans \union X
  <2>1. /\ mem' = c /\ proc' = [proc EXCEPT ![p].state = "stuck"] /\ orphans' = orp2
    BY <1>8 DEF Loaded, X
  <2>2. /\ Sound(c, top, sh, orp2) /\ \A k_1 \in HeapPages : HeapPage(c, k_1) = HeapPage(mem, k_1)
        /\ \A q \in Procs : q # p /\ sh[q].state # "none" => SameTree(mem, c, sh[q].ptable)
    BY <1>7, <1>8 DEF LoadOutcome
  <2>3. /\ IsMap(proc') /\ Shape(proc') = pr3
    <3>1. r.state = "stuck" /\ r = r3
      BY <1>1, <1>2, PutIs DEF PutAs
    <3>2. proc' = [proc EXCEPT ![p] = r]
      BY <2>1 DEF Put
    <3> HIDE DEF r
    <3>3. r = IF r.state \in {"none", "left"} THEN None ELSE r
      BY <3>1
    <3>4. IsMap(proc') /\ Shape(proc') = [sh EXCEPT ![p] = r]
      BY <3>2, <3>3, ShapeChanges DEF sh
    <3> QED BY <3>1, <3>4
  <2> HIDE DEF orp2, pr3
  <2>4. SoundRenamed(c, top, sh, orp2, p, pr3) /\ pr3[p].state = "stuck"
    <3> DEFINE st == "stuck"
    <3>1. st \in {"refused", "stuck"} /\ PutAs(sh[p], st, r3)
      BY <1>1, PutIs
    <3> HIDE DEF st, r3
    <3>3. r3 \in Process
      BY <3>1 DEF PutAs
    <3>4. PutAt(sh, p, st, pr3)
      BY <1>1, <3>1, <3>3 DEF pr3, PutAt
    <3>5. st # "none" /\ st # "loaded"
      BY <3>1
    <3>2. SoundRenamed(c, top, sh, orp2, p, pr3) /\ pr3[p].state = st
      BY <1>1, <1>2, <2>2, <3>4, <3>5, Renamed
    <3> QED BY <3>2 DEF st
  <2>5. ProcsOK(pr3, held)
    BY <1>1, <1>2, <2>4, RenamedHeld
  <2>6. OnlyChanges(mem, sh, p, c, pr3)
    BY <2>2, <2>4 DEF OnlyChanges, SoundRenamed
  <2>7. StateOK(freelist, held, brk, c, pr3, orp2, tlb, behind)
    BY <1>1, <2>4, <2>5, <2>6, ProcessChanges DEF top, SoundRenamed
  <2> QED BY <1>1, <2>1, <2>3, <2>7 DEF MemoryInv
<1>9. CASE ~c.fault
  <2> DEFINE r == LoadedAs(proc[p], image, n)
  <2>1. /\ mem' = c /\ orphans' = orphans
        /\ proc' = [proc EXCEPT ![p].state = "loaded", ![p].image = image, ![p].pages = n]
    BY <1>9 DEF Loaded
  <2>2. proc' = [proc EXCEPT ![p] = r]
    <3>1. proc = [q \in Procs |-> proc[q]]
      BY DEF MemoryInv, IsMap
    <3> QED BY <2>1, <3>1 DEF LoadedAs
  <2>3. /\ Sound(c, top, pr2, orphans) /\ Sees(c, pr2[p]) /\ pr2 \in [Procs -> Process]
        /\ \A j \in HeapPages : HeapPage(c, j) = HeapPage(mem, j)
        /\ \A q \in Procs : q # p =>
              pr2[q] = sh[q] /\ (sh[q].state # "none" => SameTree(mem, c, sh[q].ptable))
    BY <1>7, <1>9 DEF LoadOutcome, GiveOutcome
  <2>4. OnlyChanges(mem, sh, p, c, pr2)
    BY <2>3 DEF OnlyChanges
  <2>5. /\ pr2[p].state = "loaded" /\ pr2[p].object = sh[p].object /\ pr2[p].pages = n
        /\ r.state = "loaded" /\ r = LoadedAs(sh[p], image, n)
    BY <1>1, <1>2, <1>3, LoadedIs
  <2>6. /\ IsMap(proc') /\ Shape(proc') = pr2
    <3>1. r.state = "loaded"
      BY <2>5
    <3> HIDE DEF r
    <3>2. r = IF r.state \in {"none", "left"} THEN None ELSE r
      BY <3>1
    <3>3. IsMap(proc') /\ Shape(proc') = [sh EXCEPT ![p] = r]
      BY <2>2, <3>2, ShapeChanges DEF sh
    <3> QED BY <2>5, <3>3
  <2> HIDE DEF pr2
  <2>7. ProcsOK(pr2, held)
    BY <1>1, <1>2, <2>3, <2>5 DEF ProcsOK
  <2>8. StateOK(freelist, held, brk, c, pr2, orphans, tlb, behind)
    BY <1>1, <2>3, <2>4, <2>7, ProcessChanges DEF top
  <2> QED BY <1>1, <2>1, <2>6, <2>8 DEF MemoryInv
<1> QED BY <1>8, <1>9

\* elf_load and the idle processes' image.
LEMMA LoadStep ==
    ASSUME MemoryInv, NEW h \in Harts, NEW p \in Procs, NEW n \in Sizes, elf_load(h, p, n)
    PROVE  MemoryInv'
<1> DEFINE image == FirstFit(mem.taken, n)
           c == mmu_map_multiple(Taken(mem, n), proc[p].ptable, ImageV, image, n)
<1>1. /\ proc[p].state = "new" /\ UNCHANGED <<freelist, brk, held, tlb, scene, behind>>
      /\ Loaded(h, p, n, image, IF image = NoPage THEN mem ELSE c)
  BY DEF elf_load
<1> HIDE DEF c, image
<1>2. CASE image = NoPage
  <2>1. /\ mem' = mem /\ proc' = [proc EXCEPT ![p].state = "stuck"] /\ orphans' = orphans
    BY <1>1, <1>2 DEF Loaded
  <2> DEFINE st == "stuck"
  <2>2. st \in {"refused", "stuck"} /\ proc' = [proc EXCEPT ![p] = Put(proc[p], st)]
    BY <2>1 DEF Put
  <2> HIDE DEF st
  <2> QED BY <1>1, <2>1, <2>2, RenamedStep
<1>3. CASE image # NoPage
  <2>1. Loaded(h, p, n, image, c)
    BY <1>1, <1>3
  <2>2. image = FirstFit(mem.taken, n)
        /\ c = mmu_map_multiple(Taken(mem, n), proc[p].ptable, ImageV, image, n)
    BY DEF image, c
  <2> QED BY <1>1, <1>3, <2>1, <2>2, LoadedStep
<1> QED BY <1>2, <1>3

\* A process whose file is refused.
LEMMA RefusedStep ==
    ASSUME MemoryInv, NEW p \in Procs, elf_refused(p)
    PROVE  MemoryInv'
<1> DEFINE st == "refused"
<1>1. /\ proc[p].state = "new" /\ st \in {"refused", "stuck"}
      /\ proc' = [proc EXCEPT ![p] = Put(proc[p], st)]
      /\ UNCHANGED <<mem, freelist, brk, held, tlb, scene, behind, orphans>>
  BY DEF elf_refused, heapvars, Put
<1> HIDE DEF st
<1> QED BY <1>1, RenamedStep

\* process_free.
LEMMA FreeProcessStep ==
    ASSUME MemoryInv, NEW h \in Harts, NEW p \in Procs, process_free(h, p)
    PROVE  MemoryInv'
<1> DEFINE m == FreedPages(mem, proc[p])
           a == proc[p].object
           r == kfree(h, m, a)
           sh == Shape(proc)
           pr2 == [sh EXCEPT ![p] = None]
           orp2 == orphans \union (TablesOf(mem, sh[p].ptable) \ {sh[p].ptable})
           top == brk \div PAGE_SIZE
<1>1. sh[p] = proc[p] /\ proc[p].state = "loaded" /\ sh[p].state = "loaded"
  BY ShapeIs DEF process_free
<1>2. orphans' = orp2
  BY <1>1 DEF process_free
<1>3. \/ Freeing(h, r, a) /\ proc' = [proc EXCEPT ![p] = None]
      \/ /\ mem' = m /\ proc' = [proc EXCEPT ![p] = Remains(a)]
         /\ UNCHANGED <<freelist, brk, held, tlb, scene, behind>>
  BY DEF process_free, FreedWith, StopsAtLock
<1>4. /\ StateOK(freelist, held, brk, mem, sh, orphans, tlb, behind)
      /\ HeapWF(freelist, held, brk) /\ brk = top * PAGE_SIZE /\ Sound(mem, top, sh, orphans)
      /\ ProcsOK(sh, held) /\ AllSee(mem, sh) /\ sh \in [Procs -> Process] /\ scene \in Scenes
  BY DEF MemoryInv, StateOK, ProcsOK
<1>5. m = FreedPages(mem, sh[p]) /\ pr2 = [sh EXCEPT ![p] = None] /\ r = kfree(h, m, a)
  BY <1>1
<1>6. a = sh[p].object /\ None.state = "none" /\ Remains(a).state = "left"
  BY <1>1, NoneIs DEF Remains, None
<1> HIDE DEF m, a, r, pr2, top, sh
<1>7. FreedOutcome(mem, top, sh, orphans, p, m, pr2)
  BY <1>1, <1>4, <1>5, FreePagesSound
<1>8. /\ Sound(m, top, pr2, orp2) /\ pr2 \in [Procs -> Process] /\ pr2[p] = None
      /\ \A q \in Procs : q # p => pr2[q] = sh[q]
      /\ SameTrees(mem, m, pr2) /\ \A k \in HeapPages : HeapPage(m, k) = HeapPage(mem, k)
  BY <1>7 DEF FreedOutcome
<1> HIDE DEF orp2
<1>9. ProcsOK(pr2, held) /\ ProcsOK(pr2, held \ {a})
  BY <1>1, <1>4, <1>6, <1>8, NoneIs DEF ProcsOK
<1>10. AllSee(mem, pr2)
  BY <1>4, <1>8, NoneIs DEF AllSee
<1>11. AllSee(m, pr2)
  <2>1. top \in Nat /\ top <= MaxHeapPages
    BY <1>4, SoundSizes
  <2>2. Frames(sh, top)
    BY <1>4, <2>1, FramesIn
  <2>3. Frames(pr2, top)
    BY <1>8, <2>2, NoneIs DEF Frames
  <2> QED BY <1>8, <1>10, <2>3, AllSeeKept
<1>12. a \in held
  BY <1>1, <1>4, <1>6 DEF ProcsOK
<1>13. CASE Freeing(h, r, a) /\ proc' = [proc EXCEPT ![p] = None]
  <2>1. Released(h, a, r, pr2, orp2)
    BY <1>5, <1>8, <1>9, <1>11, <1>12, FreeState DEF top
  <2>2. /\ mem' = r.mem /\ freelist' = r.freelist /\ brk' = r.brk /\ held' = held \ {a}
        /\ tlb' = [tlb EXCEPT ![h] = r.tlb] /\ behind' = r.behind /\ scene' = scene
    BY <1>13 DEF Freeing, Outcome
  <2>3. IsMap(proc') /\ Shape(proc') = pr2
    BY <1>5, <1>6, <1>13, ShapeChanges DEF sh
  <2> QED BY <1>2, <1>4, <2>1, <2>2, <2>3 DEF Released, MemoryInv
<1>14. CASE /\ mem' = m /\ proc' = [proc EXCEPT ![p] = Remains(a)]
            /\ UNCHANGED <<freelist, brk, held, tlb, scene, behind>>
  <2>1. StateOK(freelist, held, brk, m, pr2, orp2, tlb, behind)
    BY <1>4, <1>8, <1>9, <1>11, MemoryChanges DEF top
  <2>2. IsMap(proc') /\ Shape(proc') = pr2
    BY <1>5, <1>6, <1>14, ShapeChanges DEF sh
  <2> QED BY <1>2, <1>4, <1>14, <2>1, <2>2 DEF MemoryInv
<1> QED BY <1>3, <1>13, <1>14
----------------------------------------------------------------------------
(* The theorems *)

\* Every step of the specification keeps the inductive invariant.
LEMMA NextMemory ==
    ASSUME MemoryInv, [Next]_vars
    PROVE  MemoryInv'
<1>1. ASSUME NEW h \in scene.harts, NEW r \in scene.requests, HeapAlloc(h, r[1], r[2])
      PROVE  MemoryInv'
  <2>1. h \in Harts /\ r[1] \in Nat /\ r[2] \in BOOLEAN
    BY SceneIs
  <2> QED BY <1>1, <2>1, HeapAllocStep
<1>2. ASSUME NEW h \in scene.harts, NEW a \in held, HeapFree(h, a)
      PROVE  MemoryInv'
  BY <1>2, SceneIs, HeapFreeStep
<1>3. ASSUME NEW h \in scene.harts, NEW p \in scene.procs, process_init_new(h, p)
      PROVE  MemoryInv'
  BY <1>3, SceneIs, NewProcessStep
<1>4. ASSUME NEW h \in scene.harts, NEW p \in scene.procs, process_free(h, p)
      PROVE  MemoryInv'
  BY <1>4, SceneIs, FreeProcessStep
<1>5. ASSUME NEW p \in Procs, elf_refused(p)
      PROVE  MemoryInv'
  BY <1>5, RefusedStep
<1>6. ASSUME NEW h \in scene.harts, NEW p \in Procs, NEW n \in Sizes, elf_load(h, p, n)
      PROVE  MemoryInv'
  BY <1>6, SceneIs, LoadStep
<1>7. ASSUME UNCHANGED <<mem, freelist, brk, held, tlb, scene, behind, proc, orphans>>
      PROVE  MemoryInv'
  BY <1>7 DEF MemoryInv
<1>8. CASE UNCHANGED vars \/ Spin \/ HeapFreeNull
  BY <1>7, <1>8 DEF HeapFreeNull, FreeNull, Spin, vars, heapvars
<1> QED BY <1>1, <1>2, <1>3, <1>4, <1>5, <1>6, <1>8 DEF Next

\* Heap, page tables, processes, page allocator and TLBs are in order together in
\* every reachable state, whatever the requests, the harts and the processes are.
THEOREM MemoryInvariant == Spec => []MemoryInv
<1>1. Init => MemoryInv
  BY InitMemory
<1>2. MemoryInv /\ [Next]_vars => MemoryInv'
  BY NextMemory
<1> QED BY <1>1, <1>2, PTL DEF Spec

\* kmalloc.c: the head, the free nodes and the allocations tile the heap.
THEOREM HeapTiledAlways == Spec => []HeapTiled
<1>1. MemoryInv => HeapTiled
  BY TiledFromWF DEF MemoryInv, StateOK, HeapOK
<1> QED BY <1>1, MemoryInvariant, PTL

\* kcalloc's memory is on physical pages that follow each other.
THEOREM ContiguousAlways == Spec => []ContiguousForDevices
<1>1. MemoryInv => ContiguousForDevices
  BY DEF MemoryInv, StateOK, Contiguous, ContiguousForDevices
<1> QED BY <1>1, MemoryInvariant, PTL

\* A process reaches its own stack, image, frame and the trampoline, and nothing else.
THEOREM SeesOwnPagesAlways == Spec => []ProcessSeesOwnPages
<1>1. MemoryInv => ProcessSeesOwnPages
  <2> SUFFICES ASSUME MemoryInv, NEW p \in Live, proc[p].state # "stuck"
               PROVE  Sees(mem, proc[p])
    BY DEF ProcessSeesOwnPages, Sees
  <2>1. p \in Procs /\ proc[p].state \notin {"none", "left", "stuck"}
    BY DEF Live
  <2>2. Shape(proc)[p] = proc[p]
    BY <2>1, ShapeIs
  <2> QED BY <2>1, <2>2 DEF MemoryInv, StateOK, AllSee
<1> QED BY <1>1, MemoryInvariant, PTL

\* A hart that is not behind has no stale translation of a heap page.
THEOREM TlbSoundAlways == Spec => []TlbSound
<1>1. MemoryInv => TlbSound
  BY DEF MemoryInv, StateOK, TlbOK, TlbSound
<1> QED BY <1>1, MemoryInvariant, PTL

\* The owners that stand behind a share of PagesOwned.
ShareOwners(i) ==
    CASE i = 1 -> {oBook} [] i = 2 -> {oTrap} [] i = 3 -> {oKernel}
      [] i = 4 -> {oHeap(k) : k \in HeapPages} [] i = 5 -> {oOrphan}
\* No owner stands behind two shares, and no process behind any.
LEMMA ShareOwnersDiffer ==
    ASSUME NEW i \in 1 .. 5
    PROVE  /\ ShareOwners(i) \subseteq Owners
           /\ \A j \in 1 .. 5 : i # j => ShareOwners(i) \cap ShareOwners(j) = {}
           /\ \A p : /\ oTables(p) \notin ShareOwners(i) /\ oStack(p) \notin ShareOwners(i)
                     /\ oImage(p) \notin ShareOwners(i)
<1>1. /\ ShareOwners(1) = {oBook} /\ ShareOwners(2) = {oTrap} /\ ShareOwners(3) = {oKernel}
      /\ ShareOwners(4) = {oHeap(k) : k \in HeapPages} /\ ShareOwners(5) = {oOrphan}
  BY DEF ShareOwners
<1>2. i = 1 \/ i = 2 \/ i = 3 \/ i = 4 \/ i = 5
  OBVIOUS
<1>3. ShareOwners(i) \subseteq Owners
  BY <1>1, <1>2, OwnersAre
<1>4. ASSUME NEW j \in 1 .. 5, i # j
      PROVE  ShareOwners(i) \cap ShareOwners(j) = {}
  <2>1. j = 1 \/ j = 2 \/ j = 3 \/ j = 4 \/ j = 5
    OBVIOUS
  <2>2. \A o \in {oBook, oTrap, oKernel, oOrphan} : o \notin ShareOwners(4)
    BY <1>1, OwnersDiffer
  <2> QED BY <1>1, <1>2, <1>4, <2>1, <2>2, OwnersDiffer
<1>5. ASSUME NEW p
      PROVE  /\ oTables(p) \notin ShareOwners(i) /\ oStack(p) \notin ShareOwners(i)
             /\ oImage(p) \notin ShareOwners(i)
  BY <1>1, <1>2, OwnersDiffer
<1> QED BY <1>3, <1>4, <1>5

\* What the owners of the invariant hold is what PagesOwned speaks of.
SharesOf(H) ==
    /\ \A i \in 1 .. 5 : \A x : x \in Shares[i] <=> \E o \in ShareOwners(i) : x \in H[o]
    /\ \A p \in Live : /\ TablesOf(mem, proc[p].ptable) = H[oTables(p)]
                       /\ {proc[p].stack} = H[oStack(p)] /\ ImagePages(p) = H[oImage(p)]
    /\ \A p \in Procs \ Live : H[oTables(p)] = {} /\ H[oStack(p)] = {} /\ H[oImage(p)] = {}
\* The shares of PagesOwned are what their owners hold.
LEMMA SharesAre ==
    ASSUME MemoryInv, NEW H, H = Holding(mem, brk \div PAGE_SIZE, Shape(proc), orphans)
    PROVE  SharesOf(H)
<1> DEFINE top == brk \div PAGE_SIZE
           sh == Shape(proc)
<1>1. HoldsAs(H, mem, top, sh, orphans)
  BY HoldingIs
<1>2. Sound(mem, top, sh, orphans) /\ sh \in [Procs -> Process]
  BY DEF MemoryInv, StateOK, ProcsOK
<1>3. Partition(H, mem.taken) /\ mem.taken \subseteq Pages /\ top \in Nat /\ top <= MaxHeapPages
      /\ MaxHeapPages \in Nat
  <2>1. MemOK(mem) /\ mem \in Memory
    BY <1>2, SoundSizes
  <2> QED BY <1>2, <2>1, SoundSizes DEF Sound, Memory
<1>4. /\ ShareOwners(1) = {oBook} /\ ShareOwners(2) = {oTrap} /\ ShareOwners(3) = {oKernel}
      /\ ShareOwners(4) = {oHeap(k) : k \in HeapPages} /\ ShareOwners(5) = {oOrphan}
  BY DEF ShareOwners
<1>5. /\ Shares[1] = 0 .. BkPages - 1 /\ Shares[2] = trap_stacks
      /\ Shares[3] = TablesOf(mem, kernel_mmu_table)
      /\ Shares[4] = {HeapPage(mem, k) : k \in 0 .. top - 1} /\ Shares[5] = orphans
  BY DEF Shares
<1>11. ASSUME NEW p \in Procs
       PROVE  /\ p \in Live <=> sh[p].state # "none"
              /\ p \in Live => sh[p] = proc[p]
  BY ShapeIs DEF Live
<1> HIDE DEF top, sh
<1>6. \A x : x \in Shares[4] <=> \E o \in ShareOwners(4) : x \in H[o]
  <2>1. \A k \in HeapPages : k < top <=> k \in 0 .. top - 1
    BY <1>3 DEF HeapPages
  <2>2. 0 .. top - 1 \subseteq HeapPages
    BY <1>3 DEF HeapPages
  <2>3. \A k \in HeapPages : H[oHeap(k)] = IF k < top THEN {HeapPage(mem, k)} ELSE {}
    BY <1>1 DEF HoldsAs
  <2>4. ASSUME NEW x, x \in Shares[4] PROVE \E o \in ShareOwners(4) : x \in H[o]
    <3>1. PICK k \in 0 .. top - 1 : x = HeapPage(mem, k)
      BY <1>5, <2>4
    <3>2. x \in H[oHeap(k)] /\ oHeap(k) \in ShareOwners(4)
      BY <1>4, <2>1, <2>2, <2>3, <3>1
    <3> QED BY <3>2
  <2>5. ASSUME NEW x, NEW o \in ShareOwners(4), x \in H[o] PROVE x \in Shares[4]
    <3>1. PICK k \in HeapPages : o = oHeap(k)
      BY <1>4, <2>5
    <3>2. k < top /\ x = HeapPage(mem, k)
      <4>1. x \in (IF k < top THEN {HeapPage(mem, k)} ELSE {})
        BY <2>3, <2>5, <3>1
      <4> QED BY <4>1
    <3> QED BY <1>5, <2>1, <3>2
  <2> QED BY <2>4, <2>5
<1>7. ASSUME NEW i \in 1 .. 5
      PROVE  \A x : x \in Shares[i] <=> \E o \in ShareOwners(i) : x \in H[o]
  <2>1. i = 1 \/ i = 2 \/ i = 3 \/ i = 4 \/ i = 5
    OBVIOUS
  <2>2. H[oBook] = Shares[1] /\ H[oTrap] = Shares[2] /\ H[oKernel] = Shares[3] /\ H[oOrphan] = Shares[5]
    BY <1>1, <1>5 DEF HoldsAs
  <2> QED BY <1>4, <1>6, <2>1, <2>2
<1>8. ASSUME NEW p \in Procs
      PROVE  /\ H[oTables(p)] = IF sh[p].state = "none" THEN {} ELSE TablesOf(mem, sh[p].ptable)
             /\ H[oStack(p)] = IF sh[p].state = "none" THEN {} ELSE {sh[p].stack}
             /\ H[oImage(p)] = ImageOf(sh[p])
  BY <1>1 DEF HoldsAs
<1>9. ASSUME NEW p \in Live
      PROVE  ImagePages(p) = ImageOf(sh[p]) /\ p \in Procs
  <2>1. p \in Procs /\ sh[p] = proc[p]
    BY <1>11 DEF Live
  <2>2. ImageOf(proc[p]) \subseteq Pages
    <3>1. oImage(p) \in Owners
      BY <2>1, OwnersAre
    <3>2. H[oImage(p)] \subseteq mem.taken
      BY <1>3, <3>1 DEF Partition
    <3> QED BY <1>3, <1>8, <2>1, <3>2
  <2> QED BY <2>1, <2>2 DEF ImagePages, ImageOf
<1>10. \A p \in Procs \ Live : sh[p].state = "none" /\ ImageOf(sh[p]) = {}
  BY <1>11 DEF ImageOf
<1> QED BY <1>7, <1>8, <1>9, <1>10, <1>11 DEF SharesOf

\* Every page taken from page.c has one owner.
THEOREM PagesOwnedAlways == Spec => []PagesOwned
<1>1. ASSUME MemoryInv PROVE PagesOwned
  <2> DEFINE top == brk \div PAGE_SIZE
             H == Holding(mem, top, Shape(proc), orphans)
  <2>1. SharesOf(H)
    BY <1>1, SharesAre
  <2>2. Sound(mem, top, Shape(proc), orphans)
    BY <1>1 DEF MemoryInv, StateOK
  <2>3. Partition(H, mem.taken) /\ HoldsAs(H, mem, top, Shape(proc), orphans)
    BY <2>2, HoldingIs DEF Sound
  <2>4. DOMAIN Shares = 1 .. 5 /\ Live \subseteq Procs
    BY DEF Shares, Live
  <2>5. top \in Nat /\ top <= MaxHeapPages /\ MaxHeapPages \in Nat
    BY <2>2, SoundSizes
  <2>6. \A k \in 0 .. top - 1 : k \in HeapPages /\ k < top /\ H[oHeap(k)] = {HeapPage(mem, k)}
    <3>1. \A k \in 0 .. top - 1 : k \in HeapPages /\ k < top
      BY <2>5 DEF HeapPages
    <3> HIDE DEF H, top
    <3> QED BY <2>3, <3>1 DEF HoldsAs
  <2> HIDE DEF H
  <2>7. \A o, q \in Owners : \A x : x \in H[o] /\ x \in H[q] => o = q
    BY <2>3 DEF Partition
  <2>8. ASSUME NEW p \in Live
        PROVE  /\ oTables(p) \in Owners /\ oStack(p) \in Owners /\ oImage(p) \in Owners
               /\ OwnedBy(p) = H[oTables(p)] \union H[oStack(p)] \union H[oImage(p)]
               /\ {proc[p].stack} = H[oStack(p)] /\ ImagePages(p) = H[oImage(p)]
               /\ TablesOf(mem, proc[p].ptable) = H[oTables(p)]
    BY <2>1, <2>4, OwnersAre DEF SharesOf, OwnedBy
  <2>9. mem.taken = UNION (ToSet(Shares) \union {OwnedBy(p) : p \in Live})
    <3>1. ToSet(Shares) = {Shares[i] : i \in 1 .. 5}
      BY <2>4 DEF ToSet
    <3>2. ASSUME NEW x \in mem.taken
          PROVE  x \in UNION (ToSet(Shares) \union {OwnedBy(p) : p \in Live})
      <4>1. PICK o \in Owners : x \in H[o]
        BY <2>3 DEF Partition
      <4>2. CASE \E i \in 1 .. 5 : o \in ShareOwners(i)
        <5>1. PICK i \in 1 .. 5 : x \in Shares[i]
          BY <2>1, <4>1, <4>2 DEF SharesOf
        <5> QED BY <3>1, <5>1
      <4>3. CASE \E p \in Procs : o = oTables(p) \/ o = oStack(p) \/ o = oImage(p)
        <5>1. PICK p \in Procs : o = oTables(p) \/ o = oStack(p) \/ o = oImage(p)
          BY <4>3
        <5>2. p \in Live
          BY <2>1, <4>1, <5>1 DEF SharesOf
        <5>3. x \in OwnedBy(p)
          BY <2>8, <4>1, <5>1, <5>2
        <5> QED BY <5>2, <5>3
      <4>4. \/ \E i \in 1 .. 5 : o \in ShareOwners(i)
            \/ \E p \in Procs : o = oTables(p) \/ o = oStack(p) \/ o = oImage(p)
        <5>1. /\ ShareOwners(1) = {oBook} /\ ShareOwners(2) = {oTrap} /\ ShareOwners(3) = {oKernel}
              /\ ShareOwners(4) = {oHeap(k) : k \in HeapPages} /\ ShareOwners(5) = {oOrphan}
          BY DEF ShareOwners
        <5>2. 1 \in 1 .. 5 /\ 2 \in 1 .. 5 /\ 3 \in 1 .. 5 /\ 4 \in 1 .. 5 /\ 5 \in 1 .. 5
          OBVIOUS
        <5> QED BY <5>1, <5>2, OwnersAre
      <4> QED BY <4>2, <4>3, <4>4
    <3>3. ASSUME NEW i \in 1 .. 5, NEW x \in Shares[i] PROVE x \in mem.taken
      <4>1. PICK o \in ShareOwners(i) : x \in H[o]
        BY <2>1 DEF SharesOf
      <4>2. o \in Owners
        BY ShareOwnersDiffer
      <4> QED BY <2>3, <4>1, <4>2 DEF Partition
    <3>4. ASSUME NEW p \in Live, NEW x \in OwnedBy(p) PROVE x \in mem.taken
      BY <2>3, <2>8 DEF Partition
    <3> QED BY <3>1, <3>2, <3>3, <3>4
  <2>10. ASSUME NEW i \in 1 .. 5, NEW j \in 1 .. 5, i # j
         PROVE  Shares[i] \cap Shares[j] = {}
    <3> SUFFICES ASSUME NEW x, x \in Shares[i], x \in Shares[j] PROVE FALSE
      OBVIOUS
    <3>1. PICK o \in ShareOwners(i) : x \in H[o]
      BY <2>1 DEF SharesOf
    <3>2. PICK q \in ShareOwners(j) : x \in H[q]
      BY <2>1 DEF SharesOf
    <3>3. o \in Owners /\ q \in Owners
      BY ShareOwnersDiffer
    <3>4. o = q
      BY <2>7, <3>1, <3>2, <3>3
    <3> QED BY <2>10, <3>4, ShareOwnersDiffer
  <2>11. ASSUME NEW p \in Live, NEW i \in 1 .. 5
         PROVE  Shares[i] \cap OwnedBy(p) = {}
    <3> SUFFICES ASSUME NEW x, x \in Shares[i], x \in OwnedBy(p) PROVE FALSE
      OBVIOUS
    <3>1. PICK o \in ShareOwners(i) : x \in H[o]
      BY <2>1 DEF SharesOf
    <3>2. PICK q \in {oTables(p), oStack(p), oImage(p)} : x \in H[q]
      BY <2>8
    <3>3. o \in Owners /\ q \in Owners
      BY <2>8, ShareOwnersDiffer
    <3>4. o = q
      BY <2>7, <3>1, <3>2, <3>3
    <3> QED BY <3>4, ShareOwnersDiffer
  <2>12. ASSUME NEW p \in Live, NEW q \in Live, p # q
         PROVE  OwnedBy(p) \cap OwnedBy(q) = {}
    <3> SUFFICES ASSUME NEW x, x \in OwnedBy(p), x \in OwnedBy(q) PROVE FALSE
      OBVIOUS
    <3>1. PICK o \in {oTables(p), oStack(p), oImage(p)} : x \in H[o]
      BY <2>8
    <3>2. PICK u \in {oTables(q), oStack(q), oImage(q)} : x \in H[u]
      BY <2>8
    <3>3. o = u
      BY <2>7, <2>8, <3>1, <3>2
    <3> QED BY <2>12, <3>3, OwnersDiffer
  <2>13. ASSUME NEW p \in Live
         PROVE  /\ proc[p].stack \notin TablesOf(mem, proc[p].ptable) \union ImagePages(p)
                /\ ImagePages(p) \cap TablesOf(mem, proc[p].ptable) = {}
    <3>1. /\ oStack(p) # oTables(p) /\ oStack(p) # oImage(p) /\ oImage(p) # oTables(p)
      BY OwnersDiffer
    <3>2. proc[p].stack \in H[oStack(p)]
      BY <2>8
    <3> QED BY <2>7, <2>8, <3>1, <3>2
  <2>14. ASSUME NEW j \in 0 .. top - 1, NEW k \in 0 .. top - 1, j # k
         PROVE  HeapPage(mem, j) # HeapPage(mem, k)
    <3>1. oHeap(j) # oHeap(k) /\ oHeap(j) \in Owners /\ oHeap(k) \in Owners
      BY <2>6, <2>14, OwnersAre, OwnersDiffer
    <3>2. HeapPage(mem, j) \in H[oHeap(j)] /\ HeapPage(mem, k) \in H[oHeap(k)]
      BY <2>6
    <3> QED BY <2>7, <3>1, <3>2
  <2>15. ASSUME NEW k \in HeapPages
         PROVE  IF k < top THEN HeapPage(mem, k) # NoPage
                ELSE mem.fault \/ HeapPage(mem, k) = NoPage
    <3>1. CASE k < top
      <4>1. k \in 0 .. top - 1
        BY <2>5, <3>1 DEF HeapPages
      <4>2. HeapPage(mem, k) \in mem.taken /\ mem \in Memory
        BY <2>2, <4>1, SoundSizes
      <4> QED BY <3>1, <4>2, NoPageIs DEF Memory
    <3>2. CASE k >= top
      BY <2>2, <2>5, <3>2 DEF Sound, NothingFrom, HeapPages
    <3> QED BY <2>5, <3>1, <3>2 DEF HeapPages
  <2> QED BY <2>4, <2>9, <2>10, <2>11, <2>12, <2>13, <2>14, <2>15 DEF PagesOwned
<1> QED BY <1>1, MemoryInvariant, PTL
=============================================================================
