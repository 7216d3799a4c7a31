-------------------------------- MODULE Mmu --------------------------------
(***************************************************************************)
(* Page tables, src/src/mmu.c.  The memory is a record: the two bits of    *)
(* every page (page.c), the entries of the pages that are page tables, and *)
(* whether a hart has faulted in mmu_set, with kernel_mmu_table_lock in its*)
(* hands: nobody comes past that lock any more.  The operators map a memory*)
(* to the memory after the call, or at the point at which it goes no       *)
(* further.  A page is known by its number; one virtual address stands for *)
(* its page.                                                               *)
(***************************************************************************)
EXTENDS PageTable, SequencesExt

CONSTANT Fanout   \* entries of a page table, 512

ASSUME FanoutAssumption == Fanout \in Nat \ {0}

VirtualPages == 0 .. Fanout * Fanout * Fanout - 1
Indices == 0 .. Fanout - 1

\* PTEB_VALID is not set; it is and no permission is; both are.
Invalid == [kind |-> "invalid", page |-> NoPage]
Branch(p) == [kind |-> "branch", page |-> p]
Leaf(p) == [kind |-> "leaf", page |-> p]
NoEntries == [i \in Indices |-> Invalid]

\* vpn[level]
vpn(v, level) == CASE level = 0 -> v % Fanout
                   [] level = 1 -> (v \div Fanout) % Fanout
                   [] level = 2 -> (v \div (Fanout * Fanout)) % Fanout

\* A load behind a NULL pointer in mmu_set: nothing is mapped at address 0, and
\* os_trap_handler answers the page fault by spinning for ever on this hart,
\* which holds the lock of the tables.  (The branch to address 0 that mmu_set
\* has written by then is left out.  It lies on the way to a page that nobody
\* gets, so nothing walks through it.)
Fault(m) == [m EXCEPT !.fault = TRUE]

\* page_znalloc(n) on the memory, and the page it returns.
Taken(m, n) == LET f == FirstFit(m.taken, n)
               IN IF f = NoPage THEN m
                  ELSE [m EXCEPT !.taken = @ \union (f .. f + Need(n) - 1),
                                 !.last = @ \union {f + Need(n) - 1}]

\* page_free(loc): a page outside of the heap region is refused; one of the
\* table's own is freed, after a message.
Freed(m, loc) ==
    LET e == FreeStop(m.taken, m.last, loc)
        gone == loc .. e
    IN IF loc \notin Pages THEN m
       ELSE [m EXCEPT !.taken = @ \ gone,
                      !.last = (@ \union ({loc - 1} \intersect m.taken))
                                  \ (IF e \in m.taken THEN {e} ELSE {}),
                      !.tables = [t \in DOMAIN @ \ gone |-> @[t]]]

\* A zeroed page that will hold a page table.
NewTable(m) ==
    LET p == FirstFit(m.taken, 1)
        m1 == Taken(m, 1)
    IN IF p = NoPage THEN Fault(m)
       ELSE [m1 EXCEPT !.tables = [t \in DOMAIN @ \union {p} |->
                                      IF t = p THEN NoEntries ELSE @[t]]]

\* One level of mmu_set: the entry of table t for v is a branch, made by
\* allocating the table below if there is none.
Below(m, t, v, level) == m.tables[t][vpn(v, level)].page
Linked(m, t, i, p) == IF m.fault THEN m ELSE [m EXCEPT !.tables[t][i] = Branch(p)]
Descended(m, t, v, level) ==
    IF m.fault \/ m.tables[t][vpn(v, level)].kind # "invalid" THEN m
    ELSE Linked(NewTable(m), t, vpn(v, level), FirstFit(m.taken, 1))

\* mmu_set(pt, vaddr, ...): an entry is written in the table at level 0.
SetLevel0(m, t1, v, entry) ==
    IF m.fault THEN m ELSE [m EXCEPT !.tables[Below(m, t1, v, 1)][vpn(v, 0)] = entry]
SetLevel1(m, t1, v, entry) == SetLevel0(Descended(m, t1, v, 1), t1, v, entry)
SetLevel2(m, pt, v, entry) ==
    IF m.fault THEN m ELSE SetLevel1(m, Below(m, pt, v, 2), v, entry)
mmu_set(m, pt, v, entry) == SetLevel2(Descended(m, pt, v, 2), pt, v, entry)

mmu_map(m, pt, v, p) == mmu_set(m, pt, v, Leaf(p))
mmu_unmap(m, pt, v) == mmu_set(m, pt, v, Invalid)

\* mmu_map_multiple: n pages from v on are mapped to n pages from p on.
mmu_map_multiple_SamePage(m, pt, v, p, n) ==
    LET after[i \in 0 .. n] == IF i = 0 THEN m ELSE mmu_map(after[i - 1], pt, v + i - 1, p)
    IN after[n]
mmu_map_multiple(m, pt, v, p, n) ==
    LET after[i \in 0 .. n] == IF i = 0 THEN m
                               ELSE mmu_map(after[i - 1], pt, v + i - 1, p + i - 1)
    IN after[n]

\* mmu_translate: NoPage stands for the error code -1UL.
mmu_translate(m, pt, v) ==
    LET e2 == m.tables[pt][vpn(v, 2)]
        e1 == m.tables[e2.page][vpn(v, 1)]
        e0 == m.tables[e1.page][vpn(v, 0)]
    IN IF e2.kind = "branch"
       THEN IF e1.kind = "branch" THEN e0.page ELSE e1.page
       ELSE e2.page

\* The tables below pt, its own page included, and the pages mapped through it.
Branches(m, ts) == {e.page : e \in {m.tables[t][i] : t \in ts, i \in Indices} \cap
                                  {Branch(p) : p \in Pages}}
TablesOf(m, pt) == LET one == Branches(m, {pt}) IN {pt} \union one \union Branches(m, one)
MappedBy(m, pt) == {v \in VirtualPages : mmu_translate(m, pt, v) # NoPage}
=============================================================================
