----------------------------- MODULE PageSteps -----------------------------
(***************************************************************************)
(* The page allocator of src/src/page.c as the harts execute it: the       *)
(* search reads one bit at a time, and set_taken, clear_taken, set_last    *)
(* and clear_last each load a byte of the table (four pages) and store it  *)
(* back.  page_lock is declared and never taken, so calls on different     *)
(* harts interleave freely.                                                *)
(***************************************************************************)
EXTENDS PageTable, Sequences

CONSTANTS
    Harts,     \* the harts that call the allocator
    MaxCalls   \* bound on the number of calls

ASSUME CallsAssumption == MaxCalls \in Nat

VARIABLES
    taken, last,   \* the two bits of every page
    live,          \* history: the allocations that callers hold
    result,        \* what the last call returned or reported
    pc,            \* hart -> where in page.c it is
    want,          \* hart -> the argument n of page_znalloc
    i, j,          \* hart -> the loop variables; i is `location' in page_free
    todo,          \* hart -> the bit updates it has committed itself to
    reg,           \* hart -> the byte it has loaded, or nothing
    giving,        \* history, hart -> the page_free call it is in: the page, the
                   \* allocation given up and what is kept of it
    before,        \* history: the table when the last call began
    calls

table == <<taken, last>>
loops == <<want, i, j>>
ghosts == <<giving, before>>
vars == <<table, live, result, pc, loops, todo, reg, ghosts, calls>>

NoFree == [loc |-> NoPage, old |-> {}, kept |-> {}]

Init ==
    /\ taken = 0 .. BkPages - 1
    /\ last = {BkPages - 1}
    /\ live = {}
    /\ result = <<"none", NoPage, 0>>
    /\ pc = [h \in Harts |-> "idle"]
    /\ want = [h \in Harts |-> 0]
    /\ i = [h \in Harts |-> 0]
    /\ j = [h \in Harts |-> 0]
    /\ todo = [h \in Harts |-> << >>]
    /\ reg = [h \in Harts |-> << >>]
    /\ giving = [h \in Harts |-> NoFree]
    /\ before = <<taken, last>>
    /\ calls = 0

\* One update of one bit, as a load and a store of its byte.
Update(b, page, v) == [bit |-> b, page |-> page, set |-> v]
SameByte(p, q) == p \div 4 = q \div 4

Load(h) ==
    /\ todo[h] # << >> /\ reg[h] = << >>
    /\ LET p == todo[h][1].page
       IN reg' = [reg EXCEPT ![h] = <<{k \in taken : SameByte(k, p)},
                                      {k \in last : SameByte(k, p)}>>]
    /\ UNCHANGED <<table, live, result, pc, loops, todo, ghosts, calls>>

Put(s, u, b) == IF u.bit # b THEN s
                ELSE IF u.set THEN s \union {u.page} ELSE s \ {u.page}

Store(h) ==
    /\ todo[h] # << >> /\ reg[h] # << >>
    /\ LET u == todo[h][1]
       IN /\ taken' = {k \in taken : ~SameByte(k, u.page)} \union Put(reg[h][1], u, "taken")
          /\ last' = {k \in last : ~SameByte(k, u.page)} \union Put(reg[h][2], u, "last")
    /\ todo' = [todo EXCEPT ![h] = Tail(@)]
    /\ reg' = [reg EXCEPT ![h] = << >>]
    /\ UNCHANGED <<live, result, pc, loops, ghosts, calls>>

Ready(h, label) == pc[h] = label /\ todo[h] = << >>

----------------------------------------------------------------------------
(* page_znalloc *)

AllocCall(h, n) ==
    /\ Ready(h, "idle") /\ calls < MaxCalls
    /\ calls' = calls + 1
    /\ want' = [want EXCEPT ![h] = n]
    /\ i' = [i EXCEPT ![h] = 0] /\ j' = [j EXCEPT ![h] = 0]
    /\ pc' = [pc EXCEPT ![h] = "scan"]
    /\ before' = table
    /\ UNCHANGED <<table, live, result, todo, reg, giving>>

\* The loops give page i up: page j is taken, or the table ends.
NextStart(h) ==
    /\ Ready(h, "scan") /\ i[h] < ScanPages
    /\ j[h] \in taken \/ j[h] >= TotalPages
    /\ i' = [i EXCEPT ![h] = @ + 1] /\ j' = [j EXCEPT ![h] = i[h] + 1]
    /\ UNCHANGED <<table, live, result, pc, want, todo, reg, ghosts, calls>>

\* if(consecutive >= n)
Enough_OneShort(h) == j[h] - i[h] + 2 >= want[h]
Enough(h) == j[h] - i[h] + 1 >= want[h]

\* One more consecutive page; enough of them are marked and the last one too.
Consecutive(h) ==
    /\ Ready(h, "scan") /\ i[h] < ScanPages
    /\ j[h] < TotalPages /\ j[h] \notin taken
    /\ \/ /\ ~Enough(h)
          /\ j' = [j EXCEPT ![h] = @ + 1]
          /\ UNCHANGED <<pc, todo>>
       \/ /\ Enough(h)
          /\ todo' = [todo EXCEPT ![h] =
                [k \in 1 .. j[h] - i[h] + 2 |->
                   IF k <= j[h] - i[h] + 1 THEN Update("taken", i[h] + k - 1, TRUE)
                   ELSE Update("last", j[h], TRUE)]]
          /\ pc' = [pc EXCEPT ![h] = "marked"]
          /\ UNCHANGED j
    /\ UNCHANGED <<table, live, result, want, i, reg, ghosts, calls>>

AllocReturn(h) ==
    /\ Ready(h, "marked")
    /\ live' = live \union {<<i[h], j[h]>>}
    /\ result' = <<"alloc", i[h], want[h]>>
    /\ pc' = [pc EXCEPT ![h] = "idle"]
    /\ UNCHANGED <<table, loops, todo, reg, ghosts, calls>>

AllocFails(h) ==
    /\ Ready(h, "scan") /\ i[h] >= ScanPages
    /\ result' = <<"alloc", NoPage, want[h]>>
    /\ pc' = [pc EXCEPT ![h] = "idle"]
    /\ UNCHANGED <<table, live, loops, todo, reg, ghosts, calls>>

----------------------------------------------------------------------------
(* page_free *)

PageFreeCall(h, loc, old, kept) ==
    /\ Ready(h, "idle") /\ calls < MaxCalls
    /\ calls' = calls + 1
    /\ i' = [i EXCEPT ![h] = loc]
    /\ todo' = [todo EXCEPT ![h] = IF loc - 1 \in taken
                                   THEN <<Update("last", loc - 1, TRUE)>> ELSE << >>]
    /\ pc' = [pc EXCEPT ![h] = "loop"]
    /\ giving' = [giving EXCEPT ![h] = [loc |-> loc, old |-> old, kept |-> kept]]
    /\ before' = table
    /\ UNCHANGED <<table, live, result, want, j, reg>>

\* A caller frees what it holds and nobody else is freeing, from loc on.
FreeCall(h, a, loc) ==
    /\ \A g \in Harts : a \notin giving[g].old
    /\ PageFreeCall(h, loc, {a}, IF loc = a[1] THEN {} ELSE {<<a[1], loc - 1>>})

\* A caller frees a page that nobody holds.
FreeAgain(h, loc) ==
    /\ \A a \in live \union {Bookkeeping} : loc \notin Covers(a)
    /\ PageFreeCall(h, loc, {}, {})

\* One round of the loop.
FreeLoop(h) ==
    /\ Ready(h, "loop") /\ i[h] \in taken
    /\ \/ /\ i[h] \in last
          /\ todo' = [todo EXCEPT ![h] = <<Update("taken", i[h], FALSE),
                                           Update("last", i[h], FALSE)>>]
          /\ pc' = [pc EXCEPT ![h] = "freed"]
          /\ UNCHANGED i
       \/ /\ i[h] \notin last
          /\ todo' = [todo EXCEPT ![h] = <<Update("taken", i[h], FALSE)>>]
          /\ i' = [i EXCEPT ![h] = @ + 1]
          /\ UNCHANGED pc
    /\ UNCHANGED <<table, live, result, want, j, reg, ghosts, calls>>

\* The call returns: the caller's allocation is gone, or shorter.
GiveUp(h, report) ==
    /\ live' = (live \ giving[h].old) \union giving[h].kept
    /\ result' = <<report, giving[h].loc, 0>>
    /\ giving' = [giving EXCEPT ![h] = NoFree]
    /\ pc' = [pc EXCEPT ![h] = "idle"]

FreeReturn(h) ==
    /\ Ready(h, "freed")
    /\ GiveUp(h, "freed")
    /\ UNCHANGED <<table, loops, todo, reg, before, calls>>

DoubleFree(h) ==
    /\ Ready(h, "loop") /\ i[h] \notin taken
    /\ GiveUp(h, "double free")
    /\ UNCHANGED <<table, loops, todo, reg, before, calls>>

Next ==
    \E h \in Harts :
       \/ Load(h) \/ Store(h)
       \/ \E n \in Sizes : AllocCall(h, n)
       \/ NextStart(h) \/ Consecutive(h) \/ AllocReturn(h) \/ AllocFails(h)
       \/ \E a \in live : \E loc \in Covers(a) : FreeCall(h, a, loc)
       \/ FreeLoop(h) \/ FreeReturn(h) \/ DoubleFree(h)

Spec == Init /\ [][Next]_vars

\* With callers that free a page again.
CarelessNext == Next \/ \E h \in Harts, loc \in Pages : FreeAgain(h, loc)
CarelessSpec == Init /\ [][CarelessNext]_vars
----------------------------------------------------------------------------
(* Properties *)

\* On one hart the calls are what PageAlloc says they are: the bytewise
\* updates of a call, seen when it returns, are its effect.
Quiet == \A h \in Harts : pc[h] = "idle"
TakenSeen == IF Quiet THEN taken ELSE before[1]
LastSeen == IF Quiet THEN last ELSE before[2]
Atomic == INSTANCE PageAlloc WITH taken <- TakenSeen, last <- LastSeen
ImplementsPageAlloc == Atomic!Spec

\* "double free. Make some noise here." (page.c:170): the message is for a
\* page that was already free, never for one the caller holds.
NoFalseDoubleFree ==
    \A h \in Harts : Ready(h, "loop") /\ i[h] \notin taken => giving[h].old = {}
=============================================================================
