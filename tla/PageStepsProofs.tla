-------------------------- MODULE PageStepsProofs --------------------------
(***************************************************************************)
(* On one hart the bytewise page allocator is the atomic one, for every    *)
(* number of pages, every request and any number of calls: the scan of     *)
(* page_znalloc finds the first fit, and the loads and stores of bytes add *)
(* up to the change of the table that PageAlloc makes in one step.         *)
(***************************************************************************)
EXTENDS PageSteps, TLAPS

(* The invariant, for the one hart h *)

T0 == before[1]
L0 == before[2]

\* The pages whose bit b the updates still to be done set, or clear.
Due(td, b) == {td[k].page : k \in {l \in DOMAIN td : td[l].bit = b}}
AllSet(td, b, v) == \A k \in DOMAIN td : td[k].bit = b => td[k].set = v

Update_Type == [bit : {"taken", "last"}, page : Int, set : BOOLEAN]

StepTypes(h) ==
    /\ taken \subseteq Pages /\ last \subseteq Int
    /\ live \subseteq Interval
    /\ T0 \subseteq Pages /\ L0 \subseteq Int /\ before = <<T0, L0>>
    /\ pc \in [Harts -> {"idle", "scan", "marked", "loop", "freed"}]
    /\ want \in [Harts -> Nat] /\ i \in [Harts -> Nat] /\ j \in [Harts -> Nat]
    /\ todo \in [Harts -> Seq(Update_Type)]
    /\ DOMAIN reg = Harts /\ DOMAIN giving = Harts

\* The byte a hart has loaded is the byte in the table.
ByteCurrent(h) ==
    /\ todo[h] = << >> => reg[h] = << >>
    /\ reg[h] # << >> =>
          reg[h] = <<{k \in taken : SameByte(k, todo[h][1].page)},
                     {k \in last : SameByte(k, todo[h][1].page)}>>

\* No page in front of i fits, and the pages from i to j are free.
Scanned(h) ==
    /\ want[h] \in Sizes
    /\ i[h] <= j[h]
    /\ \A k \in 0 .. i[h] - 1 : ~Fits(T0, want[h], k)
    /\ \A k \in i[h] .. j[h] - 1 : k \notin T0

WhileIdle(h) == pc[h] = "idle" => todo[h] = << >>

WhileScanning(h) ==
    pc[h] = "scan" =>
       /\ Scanned(h)
       /\ todo[h] = << >> /\ taken = T0 /\ last = L0
       /\ i[h] <= ScanPages /\ j[h] <= TotalPages /\ j[h] - i[h] < Need(want[h])

WhileMarking(h) ==
    pc[h] = "marked" =>
       /\ Scanned(h)
       /\ i[h] < ScanPages /\ j[h] < TotalPages /\ j[h] \notin T0
       /\ j[h] - i[h] + 1 = Need(want[h])
       /\ AllSet(todo[h], "taken", TRUE) /\ AllSet(todo[h], "last", TRUE)
       /\ taken \union Due(todo[h], "taken") = T0 \union (i[h] .. j[h])
       /\ last \union Due(todo[h], "last") = L0 \union {j[h]}

\* The caller holds what it gives up, and gives it up from page loc on.
Given(h) ==
    LET g == giving[h]
    IN /\ g.loc \in Pages /\ g.loc <= i[h]
       /\ \A k \in g.loc .. i[h] - 1 : k \in T0 /\ k \notin L0
       /\ \/ /\ g.old = {} /\ g.kept = {}
             /\ \A a \in live \union {Bookkeeping} : g.loc \notin Covers(a)
          \/ \E a \in live : /\ g.old = {a} /\ g.loc \in Covers(a)
                             /\ g.kept = IF g.loc = a[1] THEN {} ELSE {<<a[1], g.loc - 1>>}

Marked0(h) == L0 \union ({giving[h].loc - 1} \intersect T0)

WhileLooping(h) ==
    pc[h] = "loop" =>
       /\ Given(h)
       /\ AllSet(todo[h], "taken", FALSE) /\ AllSet(todo[h], "last", TRUE)
       /\ taken \ Due(todo[h], "taken") = T0 \ (giving[h].loc .. i[h] - 1)
       /\ last \union Due(todo[h], "last") = Marked0(h)

WhileFreeing(h) ==
    pc[h] = "freed" =>
       /\ Given(h) /\ i[h] \in T0 /\ i[h] \in L0
       /\ AllSet(todo[h], "taken", FALSE) /\ AllSet(todo[h], "last", FALSE)
       /\ taken \ Due(todo[h], "taken") = T0 \ (giving[h].loc .. i[h])
       /\ last \ Due(todo[h], "last") = Marked0(h) \ {i[h]}

StepInv(h) ==
    /\ StepTypes(h) /\ ByteCurrent(h) /\ WhileIdle(h)
    /\ WhileScanning(h) /\ WhileMarking(h) /\ WhileLooping(h) /\ WhileFreeing(h)
----------------------------------------------------------------------------
(* The search and the loop *)

\* The scan's answer is the first fit.
LEMMA FirstFitIs ==
    ASSUME NEW T, NEW n \in Nat, NEW f \in 0 .. ScanPages - 1,
           Fits(T, n, f), \A k \in 0 .. f - 1 : ~Fits(T, n, k)
    PROVE  FirstFit(T, n) = f
<1> DEFINE First(x) == Fits(T, n, x) /\ \A k \in 0 .. x - 1 : ~Fits(T, n, k)
           x == CHOOSE x \in 0 .. ScanPages - 1 : First(x)
<1>1. x \in 0 .. ScanPages - 1 /\ First(x)
  OBVIOUS
<1>2. FirstFit(T, n) = x
  BY DEF FirstFit
<1> HIDE DEF x
<1>3. ~(x < f) /\ ~(f < x)
  BY <1>1, PagesAssumption
<1> QED BY <1>1, <1>2, <1>3, PagesAssumption

\* Without a fit the search answers NULL.
LEMMA NoFit ==
    ASSUME NEW T, NEW n, \A k \in 0 .. ScanPages - 1 : ~Fits(T, n, k)
    PROVE  FirstFit(T, n) = NoPage
BY DEF FirstFit

\* The loop of page_free stops at one page only.
LEMMA LoopStop ==
    ASSUME NEW T, NEW L, NEW loc \in Nat, NEW e, StopsAt(T, L, loc, e)
    PROVE  FreeStop(T, L, loc) = e
<1> DEFINE x == FreeStop(T, L, loc)
<1>1. e \in loc .. TotalPages
  BY DEF StopsAt
<1>2. x \in loc .. TotalPages /\ StopsAt(T, L, loc, x)
  BY <1>1 DEF FreeStop
<1> HIDE DEF x
<1>3. ~(x < e) /\ ~(e < x)
  BY <1>1, <1>2, PagesAssumption DEF StopsAt
<1> QED BY <1>1, <1>2, <1>3, PagesAssumption DEF x
----------------------------------------------------------------------------
(* One update of a byte *)

\* Storing a current byte changes the one bit it is meant to change.
LEMMA ByteWrite ==
    ASSUME NEW S, NEW u, NEW b
    PROVE  {k \in S : ~SameByte(k, u.page)}
              \union Put({k \in S : SameByte(k, u.page)}, u, b) = Put(S, u, b)
BY DEF SameByte, Put

\* What is due before an update is the update's page and what is due after it.
LEMMA DueHead ==
    ASSUME NEW td \in Seq(Update_Type), td # << >>, NEW b
    PROVE  /\ Tail(td) \in Seq(Update_Type) /\ td[1] \in Update_Type
           /\ Due(td, b) = Due(Tail(td), b)
                  \union (IF td[1].bit = b THEN {td[1].page} ELSE {})
<1>1. Len(td) \in Nat /\ 0 < Len(td) /\ DOMAIN td = 1 .. Len(td) /\ td[1] \in Update_Type
  OBVIOUS
<1>2. /\ Tail(td) \in Seq(Update_Type) /\ DOMAIN Tail(td) = 1 .. Len(td) - 1
      /\ \A k \in 1 .. Len(td) - 1 : Tail(td)[k] = td[k + 1]
  OBVIOUS
<1>3. ASSUME NEW p \in Due(td, b)
      PROVE  p \in Due(Tail(td), b) \union (IF td[1].bit = b THEN {td[1].page} ELSE {})
  <2>1. PICK k \in 1 .. Len(td) : td[k].bit = b /\ td[k].page = p
    BY <1>1 DEF Due
  <2>2. CASE k = 1
    BY <2>1, <2>2
  <2>3. CASE k # 1
    <3>1. k - 1 \in 1 .. Len(td) - 1 /\ (k - 1) + 1 = k
      BY <2>3, <1>1
    <3>2. Tail(td)[k - 1] = td[k] /\ k - 1 \in DOMAIN Tail(td)
      BY <3>1, <1>2
    <3> QED BY <3>2, <2>1 DEF Due
  <2> QED BY <2>2, <2>3
<1>4. ASSUME NEW p \in Due(Tail(td), b) PROVE p \in Due(td, b)
  <2>1. PICK k \in 1 .. Len(td) - 1 : Tail(td)[k].bit = b /\ Tail(td)[k].page = p
    BY <1>2 DEF Due
  <2>2. k + 1 \in DOMAIN td /\ td[k + 1] = Tail(td)[k]
    BY <1>1, <1>2
  <2> QED BY <2>1, <2>2 DEF Due
<1>5. td[1].bit = b => td[1].page \in Due(td, b)
  BY <1>1 DEF Due
<1> QED BY <1>1, <1>2, <1>3, <1>4, <1>5

\* The updates behind the first are of the same kind.
LEMMA KindHead ==
    ASSUME NEW td \in Seq(Update_Type), td # << >>, NEW b, NEW v, AllSet(td, b, v)
    PROVE  AllSet(Tail(td), b, v) /\ (td[1].bit = b => td[1].set = v)
<1>1. /\ Len(td) \in Nat /\ 0 < Len(td) /\ DOMAIN td = 1 .. Len(td)
      /\ DOMAIN Tail(td) = 1 .. Len(td) - 1
      /\ \A k \in 1 .. Len(td) - 1 : Tail(td)[k] = td[k + 1]
  OBVIOUS
<1> QED BY <1>1 DEF AllSet

\* When nothing is due the table is as the call leaves it.
LEMMA NothingDue == \A b : Due(<< >>, b) = {}
BY DEF Due
----------------------------------------------------------------------------
(* What PageAlloc sees of a step *)

\* A step that begins a call or is inside one changes nothing it sees.
LEMMA HiddenStep ==
    ASSUME NEW h, Harts = {h}, pc'[h] # "idle", UNCHANGED <<live, result>>,
           before' = IF pc[h] = "idle" THEN table ELSE before
    PROVE  UNCHANGED Atomic!vars
<1>1. Quiet <=> pc[h] = "idle"
  BY DEF Quiet
<1>2. ~Quiet'
  BY DEF Quiet
<1>3. TakenSeen' = TakenSeen /\ LastSeen' = LastSeen
  BY <1>1, <1>2 DEF TakenSeen, LastSeen, table
<1> QED BY <1>3 DEF Atomic!vars

\* When a call returns it sees the table from before the call become the
\* table that the call leaves.
LEMMA SeenAtReturn ==
    ASSUME NEW h, Harts = {h}, pc[h] # "idle", pc'[h] = "idle", UNCHANGED table
    PROVE  TakenSeen = T0 /\ LastSeen = L0 /\ TakenSeen' = taken /\ LastSeen' = last
<1>1. ~Quiet /\ Quiet'
  BY DEF Quiet
<1> QED BY <1>1 DEF TakenSeen, LastSeen, T0, L0, table

\* Operators of the table that PageAlloc and PageSteps share.
LEMMA SameTable ==
    /\ \A T, n : Atomic!FirstFit(T, n) = FirstFit(T, n)
    /\ \A T, L, loc : Atomic!FreeStop(T, L, loc) = FreeStop(T, L, loc)
    /\ \A n : Atomic!Need(n) = Need(n)
    /\ \A a : Atomic!Covers(a) = Covers(a)
    /\ Atomic!Pages = Pages /\ Atomic!NoPage = NoPage /\ Atomic!Bookkeeping = Bookkeeping
BY DEF Atomic!FirstFit, FirstFit, Atomic!Fits, Fits, Atomic!Need, Need,
       Atomic!FreeStop, FreeStop, Atomic!StopsAt, StopsAt, Atomic!Covers, Covers,
       Atomic!Pages, Pages, Atomic!NoPage, NoPage, Atomic!Bookkeeping, Bookkeeping
----------------------------------------------------------------------------
(* The steps: each keeps the invariant and is a step of PageAlloc or hidden *)

LEMMA LoadStep ==
    ASSUME NEW h, Harts = {h}, StepInv(h), Load(h)
    PROVE  StepInv(h)' /\ UNCHANGED Atomic!vars
<1>1. /\ UNCHANGED <<taken, last, live, result, pc, want, i, j, todo, giving, before>>
      /\ todo[h] # << >> /\ DOMAIN reg' = Harts
      /\ reg'[h] = <<{k \in taken : SameByte(k, todo[h][1].page)},
                     {k \in last : SameByte(k, todo[h][1].page)}>>
  BY DEF Load, StepInv, StepTypes, table, loops, ghosts
<1>2. StepTypes(h)' /\ ByteCurrent(h)'
  BY <1>1 DEF StepInv, StepTypes, ByteCurrent, T0, L0
<1>3. WhileIdle(h)' /\ WhileScanning(h)' /\ WhileMarking(h)' /\ WhileLooping(h)'
         /\ WhileFreeing(h)'
  BY <1>1 DEF StepInv, WhileIdle, WhileScanning, WhileMarking, WhileLooping, WhileFreeing,
              Scanned, Given, Marked0, T0, L0
<1>4. UNCHANGED Atomic!vars
  BY <1>1 DEF Atomic!vars, TakenSeen, LastSeen, Quiet
<1> QED BY <1>2, <1>3, <1>4 DEF StepInv

\* The store of a byte does one update; on one hart it is nothing else.
LEMMA StoreStep ==
    ASSUME NEW h, Harts = {h}, StepInv(h), Store(h)
    PROVE  StepInv(h)' /\ UNCHANGED Atomic!vars
<1> DEFINE td == todo[h]
           u == td[1]
<1>1. /\ UNCHANGED <<live, result, pc, want, i, j, giving, before>>
      /\ td # << >> /\ reg[h] # << >> /\ DOMAIN reg' = Harts /\ reg'[h] = << >>
      /\ todo' = [todo EXCEPT ![h] = Tail(td)]
      /\ taken' = {k \in taken : ~SameByte(k, u.page)} \union Put(reg[h][1], u, "taken")
      /\ last' = {k \in last : ~SameByte(k, u.page)} \union Put(reg[h][2], u, "last")
  BY DEF Store, StepInv, StepTypes, table, loops, ghosts
<1>2. td \in Seq(Update_Type) /\ td # << >> /\ h \in Harts /\ todo \in [Harts -> Seq(Update_Type)]
  BY <1>1 DEF StepInv, StepTypes
<1>3. todo'[h] = Tail(td) /\ todo' \in [Harts -> Seq(Update_Type)]
  BY <1>1, <1>2
<1>4. /\ reg[h][1] = {k \in taken : SameByte(k, u.page)}
      /\ reg[h][2] = {k \in last : SameByte(k, u.page)}
  BY <1>1 DEF StepInv, ByteCurrent
<1>5. taken' = Put(taken, u, "taken") /\ last' = Put(last, u, "last")
  BY <1>1, <1>4, ByteWrite
<1>6. u \in Update_Type
  BY <1>1, <1>2, DueHead
<1>7. \A b, v : AllSet(td, b, v) => AllSet(Tail(td), b, v) /\ (u.bit = b => u.set = v)
  BY <1>1, <1>2, KindHead
<1>8. ASSUME NEW b, NEW S, AllSet(td, b, TRUE)
      PROVE  Put(S, u, b) \union Due(Tail(td), b) = S \union Due(td, b)
  <2>1. u.bit = b => u.set = TRUE
    BY <1>7, <1>8
  <2>2. Due(td, b) = Due(Tail(td), b) \union (IF u.bit = b THEN {u.page} ELSE {})
    BY <1>2, DueHead
  <2> QED BY <2>1, <2>2 DEF Put
<1>9. ASSUME NEW b, NEW S, AllSet(td, b, FALSE)
      PROVE  Put(S, u, b) \ Due(Tail(td), b) = S \ Due(td, b)
  <2>1. u.bit = b => u.set = FALSE
    BY <1>7, <1>9
  <2>2. Due(td, b) = Due(Tail(td), b) \union (IF u.bit = b THEN {u.page} ELSE {})
    BY <1>2, DueHead
  <2> QED BY <2>1, <2>2 DEF Put
<1> HIDE DEF td, u
<1>10. UNCHANGED <<T0, L0>>
  BY <1>1 DEF T0, L0
<1>11. pc[h] \in {"marked", "loop", "freed"}
  BY <1>1, <1>2 DEF StepInv, StepTypes, WhileIdle, WhileScanning, td
<1>12. WhileMarking(h)'
  BY <1>1, <1>3, <1>5, <1>7, <1>8, <1>10 DEF StepInv, WhileMarking, Scanned, td
<1>13. WhileLooping(h)'
  <2> SUFFICES ASSUME pc[h] = "loop" PROVE WhileLooping(h)'
    BY <1>1 DEF WhileLooping
  <2>1. Given(h)' /\ Marked0(h)' = Marked0(h)
    BY <1>1, <1>10 DEF StepInv, WhileLooping, Given, Marked0
  <2> QED BY <2>1, <1>1, <1>3, <1>5, <1>7, <1>8, <1>9, <1>10 DEF StepInv, WhileLooping, td
<1>14. WhileFreeing(h)'
  <2> SUFFICES ASSUME pc[h] = "freed" PROVE WhileFreeing(h)'
    BY <1>1 DEF WhileFreeing
  <2>1. Given(h)' /\ Marked0(h)' = Marked0(h)
    BY <1>1, <1>10 DEF StepInv, WhileFreeing, Given, Marked0
  <2> QED BY <2>1, <1>1, <1>3, <1>5, <1>7, <1>9, <1>10 DEF StepInv, WhileFreeing, td
<1>15. taken' \subseteq Pages /\ last' \subseteq Int
  <2>1. last' \subseteq Int
    BY <1>5, <1>6 DEF StepInv, StepTypes, Put, Update_Type
  <2>2. CASE pc[h] = "marked"
    <3>1. taken' \subseteq T0 \union (i[h] .. j[h])
      BY <2>2, <1>12, <1>1, <1>10 DEF WhileMarking
    <3>2. i[h] .. j[h] \subseteq Pages
      BY <2>2, PagesAssumption DEF StepInv, StepTypes, WhileMarking, Pages
    <3> QED BY <2>1, <3>1, <3>2 DEF StepInv, StepTypes
  <2>3. CASE pc[h] \in {"loop", "freed"}
    <3>1. u.bit = "taken" => u.set = FALSE
      BY <2>3, <1>7 DEF StepInv, WhileLooping, WhileFreeing, td
    <3> QED BY <2>1, <3>1, <1>5 DEF StepInv, StepTypes, Put
  <2> QED BY <2>2, <2>3, <1>11
<1>16. StepTypes(h)'
  BY <1>1, <1>3, <1>10, <1>15 DEF StepInv, StepTypes
<1>17. ByteCurrent(h)' /\ WhileIdle(h)' /\ WhileScanning(h)'
  BY <1>1, <1>11 DEF ByteCurrent, WhileIdle, WhileScanning
<1>18. UNCHANGED Atomic!vars
  BY <1>1, <1>11, HiddenStep
<1> QED BY <1>12, <1>13, <1>14, <1>16, <1>17, <1>18 DEF StepInv

LEMMA AllocCallStep ==
    ASSUME NEW h, Harts = {h}, StepInv(h), NEW n \in Sizes, AllocCall(h, n)
    PROVE  StepInv(h)' /\ UNCHANGED Atomic!vars
<1>1. /\ UNCHANGED <<taken, last, live, result, todo, reg, giving>>
      /\ pc[h] = "idle" /\ todo[h] = << >> /\ before' = <<taken, last>>
      /\ pc' = [pc EXCEPT ![h] = "scan"] /\ want' = [want EXCEPT ![h] = n]
      /\ i' = [i EXCEPT ![h] = 0] /\ j' = [j EXCEPT ![h] = 0]
  BY DEF AllocCall, Ready, table
<1>2. T0' = taken /\ L0' = last
  BY <1>1 DEF T0, L0
<1>3. /\ pc' \in [Harts -> {"idle", "scan", "marked", "loop", "freed"}] /\ pc'[h] = "scan"
      /\ want' \in [Harts -> Nat] /\ want'[h] = n
      /\ i' \in [Harts -> Nat] /\ i'[h] = 0
      /\ j' \in [Harts -> Nat] /\ j'[h] = 0
  BY <1>1, SizesAssumption DEF StepInv, StepTypes
<1>4. StepTypes(h)'
  BY <1>1, <1>2, <1>3 DEF StepInv, StepTypes
<1>5. ByteCurrent(h)'
  BY <1>1 DEF StepInv, ByteCurrent
<1>6. WhileScanning(h)'
  BY <1>1, <1>2, <1>3, PagesAssumption, SizesAssumption DEF WhileScanning, Scanned, Need
<1>7. WhileIdle(h)' /\ WhileMarking(h)' /\ WhileLooping(h)' /\ WhileFreeing(h)'
  BY <1>3 DEF WhileIdle, WhileMarking, WhileLooping, WhileFreeing
<1>8. UNCHANGED Atomic!vars
  BY <1>1, <1>3, HiddenStep DEF table
<1> QED BY <1>4, <1>5, <1>6, <1>7, <1>8 DEF StepInv

\* The scan gives up a page from which the request does not fit.
LEMMA NextStartStep ==
    ASSUME NEW h, Harts = {h}, StepInv(h), NextStart(h)
    PROVE  StepInv(h)' /\ UNCHANGED Atomic!vars
<1>1. /\ UNCHANGED <<taken, last, live, result, pc, want, todo, reg, giving, before>>
      /\ pc[h] = "scan" /\ i[h] < ScanPages
      /\ j[h] \in taken \/ j[h] >= TotalPages
      /\ i' = [i EXCEPT ![h] = i[h] + 1] /\ j' = [j EXCEPT ![h] = i[h] + 1]
  BY DEF NextStart, Ready, table, ghosts
<1>2. UNCHANGED <<T0, L0>>
  BY <1>1 DEF T0, L0
<1>3. /\ i[h] \in Nat /\ j[h] \in Nat /\ want[h] \in Nat
      /\ i' \in [Harts -> Nat] /\ i'[h] = i[h] + 1
      /\ j' \in [Harts -> Nat] /\ j'[h] = i[h] + 1
  BY <1>1 DEF StepInv, StepTypes
<1>4. /\ Scanned(h) /\ taken = T0 /\ j[h] <= TotalPages /\ j[h] - i[h] < Need(want[h])
      /\ todo[h] = << >> /\ last = L0
  BY <1>1 DEF StepInv, WhileScanning
<1>5. ~Fits(T0, want[h], i[h])
  <2>1. i[h] <= j[h] /\ Need(want[h]) \in Nat
    BY <1>3, <1>4 DEF Scanned, Need
  <2>2. CASE j[h] \in taken
    <3>1. j[h] \in i[h] .. i[h] + Need(want[h]) - 1
      BY <1>3, <1>4, <2>1
    <3> QED BY <3>1, <2>2, <1>4 DEF Fits
  <2>3. CASE j[h] >= TotalPages
    <3>1. ~(i[h] + Need(want[h]) <= TotalPages)
      BY <1>3, <1>4, <2>1, <2>3, PagesAssumption
    <3> QED BY <3>1 DEF Fits
  <2> QED BY <1>1, <2>2, <2>3
<1>6. Scanned(h)'
  <2>1. \A k \in 0 .. i[h] : ~Fits(T0, want[h], k)
    BY <1>3, <1>4, <1>5 DEF Scanned
  <2>2. /\ want'[h] \in Sizes /\ i'[h] <= j'[h]
        /\ \A k \in i'[h] .. j'[h] - 1 : k \notin T0'
    BY <1>1, <1>3, <1>4 DEF Scanned
  <2>3. \A k \in 0 .. i'[h] - 1 : ~Fits(T0', want'[h], k)
    BY <1>1, <1>2, <1>3, <2>1
  <2> QED BY <2>2, <2>3 DEF Scanned
<1>7. StepTypes(h)' /\ ByteCurrent(h)'
  BY <1>1, <1>2, <1>3 DEF StepInv, StepTypes, ByteCurrent
<1>8. WhileScanning(h)'
  BY <1>1, <1>2, <1>3, <1>4, <1>6, PagesAssumption DEF WhileScanning, Need
<1>9. WhileIdle(h)' /\ WhileMarking(h)' /\ WhileLooping(h)' /\ WhileFreeing(h)'
  BY <1>1 DEF WhileIdle, WhileMarking, WhileLooping, WhileFreeing
<1>10. UNCHANGED Atomic!vars
  BY <1>1, HiddenStep
<1> QED BY <1>6, <1>7, <1>8, <1>9, <1>10 DEF StepInv

\* The updates of page_znalloc set the taken bits from page a to page e and
\* then the last bit of page e.
LEMMA MarkList ==
    ASSUME NEW a \in Nat, NEW e \in Nat, a <= e
    PROVE  LET td == [k \in 1 .. e - a + 2 |->
                        IF k <= e - a + 1 THEN Update("taken", a + k - 1, TRUE)
                        ELSE Update("last", e, TRUE)]
           IN /\ td \in Seq(Update_Type)
              /\ AllSet(td, "taken", TRUE) /\ AllSet(td, "last", TRUE)
              /\ Due(td, "taken") = a .. e /\ Due(td, "last") = {e}
<1> DEFINE n == e - a + 1
           td == [k \in 1 .. e - a + 2 |->
                    IF k <= e - a + 1 THEN Update("taken", a + k - 1, TRUE)
                    ELSE Update("last", e, TRUE)]
<1>1. n \in Nat /\ e - a + 2 = n + 1 /\ e = a + n - 1
  OBVIOUS
<1>2. /\ td = [k \in 1 .. n + 1 |-> IF k <= n THEN Update("taken", a + k - 1, TRUE)
                                     ELSE Update("last", e, TRUE)]
  BY <1>1
<1> HIDE DEF n, td
<1>3. ASSUME NEW k \in 1 .. n
      PROVE  td[k].bit = "taken" /\ td[k].set = TRUE /\ td[k].page = a + k - 1
  BY <1>1, <1>2 DEF Update
<1>4. td[n + 1].bit = "last" /\ td[n + 1].set = TRUE /\ td[n + 1].page = e
  BY <1>1, <1>2 DEF Update
<1>5. ASSUME NEW k \in 1 .. n + 1
      PROVE  (IF k <= n THEN Update("taken", a + k - 1, TRUE) ELSE Update("last", e, TRUE))
                \in Update_Type
  BY <1>1 DEF Update, Update_Type
<1>6. td \in [1 .. n + 1 -> Update_Type]
  BY <1>2, <1>5, Zenon
<1>7. DOMAIN td = 1 .. n + 1 /\ td \in Seq(Update_Type)
  BY <1>1, <1>6
<1>8. \A k \in 1 .. n + 1 : k \in 1 .. n \/ k = n + 1
  BY <1>1
<1>9. AllSet(td, "taken", TRUE) /\ AllSet(td, "last", TRUE)
  BY <1>3, <1>4, <1>7, <1>8 DEF AllSet
<1>10. Due(td, "last") = {e}
  <2>1. ASSUME NEW p \in Due(td, "last") PROVE p = e
    <3>1. PICK k \in 1 .. n + 1 : td[k].bit = "last" /\ td[k].page = p
      BY <1>7 DEF Due
    <3> QED BY <3>1, <1>3, <1>4, <1>8
  <2>2. n + 1 \in DOMAIN td
    BY <1>1, <1>7
  <2>3. e \in Due(td, "last")
    BY <2>2, <1>4 DEF Due
  <2> QED BY <2>1, <2>3
<1>11. ASSUME NEW p \in Due(td, "taken") PROVE p \in a .. e
  <2>1. PICK k \in 1 .. n + 1 : td[k].bit = "taken" /\ td[k].page = p
    BY <1>7 DEF Due
  <2>2. k \in 1 .. n /\ p = a + k - 1
    BY <2>1, <1>3, <1>4, <1>8
  <2> QED BY <2>2, <1>1
<1>12. ASSUME NEW p \in a .. e PROVE p \in Due(td, "taken")
  <2>1. p - a + 1 \in 1 .. n /\ p = a + (p - a + 1) - 1 /\ p - a + 1 \in 1 .. n + 1
    BY <1>1
  <2>2. td[p - a + 1].bit = "taken" /\ td[p - a + 1].page = p
    BY <2>1, <1>3
  <2> QED BY <2>1, <2>2, <1>7 DEF Due
<1>13. Due(td, "taken") = a .. e
  BY <1>11, <1>12, Zenon
<1> QED BY <1>7, <1>9, <1>10, <1>13 DEF td

\* The scan goes on to the next page, or has found a run of the length asked
\* for and begins to mark it.
LEMMA ConsecutiveStep ==
    ASSUME NEW h, Harts = {h}, StepInv(h), Consecutive(h)
    PROVE  StepInv(h)' /\ UNCHANGED Atomic!vars
<1> DEFINE td == [k \in 1 .. j[h] - i[h] + 2 |->
                    IF k <= j[h] - i[h] + 1 THEN Update("taken", i[h] + k - 1, TRUE)
                    ELSE Update("last", j[h], TRUE)]
<1>1. /\ UNCHANGED <<taken, last, live, result, want, i, reg, giving, before>>
      /\ pc[h] = "scan" /\ todo[h] = << >> /\ i[h] < ScanPages
      /\ j[h] < TotalPages /\ j[h] \notin taken
  BY DEF Consecutive, Ready, table, ghosts
<1>2. \/ /\ ~Enough(h) /\ j' = [j EXCEPT ![h] = j[h] + 1] /\ UNCHANGED <<pc, todo>>
      \/ /\ Enough(h) /\ todo' = [todo EXCEPT ![h] = td]
         /\ pc' = [pc EXCEPT ![h] = "marked"] /\ UNCHANGED j
  BY DEF Consecutive
<1> HIDE DEF td
<1>3. UNCHANGED <<T0, L0>>
  BY <1>1 DEF T0, L0
<1>4. i[h] \in Nat /\ j[h] \in Nat /\ want[h] \in Nat /\ Need(want[h]) \in Nat
  BY DEF StepInv, StepTypes, Need
<1>5. /\ Scanned(h) /\ taken = T0 /\ last = L0 /\ i[h] <= ScanPages
      /\ i[h] <= j[h] /\ j[h] <= TotalPages /\ j[h] - i[h] < Need(want[h])
      /\ reg[h] = << >>
  BY <1>1 DEF StepInv, WhileScanning, ByteCurrent, Scanned
<1>6. CASE ~Enough(h) /\ j' = [j EXCEPT ![h] = j[h] + 1] /\ UNCHANGED <<pc, todo>>
  <2>1. j' \in [Harts -> Nat] /\ j'[h] = j[h] + 1
    BY <1>4, <1>6 DEF StepInv, StepTypes
  <2>2. Scanned(h)'
    <3>1. \A k \in i[h] .. j[h] : k \notin T0
      BY <1>1, <1>4, <1>5 DEF Scanned
    <3>2. \A k \in i'[h] .. j'[h] - 1 : k \notin T0'
      BY <1>1, <1>3, <1>4, <2>1, <3>1
    <3> QED BY <3>2, <1>1, <1>3, <1>4, <1>5, <2>1 DEF Scanned
  <2>3. j[h] + 1 - i[h] < Need(want[h])
    BY <1>4, <1>5, <1>6 DEF Enough, Need
  <2>4. WhileScanning(h)'
    BY <1>1, <1>3, <1>4, <1>5, <1>6, <2>1, <2>2, <2>3, PagesAssumption DEF WhileScanning
  <2>5. StepTypes(h)' /\ ByteCurrent(h)'
    BY <1>1, <1>3, <1>6, <2>1 DEF StepInv, StepTypes, ByteCurrent
  <2>6. WhileIdle(h)' /\ WhileMarking(h)' /\ WhileLooping(h)' /\ WhileFreeing(h)'
    BY <1>1, <1>6 DEF WhileIdle, WhileMarking, WhileLooping, WhileFreeing
  <2>7. UNCHANGED Atomic!vars
    BY <1>1, <1>6, HiddenStep
  <2> QED BY <2>4, <2>5, <2>6, <2>7 DEF StepInv
<1>7. CASE /\ Enough(h) /\ todo' = [todo EXCEPT ![h] = td]
           /\ pc' = [pc EXCEPT ![h] = "marked"] /\ UNCHANGED j
  <2>1. /\ td \in Seq(Update_Type)
        /\ AllSet(td, "taken", TRUE) /\ AllSet(td, "last", TRUE)
        /\ Due(td, "taken") = i[h] .. j[h] /\ Due(td, "last") = {j[h]}
    BY <1>4, <1>5, MarkList DEF td
  <2>2. /\ todo' \in [Harts -> Seq(Update_Type)] /\ todo'[h] = td
        /\ pc' \in [Harts -> {"idle", "scan", "marked", "loop", "freed"}] /\ pc'[h] = "marked"
    BY <1>7, <2>1 DEF StepInv, StepTypes
  <2>3. j[h] - i[h] + 1 = Need(want[h])
    BY <1>4, <1>5, <1>7 DEF Enough, Need
  <2>4. Scanned(h)'
    BY <1>1, <1>3, <1>5, <1>7 DEF Scanned
  <2>5. WhileMarking(h)'
    BY <1>1, <1>3, <1>5, <1>7, <2>1, <2>2, <2>3, <2>4 DEF WhileMarking
  <2>6. StepTypes(h)'
    BY <1>1, <1>3, <1>7, <2>2 DEF StepInv, StepTypes
  <2>7. ByteCurrent(h)'
    BY <1>1, <1>5 DEF ByteCurrent
  <2>8. WhileIdle(h)' /\ WhileScanning(h)' /\ WhileLooping(h)' /\ WhileFreeing(h)'
    BY <2>2 DEF WhileIdle, WhileScanning, WhileLooping, WhileFreeing
  <2>9. UNCHANGED Atomic!vars
    BY <1>1, <2>2, HiddenStep
  <2> QED BY <2>5, <2>6, <2>7, <2>8, <2>9 DEF StepInv
<1> QED BY <1>2, <1>6, <1>7

\* What a return leaves of the invariant.
LEMMA ReturnInv ==
    ASSUME NEW h, Harts = {h}, StepInv(h), todo[h] = << >>,
           pc' = [pc EXCEPT ![h] = "idle"], live' \subseteq Interval, DOMAIN giving' = Harts,
           UNCHANGED <<taken, last, want, i, j, todo, reg, before>>
    PROVE  StepInv(h)'
<1>1. pc' \in [Harts -> {"idle", "scan", "marked", "loop", "freed"}] /\ pc'[h] = "idle"
  BY DEF StepInv, StepTypes
<1>2. UNCHANGED <<T0, L0>>
  BY DEF T0, L0
<1>3. StepTypes(h)' /\ ByteCurrent(h)'
  BY <1>1, <1>2 DEF StepInv, StepTypes, ByteCurrent
<1>4. WhileIdle(h)' /\ WhileScanning(h)' /\ WhileMarking(h)' /\ WhileLooping(h)'
         /\ WhileFreeing(h)'
  BY <1>1 DEF WhileIdle, WhileScanning, WhileMarking, WhileLooping, WhileFreeing
<1> QED BY <1>3, <1>4 DEF StepInv

\* page_znalloc returns the first fit, with its bits set and no others.
LEMMA AllocReturnStep ==
    ASSUME NEW h, Harts = {h}, StepInv(h), AllocReturn(h)
    PROVE  StepInv(h)' /\ Atomic!Next
<1>1. /\ UNCHANGED <<taken, last, want, i, j, todo, reg, giving, before>>
      /\ pc[h] = "marked" /\ todo[h] = << >> /\ pc' = [pc EXCEPT ![h] = "idle"]
      /\ live' = live \union {<<i[h], j[h]>>} /\ result' = <<"alloc", i[h], want[h]>>
  BY DEF AllocReturn, Ready, table, loops, ghosts
<1>2. i[h] \in Nat /\ j[h] \in Nat /\ want[h] \in Nat /\ pc'[h] = "idle"
  BY <1>1 DEF StepInv, StepTypes
<1>3. /\ want[h] \in Sizes /\ i[h] <= j[h] /\ i[h] < ScanPages /\ j[h] < TotalPages
      /\ j[h] \notin T0 /\ j[h] - i[h] + 1 = Need(want[h])
      /\ \A k \in 0 .. i[h] - 1 : ~Fits(T0, want[h], k)
      /\ \A k \in i[h] .. j[h] - 1 : k \notin T0
  BY <1>1 DEF StepInv, WhileMarking, Scanned
<1>4. taken = T0 \union (i[h] .. j[h]) /\ last = L0 \union {j[h]}
  BY <1>1, NothingDue DEF StepInv, WhileMarking
<1>5. Fits(T0, want[h], i[h]) /\ i[h] + Need(want[h]) - 1 = j[h]
  <2>1. i[h] + Need(want[h]) - 1 = j[h] /\ i[h] + Need(want[h]) <= TotalPages
    BY <1>2, <1>3, PagesAssumption
  <2>2. \A k \in i[h] .. j[h] : k \notin T0
    BY <1>2, <1>3
  <2> QED BY <2>1, <2>2 DEF Fits
<1>6. FirstFit(T0, want[h]) = i[h] /\ i[h] # NoPage
  BY <1>2, <1>3, <1>5, FirstFitIs, PagesAssumption DEF NoPage
<1>7. TakenSeen = T0 /\ LastSeen = L0 /\ TakenSeen' = taken /\ LastSeen' = last
  BY <1>1, <1>2, SeenAtReturn DEF table
<1>8. Atomic!FirstFit(TakenSeen, want[h]) = i[h] /\ i[h] # Atomic!NoPage
         /\ i[h] + Atomic!Need(want[h]) - 1 = j[h]
  BY <1>5, <1>6, <1>7, SameTable
<1>9. Atomic!Alloc(want[h])
  BY <1>1, <1>4, <1>7, <1>8 DEF Atomic!Alloc
<1>10. Atomic!Next
  BY <1>3, <1>9 DEF Atomic!Next
<1>11. <<i[h], j[h]>> \in Interval
  BY <1>2, <1>3, PagesAssumption DEF Interval, Pages
<1>12. live' \subseteq Interval /\ DOMAIN giving' = Harts
  BY <1>1, <1>11 DEF StepInv, StepTypes
<1> QED BY <1>1, <1>10, <1>12, ReturnInv

\* page_znalloc returns NULL only when nothing fits.
LEMMA AllocFailsStep ==
    ASSUME NEW h, Harts = {h}, StepInv(h), AllocFails(h)
    PROVE  StepInv(h)' /\ Atomic!Next
<1>1. /\ UNCHANGED <<taken, last, live, want, i, j, todo, reg, giving, before>>
      /\ pc[h] = "scan" /\ todo[h] = << >> /\ pc' = [pc EXCEPT ![h] = "idle"]
      /\ i[h] >= ScanPages /\ result' = <<"alloc", NoPage, want[h]>>
  BY DEF AllocFails, Ready, table, loops, ghosts
<1>2. i[h] \in Nat /\ want[h] \in Sizes /\ pc'[h] = "idle"
  BY <1>1 DEF StepInv, StepTypes, WhileScanning, Scanned
<1>3. /\ taken = T0 /\ last = L0
      /\ \A k \in 0 .. i[h] - 1 : ~Fits(T0, want[h], k)
  BY <1>1 DEF StepInv, WhileScanning, Scanned
<1>4. FirstFit(T0, want[h]) = NoPage
  <2>1. \A k \in 0 .. ScanPages - 1 : ~Fits(T0, want[h], k)
    BY <1>1, <1>2, <1>3, PagesAssumption
  <2> QED BY <2>1, NoFit
<1>5. TakenSeen = T0 /\ LastSeen = L0 /\ TakenSeen' = taken /\ LastSeen' = last
  BY <1>1, <1>2, SeenAtReturn DEF table
<1>6. Atomic!FirstFit(TakenSeen, want[h]) = Atomic!NoPage /\ NoPage = Atomic!NoPage
  BY <1>4, <1>5, SameTable
<1>7. Atomic!Alloc(want[h])
  BY <1>1, <1>3, <1>5, <1>6 DEF Atomic!Alloc
<1>8. Atomic!Next
  BY <1>2, <1>7 DEF Atomic!Next
<1>9. live' \subseteq Interval /\ DOMAIN giving' = Harts
  BY <1>1 DEF StepInv, StepTypes
<1> QED BY <1>1, <1>8, <1>9, ReturnInv

\* The updates of page_free, one or two at a time.
One(b, p, v) == <<Update(b, p, v)>>
ClearBoth(p) == <<Update("taken", p, FALSE), Update("last", p, FALSE)>>

LEMMA ShortLists ==
    ASSUME NEW p \in Int, NEW v \in BOOLEAN, NEW b \in {"taken", "last"}
    PROVE  /\ One(b, p, v) \in Seq(Update_Type)
           /\ AllSet(One(b, p, v), b, v)
           /\ Due(One(b, p, v), b) = {p}
           /\ \A c : c # b => /\ Due(One(b, p, v), c) = {}
                             /\ \A w : AllSet(One(b, p, v), c, w)
<1> DEFINE td == One(b, p, v)
<1>1. Update(b, p, v) \in Update_Type
  BY DEF Update, Update_Type
<1>2. td \in Seq(Update_Type) /\ DOMAIN td = {1} /\ td[1] = Update(b, p, v)
  BY <1>1 DEF One
<1>3. td[1].bit = b /\ td[1].set = v /\ td[1].page = p
  BY <1>2 DEF Update
<1> HIDE DEF td
<1>4. Due(td, b) = {p} /\ \A c : c # b => Due(td, c) = {}
  BY <1>2, <1>3 DEF Due
<1>5. AllSet(td, b, v) /\ \A c, w : c # b => AllSet(td, c, w)
  BY <1>2, <1>3 DEF AllSet
<1> QED BY <1>2, <1>4, <1>5 DEF td

LEMMA ClearPair ==
    ASSUME NEW p \in Int
    PROVE  /\ ClearBoth(p) \in Seq(Update_Type)
           /\ AllSet(ClearBoth(p), "taken", FALSE) /\ AllSet(ClearBoth(p), "last", FALSE)
           /\ Due(ClearBoth(p), "taken") = {p} /\ Due(ClearBoth(p), "last") = {p}
<1> DEFINE td == ClearBoth(p)
           u == Update("taken", p, FALSE)
           w == Update("last", p, FALSE)
<1>1. u \in Update_Type /\ w \in Update_Type
  BY DEF Update, Update_Type
<1>2. /\ u.bit = "taken" /\ u.set = FALSE /\ u.page = p
      /\ w.bit = "last" /\ w.set = FALSE /\ w.page = p
  BY DEF Update
<1>3. td = <<u, w>>
  BY DEF ClearBoth
<1> HIDE DEF td, u, w
<1>4. td \in Seq(Update_Type) /\ Len(td) = 2 /\ td[1] = u /\ td[2] = w
  BY <1>1, <1>3
<1>5. DOMAIN td = {1, 2}
  <2>1. DOMAIN td = 1 .. 2
    BY <1>4
  <2> QED BY <2>1
<1>6. Due(td, "taken") = {p} /\ Due(td, "last") = {p}
  BY <1>2, <1>4, <1>5 DEF Due
<1>7. AllSet(td, "taken", FALSE) /\ AllSet(td, "last", FALSE)
  BY <1>2, <1>4, <1>5 DEF AllSet
<1> QED BY <1>4, <1>6, <1>7 DEF td

\* What a caller may free: a page of an allocation it holds, or one that
\* nobody holds.
MayFree(loc, old, kept) ==
    \/ /\ old = {} /\ kept = {}
       /\ \A a \in live \union {Bookkeeping} : loc \notin Covers(a)
    \/ \E a \in live : /\ old = {a} /\ loc \in Covers(a)
                       /\ kept = IF loc = a[1] THEN {} ELSE {<<a[1], loc - 1>>}

LEMMA FreeCallStep ==
    ASSUME NEW h, Harts = {h}, StepInv(h), NEW loc \in Pages, NEW old, NEW kept,
           MayFree(loc, old, kept), PageFreeCall(h, loc, old, kept)
    PROVE  StepInv(h)' /\ UNCHANGED Atomic!vars
<1> DEFINE td == IF loc - 1 \in taken THEN One("last", loc - 1, TRUE) ELSE << >>
<1>1. /\ UNCHANGED <<taken, last, live, result, want, j, reg>>
      /\ pc[h] = "idle" /\ todo[h] = << >> /\ before' = <<taken, last>>
      /\ pc' = [pc EXCEPT ![h] = "loop"] /\ i' = [i EXCEPT ![h] = loc]
      /\ todo' = [todo EXCEPT ![h] = td]
      /\ giving' = [giving EXCEPT ![h] = [loc |-> loc, old |-> old, kept |-> kept]]
  BY DEF PageFreeCall, Ready, table, One
<1>2. T0' = taken /\ L0' = last /\ loc \in Nat /\ loc - 1 \in Int
  BY <1>1, PagesAssumption DEF T0, L0, Pages
<1>3. /\ td \in Seq(Update_Type) /\ AllSet(td, "taken", FALSE) /\ AllSet(td, "last", TRUE)
      /\ Due(td, "taken") = {} /\ Due(td, "last") = {loc - 1} \intersect taken
  <2>1. CASE loc - 1 \in taken
    <3>1. td = One("last", loc - 1, TRUE)
      BY <2>1
    <3> HIDE DEF td
    <3>2. Due(td, "last") = {loc - 1} /\ {loc - 1} \intersect taken = {loc - 1}
      BY <2>1, <3>1, <1>2, ShortLists
    <3>3. td \in Seq(Update_Type) /\ AllSet(td, "last", TRUE)
      BY <3>1, <1>2, ShortLists
    <3>4. "taken" # "last" /\ Due(td, "taken") = {} /\ AllSet(td, "taken", FALSE)
      BY <3>1, <1>2, ShortLists
    <3> QED BY <3>2, <3>3, <3>4
  <2>2. CASE loc - 1 \notin taken
    <3>1. td = << >>
      BY <2>2
    <3> HIDE DEF td
    <3> QED BY <2>2, <3>1, NothingDue DEF AllSet
  <2> QED BY <2>1, <2>2
<1> HIDE DEF td
<1>4. /\ pc' \in [Harts -> {"idle", "scan", "marked", "loop", "freed"}] /\ pc'[h] = "loop"
      /\ i' \in [Harts -> Nat] /\ i'[h] = loc
      /\ todo' \in [Harts -> Seq(Update_Type)] /\ todo'[h] = td
      /\ DOMAIN giving' = Harts
      /\ giving'[h] = [loc |-> loc, old |-> old, kept |-> kept]
  BY <1>1, <1>2, <1>3 DEF StepInv, StepTypes
<1>5. giving'[h].loc = loc /\ giving'[h].old = old /\ giving'[h].kept = kept
  BY <1>4
<1>6. StepTypes(h)'
  BY <1>1, <1>2, <1>4 DEF StepInv, StepTypes
<1>7. reg'[h] = << >>
  BY <1>1 DEF StepInv, ByteCurrent
<1>8. Given(h)'
  <2>1. \A k \in loc .. loc - 1 : FALSE
    BY <1>2
  <2> QED BY <2>1, <1>1, <1>2, <1>4, <1>5 DEF Given, MayFree
<1>9. taken' \ Due(todo'[h], "taken") = T0' \ (loc .. i'[h] - 1)
  <2>1. loc .. i'[h] - 1 = {}
    BY <1>2, <1>4
  <2> QED BY <2>1, <1>1, <1>2, <1>3, <1>4
<1>10. Marked0(h)' = last \union ({loc - 1} \intersect taken)
  BY <1>2, <1>5 DEF Marked0
<1>11. WhileLooping(h)'
  BY <1>1, <1>3, <1>4, <1>5, <1>8, <1>9, <1>10 DEF WhileLooping
<1>12. ByteCurrent(h)' /\ WhileIdle(h)' /\ WhileScanning(h)' /\ WhileMarking(h)'
          /\ WhileFreeing(h)'
  BY <1>4, <1>7 DEF ByteCurrent, WhileIdle, WhileScanning, WhileMarking, WhileFreeing
<1>13. UNCHANGED Atomic!vars
  BY <1>1, <1>4, HiddenStep DEF table
<1> QED BY <1>6, <1>11, <1>12, <1>13 DEF StepInv

\* One round of the loop of page_free.
LEMMA FreeLoopStep ==
    ASSUME NEW h, Harts = {h}, StepInv(h), FreeLoop(h)
    PROVE  StepInv(h)' /\ UNCHANGED Atomic!vars
<1> DEFINE loc == giving[h].loc
<1>1. /\ UNCHANGED <<taken, last, live, result, want, j, reg, giving, before>>
      /\ pc[h] = "loop" /\ todo[h] = << >> /\ i[h] \in taken
  BY DEF FreeLoop, Ready, table, ghosts
<1>2. UNCHANGED <<T0, L0>> /\ Marked0(h)' = Marked0(h)
  BY <1>1 DEF T0, L0, Marked0
<1>3. i[h] \in Nat /\ loc \in Nat /\ loc <= i[h] /\ Given(h)
  <2>1. i[h] \in Nat /\ Given(h)
    BY <1>1 DEF StepInv, StepTypes, WhileLooping
  <2>2. loc \in Pages /\ loc <= i[h]
    BY <2>1 DEF Given
  <2> QED BY <2>1, <2>2, PagesAssumption DEF Pages
<1>4. taken = T0 \ (loc .. i[h] - 1) /\ last = Marked0(h) /\ reg[h] = << >>
  BY <1>1, NothingDue DEF StepInv, WhileLooping, ByteCurrent
<1>5. i[h] \in T0 /\ (i[h] \in last <=> i[h] \in L0)
  BY <1>1, <1>3, <1>4 DEF Marked0
<1>6. loc .. i[h] = (loc .. i[h] - 1) \union {i[h]}
  BY <1>3
<1>7. taken \ {i[h]} = T0 \ (loc .. i[h])
  BY <1>4, <1>6
<1> HIDE DEF loc
<1>8. CASE /\ i[h] \in last /\ pc' = [pc EXCEPT ![h] = "freed"] /\ UNCHANGED i
           /\ todo' = [todo EXCEPT ![h] = ClearBoth(i[h])]
  <2> DEFINE td == ClearBoth(i[h])
  <2>1. /\ td \in Seq(Update_Type)
        /\ AllSet(td, "taken", FALSE) /\ AllSet(td, "last", FALSE)
        /\ Due(td, "taken") = {i[h]} /\ Due(td, "last") = {i[h]}
    <3>1. i[h] \in Int
      BY <1>3
    <3> QED BY <3>1, ClearPair, Zenon
  <2>2. todo' = [todo EXCEPT ![h] = td]
    BY <1>8
  <2> HIDE DEF td
  <2>3. /\ todo' \in [Harts -> Seq(Update_Type)] /\ todo'[h] = td
        /\ pc' \in [Harts -> {"idle", "scan", "marked", "loop", "freed"}] /\ pc'[h] = "freed"
    BY <1>8, <2>1, <2>2 DEF StepInv, StepTypes
  <2>4. Given(h)'
    BY <1>1, <1>2, <1>3, <1>8 DEF Given
  <2>5. WhileFreeing(h)'
    BY <1>1, <1>2, <1>4, <1>5, <1>7, <1>8, <2>1, <2>3, <2>4 DEF WhileFreeing, loc
  <2>6. StepTypes(h)'
    BY <1>1, <1>2, <1>8, <2>3 DEF StepInv, StepTypes
  <2>7. ByteCurrent(h)' /\ WhileIdle(h)' /\ WhileScanning(h)' /\ WhileMarking(h)'
           /\ WhileLooping(h)'
    BY <1>1, <1>4, <2>3 DEF ByteCurrent, WhileIdle, WhileScanning, WhileMarking, WhileLooping
  <2>8. UNCHANGED Atomic!vars
    BY <1>1, <2>3, HiddenStep
  <2> QED BY <2>5, <2>6, <2>7, <2>8 DEF StepInv
<1>9. CASE /\ i[h] \notin last /\ i' = [i EXCEPT ![h] = i[h] + 1] /\ UNCHANGED pc
           /\ todo' = [todo EXCEPT ![h] = One("taken", i[h], FALSE)]
  <2> DEFINE td == One("taken", i[h], FALSE)
  <2>1. /\ td \in Seq(Update_Type)
        /\ AllSet(td, "taken", FALSE) /\ AllSet(td, "last", TRUE)
        /\ Due(td, "taken") = {i[h]} /\ Due(td, "last") = {}
    <3>1. i[h] \in Int /\ "taken" # "last" /\ FALSE \in BOOLEAN /\ "taken" \in {"taken", "last"}
      BY <1>3
    <3> QED BY <3>1, ShortLists, Zenon
  <2>2. todo' = [todo EXCEPT ![h] = td]
    BY <1>9
  <2> HIDE DEF td
  <2>3. /\ todo' \in [Harts -> Seq(Update_Type)] /\ todo'[h] = td
        /\ i' \in [Harts -> Nat] /\ i'[h] = i[h] + 1
    <3>1. todo' \in [Harts -> Seq(Update_Type)] /\ todo'[h] = td
      BY <2>1, <2>2 DEF StepInv, StepTypes
    <3>2. i' = [i EXCEPT ![h] = i[h] + 1] /\ i \in [Harts -> Nat]
      BY <1>9 DEF StepInv, StepTypes
    <3> QED BY <1>3, <3>1, <3>2
  <2>4. Given(h)'
    <3>1. \A k \in loc .. i[h] : k \in T0 /\ k \notin L0
      BY <1>3, <1>5, <1>9 DEF Given, loc
    <3>2. \A k \in giving'[h].loc .. i'[h] - 1 : k \in T0' /\ k \notin L0'
      <4>1. i'[h] - 1 = i[h] /\ giving'[h].loc = loc
        BY <1>1, <1>3, <2>3 DEF loc
      <4> QED BY <4>1, <3>1, <1>2
    <3>3. giving'[h].loc \in Pages /\ giving'[h].loc <= i'[h]
      BY <1>1, <1>3, <2>3 DEF Given, loc
    <3> QED BY <3>2, <3>3, <1>1, <1>3 DEF Given
  <2>5. taken' \ Due(todo'[h], "taken") = T0' \ (giving'[h].loc .. i'[h] - 1)
    <3>1. i'[h] - 1 = i[h] /\ giving'[h].loc = loc
      BY <1>1, <1>3, <2>3 DEF loc
    <3> QED BY <3>1, <1>1, <1>2, <1>7, <2>1, <2>3
  <2>6. WhileLooping(h)'
    BY <1>1, <1>2, <1>4, <1>9, <2>1, <2>3, <2>4, <2>5 DEF WhileLooping
  <2>7. StepTypes(h)'
    BY <1>1, <1>2, <1>9, <2>3 DEF StepInv, StepTypes
  <2>8. ByteCurrent(h)' /\ WhileIdle(h)' /\ WhileScanning(h)' /\ WhileMarking(h)'
           /\ WhileFreeing(h)'
    BY <1>1, <1>4, <1>9 DEF ByteCurrent, WhileIdle, WhileScanning, WhileMarking, WhileFreeing
  <2>9. UNCHANGED Atomic!vars
    BY <1>1, <1>9, HiddenStep
  <2> QED BY <2>6, <2>7, <2>8, <2>9 DEF StepInv
<1> QED BY <1>8, <1>9 DEF FreeLoop, One, ClearBoth

LEMMA PageIsNat == \A p \in Pages : p \in Nat /\ p < TotalPages
BY PagesAssumption DEF Pages

\* What is left in front of a page freed inside an allocation.
LEMMA FrontPart ==
    ASSUME NEW a \in Interval, NEW loc \in Covers(a), loc # a[1]
    PROVE  loc \in a[1] + 1 .. a[2] /\ <<a[1], loc - 1>> \in Interval
<1>1. a[1] \in Pages /\ a[2] \in Pages
  BY DEF Interval
<1>2. a[1] \in Nat /\ a[2] \in Nat /\ a[2] < TotalPages
  BY <1>1, PageIsNat
<1>3. loc \in Nat /\ a[1] < loc /\ loc <= a[2]
  BY <1>2 DEF Covers
<1> QED BY <1>2, <1>3, PagesAssumption DEF Interval, Pages

\* page_free has released the pages up to where its loop stopped, and its
\* report is the one PageAlloc makes of the table it found.
LEMMA FreeDone ==
    ASSUME NEW h, Harts = {h}, StepInv(h), Given(h), NEW report,
           pc[h] # "idle", todo[h] = << >>, GiveUp(h, report),
           UNCHANGED <<taken, last, want, i, j, todo, reg, before>>,
           StopsAt(T0, L0, giving[h].loc, i[h]),
           taken = T0 \ (giving[h].loc .. i[h]),
           last = Marked0(h) \ (IF i[h] \in T0 THEN {i[h]} ELSE {}),
           report = IF i[h] \in T0 THEN "freed" ELSE "double free"
    PROVE  StepInv(h)' /\ Atomic!Next
<1> DEFINE loc == giving[h].loc
           old == giving[h].old
           kept == giving[h].kept
<1>1. /\ live' = (live \ old) \union kept /\ result' = <<report, loc, 0>>
      /\ giving' = [giving EXCEPT ![h] = NoFree] /\ pc' = [pc EXCEPT ![h] = "idle"]
  BY DEF GiveUp
<1>2. pc'[h] = "idle" /\ DOMAIN giving' = Harts
  BY <1>1 DEF StepInv, StepTypes
<1>3. TakenSeen = T0 /\ LastSeen = L0 /\ TakenSeen' = taken /\ LastSeen' = last
  BY <1>2, SeenAtReturn DEF table
<1>4. loc \in Pages /\ loc \in Nat
  <2>1. loc \in Pages
    BY DEF Given
  <2> QED BY <2>1, PageIsNat
<1>5. FreeStop(T0, L0, loc) = i[h]
  BY <1>4, LoopStop
<1>6. /\ taken = T0 \ (loc .. i[h])
      /\ last = (L0 \union ({loc - 1} \intersect T0)) \ (IF i[h] \in T0 THEN {i[h]} ELSE {})
  BY DEF Marked0
<1>7. \/ /\ old = {} /\ kept = {}
         /\ \A a \in live \union {Bookkeeping} : loc \notin Covers(a)
      \/ \E a \in live : /\ old = {a} /\ loc \in Covers(a)
                         /\ kept = IF loc = a[1] THEN {} ELSE {<<a[1], loc - 1>>}
  BY DEF Given
<1> HIDE DEF loc, old, kept
<1>8. Atomic!FreeStop(TakenSeen, LastSeen, loc) = i[h]
  BY <1>3, <1>5, SameTable
<1>9. Atomic!PageFree(loc)
  BY <1>1, <1>3, <1>6, <1>8 DEF Atomic!PageFree
<1>10. CASE /\ old = {} /\ kept = {}
            /\ \A a \in live \union {Bookkeeping} : loc \notin Covers(a)
  <2>1. live' = live
    BY <1>1, <1>10
  <2>2. Atomic!FreeAgain(loc)
    BY <2>1, <1>9, <1>10, SameTable DEF Atomic!FreeAgain
  <2>3. Atomic!Next
    BY <2>2, <1>4, SameTable DEF Atomic!Next
  <2>4. live' \subseteq Interval
    BY <2>1 DEF StepInv, StepTypes
  <2> QED BY <2>3, <2>4, <1>1, <1>2, ReturnInv
<1>11. ASSUME NEW a \in live, old = {a}, loc \in Covers(a),
              kept = IF loc = a[1] THEN {} ELSE {<<a[1], loc - 1>>}
       PROVE  StepInv(h)' /\ Atomic!Next
  <2>1. a \in Interval
    BY DEF StepInv, StepTypes
  <2>3. CASE loc = a[1]
    <3>1. live' = live \ {a}
      BY <1>1, <1>11, <2>3
    <3>2. Atomic!Free(a)
      BY <3>1, <1>9, <2>3 DEF Atomic!Free
    <3>3. Atomic!Next
      BY <3>2 DEF Atomic!Next
    <3>4. live' \subseteq Interval
      BY <3>1 DEF StepInv, StepTypes
    <3> QED BY <3>3, <3>4, <1>1, <1>2, ReturnInv
  <2>4. CASE loc # a[1]
    <3>1. live' = (live \ {a}) \union {<<a[1], loc - 1>>}
      BY <1>1, <1>11, <2>4
    <3>2. Atomic!FreeTail(a, loc)
      BY <3>1, <1>9 DEF Atomic!FreeTail
    <3>3. loc \in a[1] + 1 .. a[2] /\ <<a[1], loc - 1>> \in Interval
      BY <2>1, <2>4, <1>11, FrontPart, Zenon
    <3>4. Atomic!Next
      BY <3>2, <3>3 DEF Atomic!Next
    <3>5. live' \subseteq Interval
      BY <3>1, <3>3 DEF StepInv, StepTypes
    <3> QED BY <3>4, <3>5, <1>1, <1>2, ReturnInv
  <2> QED BY <2>3, <2>4
<1> QED BY <1>7, <1>10, <1>11

LEMMA FreeReturnStep ==
    ASSUME NEW h, Harts = {h}, StepInv(h), FreeReturn(h)
    PROVE  StepInv(h)' /\ Atomic!Next
<1>1. /\ UNCHANGED <<taken, last, want, i, j, todo, reg, before>>
      /\ pc[h] = "freed" /\ todo[h] = << >> /\ GiveUp(h, "freed")
  BY DEF FreeReturn, Ready, table, loops
<1>2. /\ Given(h) /\ i[h] \in T0 /\ i[h] \in L0
      /\ taken = T0 \ (giving[h].loc .. i[h]) /\ last = Marked0(h) \ {i[h]}
  BY <1>1, NothingDue DEF StepInv, WhileFreeing
<1>3. StopsAt(T0, L0, giving[h].loc, i[h])
  <2>1. T0 \subseteq Pages
    BY DEF StepInv, StepTypes
  <2>2. giving[h].loc \in Pages /\ giving[h].loc <= i[h] /\ i[h] \in Pages
    BY <1>2, <2>1 DEF Given
  <2>3. i[h] \in giving[h].loc .. TotalPages
    BY <2>2, PagesAssumption DEF Pages
  <2> QED BY <1>2, <2>3 DEF StopsAt, Given
<1> QED BY <1>1, <1>2, <1>3, FreeDone

\* "double free" is reported exactly where PageAlloc reports it.
LEMMA DoubleFreeStep ==
    ASSUME NEW h, Harts = {h}, StepInv(h), DoubleFree(h)
    PROVE  StepInv(h)' /\ Atomic!Next
<1> DEFINE loc == giving[h].loc
<1>1. /\ UNCHANGED <<taken, last, want, i, j, todo, reg, before>>
      /\ pc[h] = "loop" /\ todo[h] = << >> /\ i[h] \notin taken /\ GiveUp(h, "double free")
  BY DEF DoubleFree, Ready, table, loops
<1>2. /\ Given(h) /\ i[h] \in Nat /\ T0 \subseteq Pages
      /\ taken = T0 \ (loc .. i[h] - 1) /\ last = Marked0(h)
  BY <1>1, NothingDue DEF StepInv, StepTypes, WhileLooping
<1>3. /\ loc \in Pages /\ loc <= i[h]
      /\ \A k \in loc .. i[h] - 1 : k \in T0 /\ k \notin L0
  BY <1>2 DEF Given
<1> HIDE DEF loc
<1>4. loc \in Nat /\ loc < TotalPages
  BY <1>3, PagesAssumption DEF Pages
<1>5. i[h] \notin T0
  <2>1. i[h] \notin loc .. i[h] - 1
    BY <1>2, <1>4
  <2> QED BY <2>1, <1>1, <1>2
<1>6. taken = T0 \ (loc .. i[h])
  <2>1. loc .. i[h] = (loc .. i[h] - 1) \union {i[h]}
    BY <1>2, <1>3, <1>4
  <2> QED BY <2>1, <1>2, <1>5
<1>7. StopsAt(T0, L0, loc, i[h])
  <2>1. i[h] <= TotalPages
    <3>1. CASE i[h] = loc
      BY <3>1, <1>4, PagesAssumption
    <3>2. CASE i[h] # loc
      <4>1. i[h] - 1 \in loc .. i[h] - 1
        BY <3>2, <1>2, <1>3, <1>4
      <4>2. i[h] - 1 \in Pages
        BY <4>1, <1>2, <1>3
      <4> QED BY <4>2, <1>2, PagesAssumption DEF Pages
    <3> QED BY <3>1, <3>2
  <2>2. i[h] \in loc .. TotalPages
    BY <2>1, <1>2, <1>3, <1>4, PagesAssumption
  <2> QED BY <2>2, <1>3, <1>5 DEF StopsAt
<1> QED BY <1>1, <1>2, <1>5, <1>6, <1>7, FreeDone DEF loc
----------------------------------------------------------------------------
LEMMA StepInit ==
    ASSUME NEW h, Harts = {h}, Init
    PROVE  StepInv(h) /\ Atomic!Init
<1>1. h \in Harts /\ pc[h] = "idle" /\ todo[h] = << >> /\ reg[h] = << >> /\ Quiet
  BY DEF Init, Quiet
<1>2. T0 = taken /\ L0 = last /\ before = <<T0, L0>>
  BY DEF Init, T0, L0
<1>3. taken \subseteq Pages /\ last \subseteq Int
  BY PagesAssumption DEF Init, Pages
<1>4. << >> \in Seq(Update_Type)
  OBVIOUS
<1>5. StepTypes(h)
  BY <1>2, <1>3, <1>4 DEF Init, StepTypes
<1>6. ByteCurrent(h) /\ WhileIdle(h) /\ WhileScanning(h) /\ WhileMarking(h)
         /\ WhileLooping(h) /\ WhileFreeing(h)
  BY <1>1 DEF ByteCurrent, WhileIdle, WhileScanning, WhileMarking, WhileLooping, WhileFreeing
<1>7. TakenSeen = taken /\ LastSeen = last
  BY <1>1 DEF TakenSeen, LastSeen
<1>8. Atomic!Init
  BY <1>7, SameTable DEF Init, Atomic!Init
<1> QED BY <1>5, <1>6, <1>8 DEF StepInv

LEMMA OneHartStep ==
    ASSUME NEW h, Harts = {h}, StepInv(h), CarelessNext
    PROVE  StepInv(h)' /\ (Atomic!Next \/ UNCHANGED Atomic!vars)
<1>1. CASE Load(h)
  BY <1>1, LoadStep
<1>2. CASE Store(h)
  BY <1>2, StoreStep
<1>3. ASSUME NEW n \in Sizes, AllocCall(h, n)
      PROVE  StepInv(h)' /\ UNCHANGED Atomic!vars
  BY <1>3, AllocCallStep
<1>4. CASE NextStart(h)
  BY <1>4, NextStartStep
<1>5. CASE Consecutive(h)
  BY <1>5, ConsecutiveStep
<1>6. CASE AllocReturn(h)
  BY <1>6, AllocReturnStep
<1>7. CASE AllocFails(h)
  BY <1>7, AllocFailsStep
<1>8. ASSUME NEW a \in live, NEW loc \in Covers(a), FreeCall(h, a, loc)
      PROVE  StepInv(h)' /\ UNCHANGED Atomic!vars
  <2> DEFINE kept == IF loc = a[1] THEN {} ELSE {<<a[1], loc - 1>>}
  <2>1. a \in Interval
    BY DEF StepInv, StepTypes
  <2>2. loc \in Pages
    BY <2>1, PagesAssumption DEF Interval, Covers, Pages
  <2>3. PageFreeCall(h, loc, {a}, kept)
    BY <1>8 DEF FreeCall
  <2>4. MayFree(loc, {a}, kept)
    BY DEF MayFree
  <2> HIDE DEF kept
  <2> QED BY <2>2, <2>3, <2>4, FreeCallStep
<1>9. ASSUME NEW loc \in Pages, FreeAgain(h, loc)
      PROVE  StepInv(h)' /\ UNCHANGED Atomic!vars
  <2>1. MayFree(loc, {}, {}) /\ PageFreeCall(h, loc, {}, {})
    BY <1>9 DEF FreeAgain, MayFree
  <2> QED BY <2>1, FreeCallStep
<1>10. CASE FreeLoop(h)
  BY <1>10, FreeLoopStep
<1>11. CASE FreeReturn(h)
  BY <1>11, FreeReturnStep
<1>12. CASE DoubleFree(h)
  BY <1>12, DoubleFreeStep
<1> QED BY <1>1, <1>2, <1>3, <1>4, <1>5, <1>6, <1>7, <1>8, <1>9, <1>10, <1>11, <1>12
        DEF CarelessNext, Next

LEMMA IdleHart ==
    ASSUME NEW h, StepInv(h), UNCHANGED vars
    PROVE  StepInv(h)' /\ UNCHANGED Atomic!vars
<1>1. /\ UNCHANGED <<taken, last, live, result, pc, want, i, j, todo, reg, giving, before>>
      /\ UNCHANGED <<T0, L0>>
  BY DEF vars, table, loops, ghosts, T0, L0
<1>2. StepInv(h)'
  <2>1. StepTypes(h)' /\ ByteCurrent(h)' /\ WhileIdle(h)'
    BY <1>1 DEF StepInv, StepTypes, ByteCurrent, WhileIdle
  <2>2. WhileScanning(h)' /\ WhileMarking(h)'
    BY <1>1 DEF StepInv, WhileScanning, WhileMarking, Scanned
  <2>3. WhileLooping(h)' /\ WhileFreeing(h)'
    BY <1>1 DEF StepInv, WhileLooping, WhileFreeing, Given, Marked0
  <2> QED BY <2>1, <2>2, <2>3 DEF StepInv
<1>3. UNCHANGED Atomic!vars
  BY <1>1 DEF Atomic!vars, TakenSeen, LastSeen, Quiet
<1> QED BY <1>2, <1>3

\* On one hart page_znalloc and page_free, which read the table bit by bit and
\* write it byte by byte, are the calls of PageAlloc: each takes effect as a
\* whole, with the first fit as its answer, when it returns.  The callers may
\* free pages they do not hold.
THEOREM OneHartIsAtomic ==
    ASSUME NEW CONSTANT h, Harts = {h}
    PROVE  CarelessSpec => ImplementsPageAlloc
<1>1. Init => StepInv(h) /\ Atomic!Init
  BY StepInit
<1>2. StepInv(h) /\ [CarelessNext]_vars => StepInv(h)' /\ [Atomic!Next]_(Atomic!vars)
  BY OneHartStep, IdleHart
<1> QED BY <1>1, <1>2, PTL DEF CarelessSpec, ImplementsPageAlloc, Atomic!Spec
=============================================================================
