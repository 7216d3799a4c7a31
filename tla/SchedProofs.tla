---------------------------- MODULE SchedProofs ----------------------------
(***************************************************************************)
(* The scheduler's invariants hold in every reachable state, for any       *)
(* number of harts, processes and sleeps.  IInv of module Sched is         *)
(* inductive: one lemma per action shows that the action preserves it.     *)
(* The lemmas that come first say what the list operations of ProcessList  *)
(* do to lists of any length.                                              *)
(***************************************************************************)
EXTENDS Sched, LeastNumber, SequenceTheorems, TLAPS
----------------------------------------------------------------------------
(* The lists *)

\* Linking a node into a list of processes gives a list with one more node.
LEMMA LinkAtList ==
    ASSUME NEW S, NEW l \in Seq(S), NEW p \in S, NEW i \in 1..(Len(l) + 1)
    PROVE  /\ LinkAt(l, i, p) \in Seq(S)
           /\ Len(LinkAt(l, i, p)) = Len(l) + 1
           /\ Elems(LinkAt(l, i, p)) = Elems(l) \union {p}
<1> DEFINE m == LinkAt(l, i, p)
<1>1. Len(l) \in Nat /\ \A j \in 1..Len(l) : l[j] \in S
  BY ElementOfSeq, LenProperties
<1>2. \A j \in 1..(Len(l) + 1) :
        m[j] = IF j < i THEN l[j] ELSE IF j = i THEN p ELSE l[j-1]
  BY DEF LinkAt
<1>3. \A j \in 1..(Len(l) + 1) : m[j] \in S
  BY <1>1, <1>2
<1>4. m \in Seq(S) /\ Len(m) = Len(l) + 1
  <2>1. m \in [1..(Len(l) + 1) -> S]
    BY <1>3 DEF LinkAt
  <2> QED BY <2>1, <1>1, SeqDef, LenProperties DEF LinkAt
<1>5. Elems(m) \subseteq Elems(l) \union {p}
  <2> SUFFICES ASSUME NEW j \in 1..(Len(l) + 1)
               PROVE  m[j] \in Elems(l) \union {p}
    BY <1>4 DEF Elems
  <2>1. CASE j < i
    BY <2>1, <1>1, <1>2 DEF Elems
  <2>2. CASE j = i
    BY <2>2, <1>2
  <2>3. CASE j > i
    <3>1. j - 1 \in 1..Len(l) /\ m[j] = l[j-1]
      BY <2>3, <1>1, <1>2
    <3> QED BY <3>1 DEF Elems
  <2> QED BY <2>1, <2>2, <2>3, <1>1
<1>6. p \in Elems(m)
  BY <1>1, <1>2, <1>4 DEF Elems
<1>7. ASSUME NEW j \in 1..Len(l) PROVE l[j] \in Elems(m)
  <2>1. CASE j < i
    <3>1. j \in 1..(Len(l) + 1) /\ m[j] = l[j]
      BY <2>1, <1>1, <1>2
    <3> QED BY <3>1, <1>4 DEF Elems
  <2>2. CASE ~(j < i)
    <3>1. j + 1 \in 1..(Len(l) + 1) /\ m[j+1] = l[j]
      BY <2>2, <1>1, <1>2
    <3> QED BY <3>1, <1>4 DEF Elems
  <2> QED BY <2>1, <2>2
<1>8. Elems(l) \union {p} \subseteq Elems(m)
  BY <1>6, <1>7 DEF Elems
<1> QED BY <1>4, <1>5, <1>8

\* Linking in a process that is not in the list yet makes no duplicate.
LEMMA LinkAtNoDuplicates ==
    ASSUME NEW S, NEW l \in Seq(S), NEW p \in S, NEW i \in 1..(Len(l) + 1),
           NoDuplicates(l), p \notin Elems(l)
    PROVE  NoDuplicates(LinkAt(l, i, p))
<1> DEFINE m == LinkAt(l, i, p)
           old(j) == IF j < i THEN j ELSE j - 1
<1>1. Len(l) \in Nat /\ Len(m) = Len(l) + 1
  BY LenProperties, LinkAtList
<1>2. \A j \in 1..(Len(l) + 1) :
        IF j = i THEN m[j] = p ELSE m[j] = l[old(j)] /\ old(j) \in 1..Len(l)
  BY <1>1 DEF LinkAt
<1>3. \A j \in 1..(Len(l) + 1) : j # i => m[j] # p
  BY <1>2 DEF Elems
<1> SUFFICES ASSUME NEW j \in 1..(Len(l) + 1), NEW k \in 1..(Len(l) + 1),
                    m[j] = m[k]
             PROVE  j = k
  BY <1>1 DEF NoDuplicates
<1>4. CASE j = i \/ k = i
  BY <1>2, <1>3, <1>4
<1>5. CASE j # i /\ k # i
  <2>1. old(j) = old(k)
    BY <1>2, <1>5 DEF NoDuplicates
  <2> QED BY <2>1, <1>5, <1>1
<1> QED BY <1>4, <1>5

\* Unlinking a node of a list without duplicates removes exactly its process.
LEMMA UnlinkAtList ==
    ASSUME NEW S, NEW l \in Seq(S), NEW i \in 1..Len(l)
    PROVE  /\ UnlinkAt(l, i) \in Seq(S)
           /\ Len(UnlinkAt(l, i)) = Len(l) - 1
           /\ NoDuplicates(l) => /\ NoDuplicates(UnlinkAt(l, i))
                                 /\ Elems(UnlinkAt(l, i)) = Elems(l) \ {l[i]}
<1> DEFINE m == UnlinkAt(l, i)
           old(j) == IF j < i THEN j ELSE j + 1
<1>1. Len(l) \in Nat /\ \A j \in 1..Len(l) : l[j] \in S
  BY ElementOfSeq, LenProperties
<1>2. \A j \in 1..(Len(l) - 1) : m[j] = l[old(j)] /\ old(j) \in 1..Len(l) /\ old(j) # i
  BY <1>1 DEF UnlinkAt
<1>3. m \in Seq(S) /\ Len(m) = Len(l) - 1
  <2>1. m \in [1..(Len(l) - 1) -> S]
    BY <1>1, <1>2 DEF UnlinkAt
  <2>2. Len(l) - 1 \in Nat
    BY <1>1
  <2> QED BY <2>1, <2>2, SeqDef, LenProperties DEF UnlinkAt
<1> HIDE DEF m
<1>4. ASSUME NoDuplicates(l)
      PROVE  NoDuplicates(m) /\ Elems(m) = Elems(l) \ {l[i]}
  <2>1. NoDuplicates(m)
    <3> SUFFICES ASSUME NEW j \in 1..(Len(l) - 1), NEW k \in 1..(Len(l) - 1),
                        m[j] = m[k]
                 PROVE  j = k
      BY <1>3 DEF NoDuplicates
    <3>1. old(j) = old(k)
      BY <1>2, <1>4 DEF NoDuplicates
    <3> QED BY <3>1, <1>1
  <2>2. Elems(m) \subseteq Elems(l) \ {l[i]}
    <3> SUFFICES ASSUME NEW j \in 1..(Len(l) - 1)
                 PROVE  m[j] \in Elems(l) /\ m[j] # l[i]
      BY <1>3 DEF Elems
    <3> QED BY <1>2, <1>4 DEF NoDuplicates, Elems
  <2>3. ASSUME NEW j \in 1..Len(l), l[j] # l[i] PROVE l[j] \in Elems(m)
    <3> DEFINE k == IF j < i THEN j ELSE j - 1
    <3>1. k \in 1..(Len(l) - 1) /\ old(k) = j
      BY <2>3, <1>1
    <3>2. m[k] = l[j]
      BY <3>1, <1>2
    <3> QED BY <3>1, <3>2, <1>3 DEF Elems
  <2> QED BY <2>1, <2>2, <2>3 DEF Elems
<1> QED BY <1>3, <1>4 DEF m

\* Unlinking a node keeps the order.
LEMMA UnlinkAtAscending ==
    ASSUME NEW S, NEW l \in Seq(S), NEW i \in 1..Len(l),
           NEW f \in [S -> Nat], Ascending(f, l)
    PROVE  Ascending(f, UnlinkAt(l, i))
<1> DEFINE m == UnlinkAt(l, i)
           old(j) == IF j < i THEN j ELSE j + 1
<1>1. Len(l) \in Nat /\ Len(m) = Len(l) - 1
  BY LenProperties, UnlinkAtList
<1>2. \A j \in 1..(Len(l) - 1) : m[j] = l[old(j)] /\ old(j) \in 1..Len(l)
  BY <1>1 DEF UnlinkAt
<1> SUFFICES ASSUME NEW j \in 1..(Len(l) - 1), NEW k \in 1..(Len(l) - 1), j < k
             PROVE  f[m[j]] <= f[m[k]]
  BY <1>1 DEF Ascending
<1>3. old(j) < old(k)
  BY <1>1
<1> QED BY <1>2, <1>3 DEF Ascending

\* The position process_insert finds: inside the list or one past its end, with
\* smaller run times in front of it and none smaller at it.
LEMMA InsertPosFound ==
    ASSUME NEW S, NEW l \in Seq(S), NEW f \in [S -> Nat], NEW v \in Nat
    PROVE  /\ InsertPos(f, l, v) \in 1..(Len(l) + 1)
           /\ \A j \in 1..(InsertPos(f, l, v) - 1) : f[l[j]] < v
           /\ InsertPos(f, l, v) <= Len(l) => v <= f[l[InsertPos(f, l, v)]]
<1> DEFINE T == {i \in 1..Len(l) : v <= f[l[i]]}
           First(i) == v <= f[l[i]] /\ \A j \in 1..(i-1) : f[l[j]] < v
<1>1. Len(l) \in Nat /\ \A j \in 1..Len(l) : f[l[j]] \in Nat
  BY ElementOfSeq, LenProperties
<1>2. CASE \E i \in 1..Len(l) : v <= f[l[i]]
  <2>1. T \subseteq Nat /\ T # {}
    BY <1>2, <1>1
  <2>2. PICK x \in T : \A y \in T : x <= y
    BY <2>1, LeastNatural
  <2>3. x \in 1..Len(l) /\ First(x)
    BY <2>2, <1>1
  <2> DEFINE c == CHOOSE i \in 1..Len(l) : First(i)
  <2>4. c \in 1..Len(l) /\ First(c)
    BY <2>3
  <2>5. InsertPos(f, l, v) = c
    BY <1>2 DEF InsertPos
  <2> HIDE DEF c
  <2> QED BY <2>4, <2>5, <1>1
<1>3. CASE ~ \E i \in 1..Len(l) : v <= f[l[i]]
  <2>1. InsertPos(f, l, v) = Len(l) + 1
    BY <1>3 DEF InsertPos
  <2> QED BY <2>1, <1>1, <1>3
<1> QED BY <1>2, <1>3

\* process_insert adds exactly its process, makes no duplicate, and keeps the
\* list in ascending order of run time.
THEOREM ProcessInsert ==
    ASSUME NEW S, NEW l \in Seq(S), NEW p \in S, NEW f \in [S -> Nat]
    PROVE  /\ process_insert(f, l, p) \in Seq(S)
           /\ Elems(process_insert(f, l, p)) = Elems(l) \union {p}
           /\ NoDuplicates(l) /\ p \notin Elems(l) => NoDuplicates(process_insert(f, l, p))
           /\ Ascending(f, l) => Ascending(f, process_insert(f, l, p))
<1> DEFINE i == InsertPos(f, l, f[p])
           m == LinkAt(l, i, p)
<1>1. /\ i \in 1..(Len(l) + 1)
      /\ \A j \in 1..(i-1) : f[l[j]] < f[p]
      /\ i <= Len(l) => f[p] <= f[l[i]]
  BY InsertPosFound
<1>2. Len(l) \in Nat /\ \A j \in 1..Len(l) : f[l[j]] \in Nat
  BY ElementOfSeq, LenProperties
<1>3. process_insert(f, l, p) = m
  BY DEF process_insert
<1> HIDE DEF i
<1>4. m \in Seq(S) /\ Len(m) = Len(l) + 1 /\ Elems(m) = Elems(l) \union {p}
  BY <1>1, LinkAtList
<1>5. NoDuplicates(l) /\ p \notin Elems(l) => NoDuplicates(m)
  BY <1>1, LinkAtNoDuplicates
<1>6. ASSUME Ascending(f, l) PROVE Ascending(f, m)
  <2> SUFFICES ASSUME NEW j \in 1..(Len(l) + 1), NEW k \in 1..(Len(l) + 1), j < k
               PROVE  f[m[j]] <= f[m[k]]
    BY <1>4 DEF Ascending
  <2>1. \A n \in 1..(Len(l) + 1) :
          m[n] = IF n < i THEN l[n] ELSE IF n = i THEN p ELSE l[n-1]
    BY DEF LinkAt
  <2>2. CASE k < i
    BY SMTT(30), <2>1, <2>2, <1>1, <1>2, <1>6 DEF Ascending
  <2>3. CASE k = i
    <3>1. m[j] = l[j] /\ m[k] = p /\ j \in 1..(i-1)
      BY <2>1, <2>3, <1>1, <1>2
    <3> QED BY <3>1, <1>1, <1>2
  <2>4. CASE k > i /\ j < i
    <3>1. m[j] = l[j] /\ m[k] = l[k-1] /\ j \in 1..Len(l) /\ k-1 \in 1..Len(l) /\ j <= k-1
      BY <2>1, <2>4, <1>1, <1>2
    <3> QED BY SMTT(30), <3>1, <1>2, <1>6 DEF Ascending
  <2>5. CASE k > i /\ j = i
    <3>1. m[j] = p /\ m[k] = l[k-1] /\ k-1 \in 1..Len(l) /\ i <= k-1 /\ i \in 1..Len(l)
      BY <2>1, <2>5, <1>1, <1>2
    <3>2. f[l[i]] <= f[l[k-1]]
      BY SMTT(30), <3>1, <1>2, <1>6 DEF Ascending
    <3> QED BY SMTT(30), <3>1, <3>2, <1>1, <1>2
  <2>6. CASE k > i /\ j > i
    <3>1. m[j] = l[j-1] /\ m[k] = l[k-1] /\ j-1 \in 1..Len(l) /\ k-1 \in 1..Len(l) /\ j-1 < k-1
      BY <2>1, <2>6, <1>1, <1>2
    <3> QED BY <3>1, <1>6 DEF Ascending
  <2> QED BY <2>2, <2>3, <2>4, <2>5, <2>6, <1>1, <1>2
<1> QED BY <1>3, <1>4, <1>5, <1>6

\* The order of a list depends on the run times of its own processes only.
LEMMA AscendingFrame ==
    ASSUME NEW S, NEW l \in Seq(S), NEW f, NEW g,
           \A x \in Elems(l) : f[x] = g[x], Ascending(f, l)
    PROVE  Ascending(g, l)
BY DEF Ascending, Elems
----------------------------------------------------------------------------
(* The steps *)

\* The clock.
LEMMA TickStep ==
    ASSUME IInv, Tick
    PROVE  IInv'
<1> USE DEF MUTEX_LOCKED, MUTEX_UNLOCKED, mutex_post, lists, procs, walkv,
            timers
<1>1. TypeOK'
  <2>1. ASSUME NEW p \in Procs
        PROVE  (IF sleep_left[p] >= 0 THEN sleep_left[p] - 1 ELSE -1) \in Nat \union {-1}
    <3>1. sleep_left[p] \in Nat \union {-1}
      BY DEF IInv, TypeOK
    <3> QED BY <3>1
  <2>2. sleep_left' \in [Procs -> Nat \union {-1}]
    BY <2>1 DEF Tick
  <2> QED BY <2>2 DEF IInv, Tick, TypeOK
<1>2. MutualExclusion'
  BY HartsAssumption DEF IInv, Tick, TypeOK, MutualExclusion, InSched
<1>3. LabelsOwnState'
  BY HartsAssumption, ProcsAssumption DEF IInv, Tick, TypeOK, LabelsOwnState
<1>4. PlacesMatchState'
  BY HartsAssumption, ProcsAssumption
  DEF IInv, Tick, TypeOK, LabelsOwnState, PlacesMatchState,
      StateMatchesList, Runnable, Labels
<1>5. StateMatchesList'
  BY HartsAssumption
  DEF IInv, Tick, TypeOK, StateMatchesList, PlacesMatchState, Runnable
<1>6. AtMostOnePlace'
  BY HartsAssumption, ProcsAssumption
  DEF IInv, Tick, TypeOK, AtMostOnePlace, LabelsOwnState, OnHart, InFlight,
      Queued, Asleep
<1>7. NeverLost'
  BY HartsAssumption, ProcsAssumption
  DEF IInv, Tick, TypeOK, NeverLost, PlacesMatchState, LabelsOwnState,
      OnHart, InFlight, Queued, Asleep
<1>8. CurrentIsRunning'
  BY HartsAssumption, ProcsAssumption
  DEF IInv, Tick, TypeOK, CurrentIsRunning, LabelsOwnState, PlacesMatchState
<1>9. ListsAscending'
  BY HartsAssumption DEF IInv, Tick, TypeOK, ListsAscending
<1> QED
  BY <1>1, <1>2, <1>3, <1>4, <1>5, <1>6, <1>7, <1>8, <1>9 DEF IInv

\* A timer fires.
LEMMA TimerFiresStep ==
    ASSUME IInv, NEW h \in Harts, TimerFires(h)
    PROVE  IInv'
<1> USE DEF MUTEX_LOCKED, MUTEX_UNLOCKED, mutex_post, lists, procs, walkv,
            timers
<1>1. TypeOK'
  BY HartsAssumption, ProcsAssumption, SleepAssumption
  DEF IInv, TimerFires, TypeOK, Labels, States
<1>2. MutualExclusion'
  BY HartsAssumption DEF IInv, TimerFires, TypeOK, MutualExclusion, InSched
<1>3. LabelsOwnState'
  BY HartsAssumption, ProcsAssumption
  DEF IInv, TimerFires, TypeOK, LabelsOwnState
<1>4. PlacesMatchState'
  BY HartsAssumption, ProcsAssumption
  DEF IInv, TimerFires, TypeOK, LabelsOwnState, PlacesMatchState,
      StateMatchesList, Runnable, Labels
<1>5. StateMatchesList'
  BY HartsAssumption
  DEF IInv, TimerFires, TypeOK, StateMatchesList, PlacesMatchState, Runnable
<1>6. AtMostOnePlace'
  BY HartsAssumption, ProcsAssumption
  DEF IInv, TimerFires, TypeOK, AtMostOnePlace, LabelsOwnState, OnHart,
      InFlight, Queued, Asleep
<1>7. NeverLost'
  BY HartsAssumption, ProcsAssumption
  DEF IInv, TimerFires, TypeOK, NeverLost, PlacesMatchState, LabelsOwnState,
      OnHart, InFlight, Queued, Asleep
<1>8. CurrentIsRunning'
  BY HartsAssumption, ProcsAssumption
  DEF IInv, TimerFires, TypeOK, CurrentIsRunning, LabelsOwnState,
      PlacesMatchState
<1>9. ListsAscending'
  BY HartsAssumption DEF IInv, TimerFires, TypeOK, ListsAscending
<1> QED
  BY <1>1, <1>2, <1>3, <1>4, <1>5, <1>6, <1>7, <1>8, <1>9 DEF IInv

\* The timer trap.
LEMMA TimerTrapStep ==
    ASSUME IInv, NEW h \in Harts, TimerTrap(h)
    PROVE  IInv'
<1> USE DEF MUTEX_LOCKED, MUTEX_UNLOCKED, mutex_post, lists, procs, walkv,
            timers
<1>1. TypeOK'
  BY HartsAssumption, ProcsAssumption, SleepAssumption
  DEF IInv, TimerTrap, EnterSched, TypeOK, Labels, States
<1>2. MutualExclusion'
  BY HartsAssumption
  DEF IInv, TimerTrap, EnterSched, TypeOK, MutualExclusion, InSched
<1>3. LabelsOwnState'
  BY HartsAssumption, ProcsAssumption
  DEF IInv, TimerTrap, EnterSched, TypeOK, LabelsOwnState
<1>4. PlacesMatchState'
  BY HartsAssumption, ProcsAssumption
  DEF IInv, TimerTrap, EnterSched, TypeOK, LabelsOwnState, PlacesMatchState,
      StateMatchesList, Runnable, Labels
<1>5. StateMatchesList'
  BY HartsAssumption
  DEF IInv, TimerTrap, EnterSched, TypeOK, StateMatchesList,
      PlacesMatchState, Runnable
<1>6. AtMostOnePlace'
  BY HartsAssumption, ProcsAssumption
  DEF IInv, TimerTrap, EnterSched, TypeOK, AtMostOnePlace, LabelsOwnState,
      OnHart, InFlight, Queued, Asleep
<1>7. NeverLost'
  BY HartsAssumption, ProcsAssumption
  DEF IInv, TimerTrap, EnterSched, TypeOK, NeverLost, PlacesMatchState,
      LabelsOwnState, OnHart, InFlight, Queued, Asleep
<1>8. CurrentIsRunning'
  BY HartsAssumption, ProcsAssumption
  DEF IInv, TimerTrap, EnterSched, TypeOK, CurrentIsRunning, LabelsOwnState,
      PlacesMatchState
<1>9. ListsAscending'
  BY HartsAssumption DEF IInv, TimerTrap, EnterSched, TypeOK, ListsAscending
<1> QED
  BY <1>1, <1>2, <1>3, <1>4, <1>5, <1>6, <1>7, <1>8, <1>9 DEF IInv

\* The EXIT system call: the process it marks is on this hart only.
LEMMA SyscallExitStep ==
    ASSUME IInv, NEW h \in Harts, SyscallExit(h)
    PROVE  IInv'
<1> USE DEF MUTEX_LOCKED, MUTEX_UNLOCKED, mutex_post, lists, procs, walkv,
            timers
<1>1. TypeOK'
  BY HartsAssumption, ProcsAssumption, SleepAssumption
  DEF IInv, SyscallExit, EnterSched, TypeOK, Labels, States
<1>2. MutualExclusion'
  BY HartsAssumption
  DEF IInv, SyscallExit, EnterSched, TypeOK, MutualExclusion, InSched
<1>3. LabelsOwnState'
  BY SMTT(30), HartsAssumption, ProcsAssumption
  DEF IInv, SyscallExit, EnterSched, TypeOK, LabelsOwnState
<1>4. PlacesMatchState'
  BY HartsAssumption, ProcsAssumption
  DEF IInv, SyscallExit, EnterSched, TypeOK, PlacesMatchState, Runnable, Labels,
      AtMostOnePlace, OnHart, InFlight, Queued, Asleep, LabelsOwnState
<1>5. StateMatchesList'
  BY DEF IInv, SyscallExit, TypeOK, StateMatchesList, AtMostOnePlace,
         OnHart, InFlight, Queued, Asleep
<1>6. AtMostOnePlace'
  BY HartsAssumption, ProcsAssumption
  DEF IInv, SyscallExit, EnterSched, TypeOK, AtMostOnePlace, LabelsOwnState,
      OnHart, InFlight, Queued, Asleep
<1>7. NeverLost'
  BY HartsAssumption, ProcsAssumption
  DEF IInv, SyscallExit, EnterSched, TypeOK, NeverLost, PlacesMatchState,
      LabelsOwnState, OnHart, InFlight, Queued, Asleep
<1>8. CurrentIsRunning'
  BY HartsAssumption, ProcsAssumption
  DEF IInv, SyscallExit, EnterSched, TypeOK, CurrentIsRunning,
      LabelsOwnState, PlacesMatchState
<1>9. ListsAscending'
  BY HartsAssumption DEF IInv, SyscallExit, EnterSched, TypeOK, ListsAscending
<1> QED
  BY <1>1, <1>2, <1>3, <1>4, <1>5, <1>6, <1>7, <1>8, <1>9 DEF IInv

\* The SLEEP system call.
LEMMA SyscallSleepStep ==
    ASSUME IInv, NEW h \in Harts, NEW q \in SleepLens, SyscallSleep(h, q)
    PROVE  IInv'
<1> USE DEF MUTEX_LOCKED, MUTEX_UNLOCKED, mutex_post, lists, procs, walkv,
            timers
<1>1. TypeOK'
  BY HartsAssumption, ProcsAssumption, SleepAssumption
  DEF IInv, SyscallSleep, EnterSched, TypeOK, Labels, States
<1>2. MutualExclusion'
  BY HartsAssumption
  DEF IInv, SyscallSleep, EnterSched, TypeOK, MutualExclusion, InSched
<1>3. LabelsOwnState'
  BY SMTT(30), HartsAssumption, ProcsAssumption
  DEF IInv, SyscallSleep, EnterSched, TypeOK, LabelsOwnState
<1>4. PlacesMatchState'
  BY HartsAssumption, ProcsAssumption
  DEF IInv, SyscallSleep, EnterSched, TypeOK, PlacesMatchState, Runnable, Labels,
      AtMostOnePlace, OnHart, InFlight, Queued, Asleep, LabelsOwnState
<1>5. StateMatchesList'
  BY DEF IInv, SyscallSleep, TypeOK, StateMatchesList, AtMostOnePlace,
         OnHart, InFlight, Queued, Asleep
<1>6. AtMostOnePlace'
  BY HartsAssumption, ProcsAssumption
  DEF IInv, SyscallSleep, EnterSched, TypeOK, AtMostOnePlace,
      LabelsOwnState, OnHart, InFlight, Queued, Asleep
<1>7. NeverLost'
  BY HartsAssumption, ProcsAssumption
  DEF IInv, SyscallSleep, EnterSched, TypeOK, NeverLost, PlacesMatchState,
      LabelsOwnState, OnHart, InFlight, Queued, Asleep
<1>8. CurrentIsRunning'
  BY HartsAssumption, ProcsAssumption
  DEF IInv, SyscallSleep, EnterSched, TypeOK, CurrentIsRunning,
      LabelsOwnState, PlacesMatchState
<1>9. ListsAscending'
  BY HartsAssumption DEF IInv, SyscallSleep, EnterSched, TypeOK, ListsAscending
<1> QED
  BY <1>1, <1>2, <1>3, <1>4, <1>5, <1>6, <1>7, <1>8, <1>9 DEF IInv

\* Taking the scheduler lock.
LEMMA SchedLockStep ==
    ASSUME IInv, NEW h \in Harts, SchedLock(h)
    PROVE  IInv'
<1> USE DEF MUTEX_LOCKED, MUTEX_UNLOCKED, mutex_post, lists, procs, walkv,
            timers
<1>1. TypeOK'
  BY SMTT(30), HartsAssumption, ProcsAssumption, SleepAssumption
  DEF IInv, SchedLock, Due, WalkStart, SchedMutexFree, TypeOK, Labels,
      States
<1>2. MutualExclusion'
  BY HartsAssumption
  DEF IInv, SchedLock, Due, WalkStart, SchedMutexFree, TypeOK,
      MutualExclusion, InSched
<1>3. LabelsOwnState'
  BY SMTT(30), HartsAssumption, ProcsAssumption
  DEF IInv, SchedLock, Due, WalkStart, SchedMutexFree, TypeOK,
      LabelsOwnState
<1>4. PlacesMatchState'
  BY HartsAssumption, ProcsAssumption
  DEF IInv, SchedLock, Due, WalkStart, SchedMutexFree, TypeOK,
      LabelsOwnState, PlacesMatchState, StateMatchesList, Runnable, Labels
<1>5. StateMatchesList'
  BY HartsAssumption
  DEF IInv, SchedLock, Due, WalkStart, SchedMutexFree, TypeOK,
      StateMatchesList, PlacesMatchState, Runnable
<1>6. AtMostOnePlace'
  BY HartsAssumption, ProcsAssumption
  DEF IInv, SchedLock, Due, WalkStart, SchedMutexFree, TypeOK,
      AtMostOnePlace, LabelsOwnState, OnHart, InFlight, Queued, Asleep
<1>7. NeverLost'
  BY HartsAssumption, ProcsAssumption
  DEF IInv, SchedLock, Due, WalkStart, SchedMutexFree, TypeOK, NeverLost,
      PlacesMatchState, LabelsOwnState, OnHart, InFlight, Queued, Asleep
<1>8. CurrentIsRunning'
  BY HartsAssumption, ProcsAssumption
  DEF IInv, SchedLock, Due, WalkStart, SchedMutexFree, TypeOK,
      CurrentIsRunning, LabelsOwnState, PlacesMatchState
<1>9. ListsAscending'
  BY HartsAssumption
  DEF IInv, SchedLock, Due, WalkStart, SchedMutexFree, TypeOK,
      ListsAscending
<1> QED
  BY <1>1, <1>2, <1>3, <1>4, <1>5, <1>6, <1>7, <1>8, <1>9 DEF IInv

\* The walk passes a process.
LEMMA WalkSkipStep ==
    ASSUME IInv, NEW h \in Harts, WalkSkip(h)
    PROVE  IInv'
<1> USE DEF MUTEX_LOCKED, MUTEX_UNLOCKED, mutex_post, lists, procs, walkv,
            timers
<1>1. TypeOK'
  <2>1. pln' \in Nat \ {0}
    BY DEF IInv, WalkSkip, TypeOK
  <2> QED BY <2>1 DEF IInv, WalkSkip, TypeOK
<1>2. MutualExclusion'
  BY HartsAssumption DEF IInv, WalkSkip, TypeOK, MutualExclusion, InSched
<1>3. LabelsOwnState'
  BY HartsAssumption, ProcsAssumption
  DEF IInv, WalkSkip, TypeOK, LabelsOwnState
<1>4. PlacesMatchState'
  BY HartsAssumption, ProcsAssumption
  DEF IInv, WalkSkip, TypeOK, LabelsOwnState, PlacesMatchState,
      StateMatchesList, Runnable, Labels
<1>5. StateMatchesList'
  BY HartsAssumption
  DEF IInv, WalkSkip, TypeOK, StateMatchesList, PlacesMatchState, Runnable
<1>6. AtMostOnePlace'
  BY HartsAssumption, ProcsAssumption
  DEF IInv, WalkSkip, TypeOK, AtMostOnePlace, LabelsOwnState, OnHart,
      InFlight, Queued, Asleep
<1>7. NeverLost'
  BY HartsAssumption, ProcsAssumption
  DEF IInv, WalkSkip, TypeOK, NeverLost, PlacesMatchState, LabelsOwnState,
      OnHart, InFlight, Queued, Asleep
<1>8. CurrentIsRunning'
  BY HartsAssumption, ProcsAssumption
  DEF IInv, WalkSkip, TypeOK, CurrentIsRunning, LabelsOwnState,
      PlacesMatchState
<1>9. ListsAscending'
  BY HartsAssumption DEF IInv, WalkSkip, TypeOK, ListsAscending
<1> QED
  BY <1>1, <1>2, <1>3, <1>4, <1>5, <1>6, <1>7, <1>8, <1>9 DEF IInv

\* process_spawn: the run time charged is that of a process in no list.
LEMMA SpawnSelfStep ==
    ASSUME IInv, NEW h \in Harts, SpawnSelf(h)
    PROVE  IInv'
<1> USE DEF MUTEX_LOCKED, MUTEX_UNLOCKED, mutex_post, lists, procs, walkv,
            timers
<1>1. TypeOK'
  <2>1. vruntime' \in [Procs -> Nat]
    BY DEF IInv, SpawnSelf, Dispatch, Charge, TypeOK, LabelsOwnState
  <2>2. on_hart' \in [Procs -> Harts \union {-1}]
    BY DEF IInv, SpawnSelf, Dispatch, TypeOK, LabelsOwnState
  <2>3. process_current' \in [Harts -> Procs \union {Idle, NULL}]
    BY DEF IInv, SpawnSelf, Dispatch, TypeOK
  <2>4. mtimer' \in [Harts -> BOOLEAN]
    BY DEF IInv, SpawnSelf, Dispatch, TypeOK
  <2> QED BY <2>1, <2>2, <2>3, <2>4 DEF IInv, SpawnSelf, TypeOK, Labels
<1>2. MutualExclusion'
  BY HartsAssumption
  DEF IInv, SpawnSelf, Dispatch, Charge, TypeOK, MutualExclusion, InSched
<1>3. LabelsOwnState'
  BY HartsAssumption, ProcsAssumption
  DEF IInv, SpawnSelf, Dispatch, Charge, TypeOK, LabelsOwnState
<1>4. PlacesMatchState'
  BY HartsAssumption, ProcsAssumption
  DEF IInv, SpawnSelf, Dispatch, TypeOK, PlacesMatchState, Runnable,
      LabelsOwnState, AtMostOnePlace, OnHart, InFlight, Queued, Asleep
<1>5. StateMatchesList'
  BY HartsAssumption
  DEF IInv, SpawnSelf, Dispatch, Charge, TypeOK, StateMatchesList,
      PlacesMatchState, Runnable
<1>6. AtMostOnePlace'
  BY HartsAssumption, ProcsAssumption
  DEF IInv, SpawnSelf, Dispatch, Charge, TypeOK, AtMostOnePlace,
      LabelsOwnState, OnHart, InFlight, Queued, Asleep
<1>7. NeverLost'
  BY HartsAssumption, ProcsAssumption
  DEF IInv, SpawnSelf, Dispatch, Charge, TypeOK, NeverLost,
      PlacesMatchState, LabelsOwnState, OnHart, InFlight, Queued, Asleep
<1>8. CurrentIsRunning'
  BY HartsAssumption, ProcsAssumption
  DEF IInv, SpawnSelf, Dispatch, TypeOK, CurrentIsRunning, LabelsOwnState,
      PlacesMatchState, AtMostOnePlace, OnHart, InFlight, Queued, Asleep
<1>9. ListsAscending'
  <2>1. \A x \in Procs : x # held[h] => vruntime'[x] = vruntime[x]
    BY DEF IInv, SpawnSelf, Dispatch, TypeOK
  <2>2. \A x \in Elems(unsched_process_llist) \union Elems(sleeping_process_llist) :
          x \in Procs /\ x # held[h]
    BY ElementOfSeq DEF IInv, TypeOK, AtMostOnePlace, OnHart, InFlight, Queued, Asleep, Elems
  <2>3. \A x \in Elems(unsched_process_llist) : vruntime[x] = vruntime'[x]
    BY <2>1, <2>2
  <2>4. \A x \in Elems(sleeping_process_llist) : vruntime[x] = vruntime'[x]
    BY <2>1, <2>2
  <2>5. Ascending(vruntime', unsched_process_llist)
    BY <2>3, AscendingFrame DEF IInv, TypeOK, ListsAscending
  <2>6. Ascending(vruntime', sleeping_process_llist)
    BY <2>4, AscendingFrame DEF IInv, TypeOK, ListsAscending
  <2> QED BY <2>5, <2>6 DEF SpawnSelf, ListsAscending
<1> QED
  BY <1>1, <1>2, <1>3, <1>4, <1>5, <1>6, <1>7, <1>8, <1>9 DEF IInv

\* elfread takes a slot that is nowhere in use.
LEMMA ConsoleCreateStep ==
    ASSUME IInv, NEW p \in Procs, ConsoleCreate(p)
    PROVE  IInv'
<1> USE DEF MUTEX_LOCKED, MUTEX_UNLOCKED, mutex_post, lists, procs, walkv,
            timers
<1>1. TypeOK'
  BY HartsAssumption, ProcsAssumption, SleepAssumption
  DEF IInv, ConsoleCreate, TypeOK, Labels, States
<1>2. MutualExclusion'
  BY HartsAssumption DEF IInv, ConsoleCreate, TypeOK, MutualExclusion, InSched
<1>3. LabelsOwnState'
  BY HartsAssumption, ProcsAssumption
  DEF IInv, ConsoleCreate, TypeOK, LabelsOwnState
<1>4. PlacesMatchState'
  BY HartsAssumption, ProcsAssumption
  DEF IInv, ConsoleCreate, TypeOK, LabelsOwnState, PlacesMatchState,
      StateMatchesList, Runnable, Labels
<1>5. StateMatchesList'
  BY HartsAssumption
  DEF IInv, ConsoleCreate, TypeOK, StateMatchesList, PlacesMatchState,
      Runnable
<1>6. AtMostOnePlace'
  BY HartsAssumption, ProcsAssumption
  DEF IInv, ConsoleCreate, TypeOK, LabelsOwnState, NeverLost, AtMostOnePlace,
      OnHart, InFlight, Queued, Asleep
<1>7. NeverLost'
  <2>1. held[0] = NULL /\ 0 \in Harts /\ p \notin has_pid
    BY HartsAssumption DEF IInv, ConsoleCreate, LabelsOwnState, PlacesMatchState
  <2>2. \A x \in Procs, h \in Harts : InFlight(x, h) => InFlight(x, h)'
    BY <2>1, ProcsAssumption DEF IInv, ConsoleCreate, TypeOK, InFlight
  <2>3. \A x \in Procs : x # p => process_state'[x] = process_state[x]
                              /\ \A h \in Harts : InFlight(x, h)' => InFlight(x, h)
    BY <2>1, ProcsAssumption DEF IInv, ConsoleCreate, TypeOK, InFlight
  <2>4. process_state'[p] # "PS_DEAD"
    BY DEF IInv, ConsoleCreate, TypeOK
  <2>5. \A x \in Procs, h \in Harts : OnHart(x, h)' = OnHart(x, h)
    BY DEF ConsoleCreate, OnHart
  <2>6. \A x \in Procs : Queued(x)' = Queued(x) /\ Asleep(x)' = Asleep(x)
    BY DEF ConsoleCreate, Queued, Asleep
  <2>7. has_pid' = has_pid
    BY DEF ConsoleCreate
  <2> QED BY <2>1, <2>2, <2>3, <2>4, <2>5, <2>6, <2>7 DEF IInv, NeverLost
<1>8. CurrentIsRunning'
  BY HartsAssumption, ProcsAssumption
  DEF IInv, ConsoleCreate, TypeOK, CurrentIsRunning, LabelsOwnState,
      PlacesMatchState
<1>9. ListsAscending'
  <2>1. \A x \in Procs : x # p => vruntime'[x] = vruntime[x]
    BY DEF IInv, ConsoleCreate, TypeOK
  <2>2. \A x \in Elems(unsched_process_llist) \union Elems(sleeping_process_llist) :
          x \in Procs /\ x # p
    <3>1. Elems(unsched_process_llist) \union Elems(sleeping_process_llist) \subseteq Procs
      BY ElementOfSeq DEF IInv, TypeOK, Elems
    <3>2. ~Queued(p) /\ ~Asleep(p)
      BY DEF IInv, ConsoleCreate, NeverLost
    <3> QED BY <3>1, <3>2 DEF Queued, Asleep
  <2>3. \A x \in Elems(unsched_process_llist) : vruntime[x] = vruntime'[x]
    BY <2>1, <2>2
  <2>4. \A x \in Elems(sleeping_process_llist) : vruntime[x] = vruntime'[x]
    BY <2>1, <2>2
  <2>5. Ascending(vruntime', unsched_process_llist)
    BY <2>3, AscendingFrame DEF IInv, TypeOK, ListsAscending
  <2>6. Ascending(vruntime', sleeping_process_llist)
    BY <2>4, AscendingFrame DEF IInv, TypeOK, ListsAscending
  <2> QED BY <2>5, <2>6 DEF ConsoleCreate, ListsAscending
<1> QED
  BY <1>1, <1>2, <1>3, <1>4, <1>5, <1>6, <1>7, <1>8, <1>9 DEF IInv

\* elfread gives up.
LEMMA ConsoleLoadFailsStep ==
    ASSUME IInv, ConsoleLoadFails
    PROVE  IInv'
<1> USE DEF MUTEX_LOCKED, MUTEX_UNLOCKED, mutex_post, lists, procs, walkv,
            timers
<1>1. TypeOK'
  BY HartsAssumption, ProcsAssumption, SleepAssumption
  DEF IInv, ConsoleLoadFails, TypeOK, Labels, States
<1>2. MutualExclusion'
  BY HartsAssumption
  DEF IInv, ConsoleLoadFails, TypeOK, MutualExclusion, InSched
<1>3. LabelsOwnState'
  BY HartsAssumption, ProcsAssumption
  DEF IInv, ConsoleLoadFails, TypeOK, LabelsOwnState
<1>4. PlacesMatchState'
  BY HartsAssumption, ProcsAssumption
  DEF IInv, ConsoleLoadFails, TypeOK, LabelsOwnState, PlacesMatchState,
      StateMatchesList, Runnable, Labels
<1>5. StateMatchesList'
  BY HartsAssumption
  DEF IInv, ConsoleLoadFails, TypeOK, StateMatchesList, PlacesMatchState,
      Runnable
<1>6. AtMostOnePlace'
  BY HartsAssumption, ProcsAssumption
  DEF IInv, ConsoleLoadFails, TypeOK, AtMostOnePlace, LabelsOwnState,
      OnHart, InFlight, Queued, Asleep
<1>7. NeverLost'
  BY HartsAssumption, ProcsAssumption
  DEF IInv, ConsoleLoadFails, TypeOK, NeverLost, PlacesMatchState,
      LabelsOwnState, OnHart, InFlight, Queued, Asleep
<1>8. CurrentIsRunning'
  BY HartsAssumption, ProcsAssumption
  DEF IInv, ConsoleLoadFails, TypeOK, CurrentIsRunning, LabelsOwnState,
      PlacesMatchState
<1>9. ListsAscending'
  BY HartsAssumption DEF IInv, ConsoleLoadFails, TypeOK, ListsAscending
<1> QED
  BY <1>1, <1>2, <1>3, <1>4, <1>5, <1>6, <1>7, <1>8, <1>9 DEF IInv

\* sched_add takes the list's lock.
LEMMA ConsoleAddBeginStep ==
    ASSUME IInv, ConsoleAddBegin
    PROVE  IInv'
<1> USE DEF MUTEX_LOCKED, MUTEX_UNLOCKED, mutex_post, lists, procs, walkv,
            timers
<1>1. TypeOK'
  <2>1. has_pid' \subseteq Procs
    BY HartsAssumption DEF IInv, ConsoleAddBegin, TypeOK, LabelsOwnState
  <2> QED BY <2>1, HartsAssumption DEF IInv, ConsoleAddBegin, TypeOK, Labels
<1>2. MutualExclusion'
  BY HartsAssumption
  DEF IInv, ConsoleAddBegin, ListMutexFree, TypeOK, MutualExclusion, InSched
<1>3. LabelsOwnState'
  BY HartsAssumption, ProcsAssumption
  DEF IInv, ConsoleAddBegin, ListMutexFree, TypeOK, LabelsOwnState
<1>4. PlacesMatchState'
  <2> USE HartsAssumption, ProcsAssumption
  <2>1. /\ held[0] \in Procs
        /\ process_state[held[0]] # "PS_DEAD"
    BY DEF IInv, ConsoleAddBegin, TypeOK, LabelsOwnState, PlacesMatchState,
           Runnable
  <2>2. \A h \in Harts : pc'[h] = "user" => pc[h] = "user"
    BY DEF IInv, ConsoleAddBegin, TypeOK
  <2>3. pc'[0] # "load"
    BY DEF IInv, ConsoleAddBegin, TypeOK
  <2> QED
    BY <2>1, <2>2, <2>3 DEF IInv, ConsoleAddBegin, PlacesMatchState
<1>5. StateMatchesList'
  BY HartsAssumption
  DEF IInv, ConsoleAddBegin, ListMutexFree, TypeOK, StateMatchesList,
      PlacesMatchState, Runnable
<1>6. AtMostOnePlace'
  BY HartsAssumption, ProcsAssumption
  DEF IInv, ConsoleAddBegin, ListMutexFree, TypeOK, AtMostOnePlace,
      LabelsOwnState, OnHart, InFlight, Queued, Asleep
<1>7. NeverLost'
  BY HartsAssumption, ProcsAssumption
  DEF IInv, ConsoleAddBegin, ListMutexFree, TypeOK, NeverLost,
      PlacesMatchState, LabelsOwnState, OnHart, InFlight, Queued, Asleep
<1>8. CurrentIsRunning'
  BY HartsAssumption, ProcsAssumption
  DEF IInv, ConsoleAddBegin, ListMutexFree, TypeOK, CurrentIsRunning,
      LabelsOwnState, PlacesMatchState
<1>9. ListsAscending'
  BY HartsAssumption
  DEF IInv, ConsoleAddBegin, ListMutexFree, TypeOK, ListsAscending
<1> QED
  BY <1>1, <1>2, <1>3, <1>4, <1>5, <1>6, <1>7, <1>8, <1>9 DEF IInv

\* schedinvoke on the console's own hart.
LEMMA ConsoleSchedInvokeStep ==
    ASSUME IInv, ConsoleSchedInvoke(0)
    PROVE  IInv'
<1> USE DEF MUTEX_LOCKED, MUTEX_UNLOCKED, mutex_post, lists, procs, walkv,
            timers
<1>1. TypeOK'
  BY HartsAssumption, ProcsAssumption, SleepAssumption
  DEF IInv, ConsoleSchedInvoke, EnterSched, TypeOK, Labels, States
<1>2. MutualExclusion'
  BY HartsAssumption
  DEF IInv, ConsoleSchedInvoke, EnterSched, TypeOK, MutualExclusion, InSched
<1>3. LabelsOwnState'
  BY HartsAssumption, ProcsAssumption
  DEF IInv, ConsoleSchedInvoke, EnterSched, TypeOK, LabelsOwnState
<1>4. PlacesMatchState'
  BY HartsAssumption, ProcsAssumption
  DEF IInv, ConsoleSchedInvoke, EnterSched, TypeOK, LabelsOwnState,
      PlacesMatchState, StateMatchesList, Runnable, Labels
<1>5. StateMatchesList'
  BY HartsAssumption
  DEF IInv, ConsoleSchedInvoke, EnterSched, TypeOK, StateMatchesList,
      PlacesMatchState, Runnable
<1>6. AtMostOnePlace'
  BY HartsAssumption, ProcsAssumption
  DEF IInv, ConsoleSchedInvoke, EnterSched, TypeOK, AtMostOnePlace,
      LabelsOwnState, OnHart, InFlight, Queued, Asleep
<1>7. NeverLost'
  BY HartsAssumption, ProcsAssumption
  DEF IInv, ConsoleSchedInvoke, EnterSched, TypeOK, NeverLost,
      PlacesMatchState, LabelsOwnState, OnHart, InFlight, Queued, Asleep
<1>8. CurrentIsRunning'
  BY HartsAssumption, ProcsAssumption
  DEF IInv, ConsoleSchedInvoke, EnterSched, TypeOK, CurrentIsRunning,
      LabelsOwnState, PlacesMatchState
<1>9. ListsAscending'
  BY HartsAssumption
  DEF IInv, ConsoleSchedInvoke, EnterSched, TypeOK, ListsAscending
<1> QED
  BY <1>1, <1>2, <1>3, <1>4, <1>5, <1>6, <1>7, <1>8, <1>9 DEF IInv

----------------------------------------------------------------------------
(* The steps that move a process between lists *)

\* What the invariant says of the lists, in the form the list lemmas use.
LEMMA ListFacts ==
    ASSUME IInv
    PROVE  /\ unsched_process_llist \in Seq(Procs) /\ sleeping_process_llist \in Seq(Procs)
           /\ Elems(unsched_process_llist) \subseteq Procs
           /\ Elems(sleeping_process_llist) \subseteq Procs
           /\ NoDuplicates(unsched_process_llist) /\ NoDuplicates(sleeping_process_llist)
           /\ Ascending(vruntime, unsched_process_llist)
           /\ Ascending(vruntime, sleeping_process_llist)
           /\ vruntime \in [Procs -> Nat]
<1>1. unsched_process_llist \in Seq(Procs) /\ sleeping_process_llist \in Seq(Procs)
  BY DEF IInv, TypeOK
<1>2. /\ Elems(unsched_process_llist) \subseteq Procs
      /\ Elems(sleeping_process_llist) \subseteq Procs
  BY <1>1, ElementOfSeq DEF Elems
<1> QED
  BY <1>1, <1>2 DEF IInv, TypeOK, AtMostOnePlace, ListsAscending

\* The walk moves a process from the sleeping list to the run queue.
LEMMA WalkWakeStep ==
    ASSUME IInv, NEW h \in Harts, WalkWake(h)
    PROVE  IInv'
<1> USE DEF MUTEX_LOCKED, MUTEX_UNLOCKED, mutex_post, lists, procs, walkv,
            timers
<1> DEFINE u == unsched_process_llist
           s == sleeping_process_llist
           p == s[pln]
<1>1. pln \in 1..Len(s) /\ p \in Elems(s) /\ p \in Procs
  <2>1. pln \in 1..Len(s)
    BY LenProperties DEF IInv, TypeOK, WalkWake
  <2> QED BY <2>1, ListFacts DEF Elems
<1>2. p \notin Elems(u)
  BY <1>1 DEF IInv, AtMostOnePlace, Queued, Asleep
<1>3. /\ u' \in Seq(Procs)
      /\ Elems(u') = Elems(u) \union {p}
      /\ NoDuplicates(u')
      /\ Ascending(vruntime, u')
  <2>1. u' = process_insert(vruntime, u, p)
    BY DEF WalkWake
  <2>2. /\ u \in Seq(Procs) /\ NoDuplicates(u) /\ Ascending(vruntime, u)
        /\ vruntime \in [Procs -> Nat] /\ p \in Procs
    BY <1>1, ListFacts
  <2> HIDE DEF u, p
  <2> QED BY <2>1, <2>2, <1>2, ProcessInsert
<1>4. /\ s' \in Seq(Procs)
      /\ Elems(s') = Elems(s) \ {p}
      /\ NoDuplicates(s')
      /\ Ascending(vruntime, s')
  <2>1. s' = UnlinkAt(s, pln)
    BY DEF WalkWake, process_remove
  <2> QED BY <2>1, <1>1, ListFacts, UnlinkAtList, UnlinkAtAscending
<1>5. process_state' = [process_state EXCEPT ![p] = "PS_RUNNING"]
  BY DEF WalkWake, WokenState
<1>6. \A g \in Harts : process_current[g] # p /\ held[g] # p
  BY <1>1 DEF IInv, AtMostOnePlace, OnHart, InFlight, Asleep
<1>7. process_state[p] = "PS_SLEEPING"
  BY <1>1 DEF IInv, StateMatchesList
<1> HIDE DEF u, s, p
<1>11. TypeOK'
  BY SMTT(30), <1>1, <1>3, <1>4, <1>5 DEF IInv, WalkWake, WalkRestart, TypeOK, States, u, s
<1>12. MutualExclusion'
  BY DEF IInv, WalkWake, MutualExclusion
<1>13. LabelsOwnState'
  BY DEF IInv, WalkWake, ListMutexFree, LabelsOwnState
<1>14. PlacesMatchState'
  BY <1>1, <1>5, <1>6 DEF IInv, WalkWake, TypeOK, PlacesMatchState, Runnable
<1>15. StateMatchesList'
  BY SMTT(30), <1>1, <1>3, <1>4, <1>5, ListFacts DEF IInv, TypeOK, StateMatchesList, u, s
<1>16. AtMostOnePlace'
  BY <1>1, <1>2, <1>3, <1>4, <1>6
  DEF IInv, WalkWake, AtMostOnePlace, OnHart, InFlight, Queued, Asleep, u, s
<1>17. NeverLost'
  BY <1>1, <1>3, <1>4, <1>5, <1>7
  DEF IInv, WalkWake, TypeOK, NeverLost, OnHart, InFlight, Queued, Asleep, u, s
<1>18. CurrentIsRunning'
  BY DEF IInv, WalkWake, CurrentIsRunning
<1>19. ListsAscending'
  BY <1>3, <1>4 DEF WalkWake, ListsAscending, u, s
<1> QED
  BY <1>11, <1>12, <1>13, <1>14, <1>15, <1>16, <1>17, <1>18, <1>19 DEF IInv

\* sched_get takes the head of the run queue and the lock is released.
LEMMA SchedPickStep ==
    ASSUME IInv, NEW h \in Harts, SchedPick(h)
    PROVE  IInv'
<1> USE DEF MUTEX_LOCKED, MUTEX_UNLOCKED, mutex_post, lists, procs, walkv,
            timers
<1> DEFINE u == unsched_process_llist
<1>1. /\ pc[h] = "pick" /\ pc' = [pc EXCEPT ![h] = "spawn"]
      /\ held[h] = NULL /\ process_current[h] = NULL
  BY DEF IInv, SchedPick, LabelsOwnState
<1>2. MutualExclusion'
  BY DEF IInv, SchedPick, TypeOK, MutualExclusion, InSched
<1>3. CASE u = << >>
  <2>1. held' = [held EXCEPT ![h] = Idle] /\ u' = u
    BY <1>3 DEF SchedPick
  <2>2. TypeOK'
    BY <2>1, <1>1 DEF IInv, SchedPick, TypeOK, Labels
  <2>3. LabelsOwnState'
    BY <2>1, <1>1, ProcsAssumption DEF IInv, SchedPick, ListMutexFree, TypeOK, LabelsOwnState
  <2>4. PlacesMatchState'
    BY <2>1, <1>1, HartsAssumption, ProcsAssumption
    DEF IInv, SchedPick, TypeOK, PlacesMatchState
  <2>5. StateMatchesList'
    BY <2>1 DEF IInv, SchedPick, StateMatchesList
  <2>6. AtMostOnePlace'
    BY <2>1, <1>1, ProcsAssumption
    DEF IInv, SchedPick, TypeOK, AtMostOnePlace, OnHart, InFlight, Queued, Asleep
  <2>7. NeverLost'
    BY <2>1, <1>1, ProcsAssumption
    DEF IInv, SchedPick, TypeOK, NeverLost, OnHart, InFlight, Queued, Asleep
  <2>8. CurrentIsRunning'
    BY <1>1 DEF IInv, SchedPick, TypeOK, CurrentIsRunning
  <2>9. ListsAscending'
    BY <2>1 DEF IInv, SchedPick, ListsAscending
  <2> QED
    BY <1>2, <2>2, <2>3, <2>4, <2>5, <2>6, <2>7, <2>8, <2>9 DEF IInv
<1>4. CASE u # << >>
  <2> DEFINE p == u[1]
  <2>1. 1 \in 1..Len(u) /\ p \in Elems(u) /\ p \in Procs
    <3>1. Len(u) \in Nat \ {0}
      BY <1>4, ListFacts, EmptySeq
    <3> QED BY <3>1, ListFacts DEF Elems
  <2>2. held' = [held EXCEPT ![h] = p] /\ u' = UnlinkAt(u, 1)
    BY <1>4 DEF SchedPick, process_remove_lowest
  <2>3. /\ u' \in Seq(Procs)
        /\ Elems(u') = Elems(u) \ {p}
        /\ NoDuplicates(u')
        /\ Ascending(vruntime, u')
    BY <2>1, <2>2, ListFacts, UnlinkAtList, UnlinkAtAscending
  <2>4. /\ \A g \in Harts : process_current[g] # p /\ held[g] # p
        /\ p \notin Elems(sleeping_process_llist)
    BY <2>1 DEF IInv, AtMostOnePlace, OnHart, InFlight, Queued, Asleep
  <2>5. process_state[p] \in Runnable
    BY <2>1 DEF IInv, StateMatchesList, Runnable
  <2> HIDE DEF u, p
  <2>6. p # Idle /\ p # NULL
    BY <2>1, ProcsAssumption
  <2>12. TypeOK'
    BY <2>1, <2>2, <2>3, <1>1 DEF IInv, SchedPick, TypeOK, Labels, u
  <2>13. LabelsOwnState'
    BY <2>2, <2>6, <1>1, ProcsAssumption
    DEF IInv, SchedPick, ListMutexFree, TypeOK, LabelsOwnState
  <2>14. PlacesMatchState'
    BY <2>2, <2>5, <1>1, HartsAssumption, ProcsAssumption
    DEF IInv, SchedPick, TypeOK, PlacesMatchState
  <2>15. StateMatchesList'
    BY <2>3 DEF IInv, SchedPick, StateMatchesList, u
  <2>16. AtMostOnePlace'
    BY <2>1, <2>2, <2>3, <2>4
    DEF IInv, SchedPick, TypeOK, AtMostOnePlace, OnHart, InFlight, Queued, Asleep, u
  <2>17. NeverLost'
    <3>1. process_state[p] # "PS_DEAD"
      BY <2>5 DEF Runnable
    <3> QED
      BY <2>1, <2>2, <2>3, <3>1, <1>1, ProcsAssumption
      DEF IInv, SchedPick, TypeOK, NeverLost, OnHart, InFlight, Queued, Asleep, u
  <2>18. CurrentIsRunning'
    BY <1>1 DEF IInv, SchedPick, TypeOK, CurrentIsRunning
  <2>19. ListsAscending'
    BY <2>3 DEF IInv, SchedPick, ListsAscending, u
  <2> QED
    BY <1>2, <2>12, <2>13, <2>14, <2>15, <2>16, <2>17, <2>18, <2>19 DEF IInv
<1> QED BY <1>3, <1>4

\* sched_add links the new process; nobody touched the list it read.
LEMMA ConsoleAddEndStep ==
    ASSUME IInv, ConsoleAddEnd
    PROVE  IInv'
<1> USE DEF MUTEX_LOCKED, MUTEX_UNLOCKED, mutex_post, lists, procs, walkv,
            timers
<1> DEFINE u == unsched_process_llist
           p == held[0]
<1>1. /\ 0 \in Harts /\ pc[0] = "add" /\ snapshot = u /\ p \in Procs
      /\ process_current[0] = NULL
  BY HartsAssumption DEF IInv, ConsoleAddEnd, LabelsOwnState
<1>2. /\ p \notin Elems(u) /\ p \notin Elems(sleeping_process_llist)
      /\ \A g \in Harts : process_current[g] # p
      /\ \A g \in Harts : g # 0 => held[g] # p
  BY <1>1 DEF IInv, AtMostOnePlace, OnHart, InFlight, Queued, Asleep
<1>3. /\ u' \in Seq(Procs)
      /\ Elems(u') = Elems(u) \union {p}
      /\ NoDuplicates(u')
      /\ Ascending(vruntime, u')
  <2>1. u' = process_insert(vruntime, u, p)
    BY <1>1 DEF ConsoleAddEnd
  <2> QED BY <2>1, <1>1, <1>2, ListFacts, ProcessInsert
<1>4. /\ held' = [held EXCEPT ![0] = NULL]
      /\ pc' = [pc EXCEPT ![0] = "console"]
      /\ unsched_mutex' = MUTEX_UNLOCKED
  BY DEF ConsoleAddEnd
<1>5. process_state[p] \in Runnable
  BY <1>1 DEF IInv, PlacesMatchState
<1> HIDE DEF u
<1>11. TypeOK'
  <2>1. snapshot' \in Seq(Procs)
    BY EmptySeq DEF ConsoleAddEnd
  <2>2. UNCHANGED <<sched_mutex, sleeping_process_llist, process_current, procs,
                    on_hart, running, target, walkv, timers>>
    BY DEF ConsoleAddEnd
  <2> QED BY <2>1, <2>2, <1>3, <1>4 DEF IInv, TypeOK, Labels, u
<1>12. MutualExclusion'
  BY <1>1, <1>4 DEF IInv, ConsoleAddEnd, TypeOK, MutualExclusion, InSched
<1>13. LabelsOwnState'
  BY <1>1, <1>4 DEF IInv, ConsoleAddEnd, TypeOK, LabelsOwnState
<1>14. PlacesMatchState'
  BY <1>1, <1>4, ProcsAssumption DEF IInv, ConsoleAddEnd, TypeOK, PlacesMatchState
<1>15. StateMatchesList'
  BY <1>3, <1>5 DEF IInv, ConsoleAddEnd, StateMatchesList, Runnable, u
<1>16. AtMostOnePlace'
  BY <1>1, <1>2, <1>3, <1>4, ProcsAssumption
  DEF IInv, ConsoleAddEnd, TypeOK, AtMostOnePlace, OnHart, InFlight, Queued, Asleep, u
<1>17. NeverLost'
  <2>1. process_state[p] # "PS_DEAD"
    BY <1>5 DEF Runnable
  <2> QED
    BY <1>1, <1>3, <1>4, <2>1, ProcsAssumption
    DEF IInv, ConsoleAddEnd, TypeOK, NeverLost, OnHart, InFlight, Queued, Asleep, u
<1>18. CurrentIsRunning'
  BY <1>1, <1>4 DEF IInv, ConsoleAddEnd, TypeOK, CurrentIsRunning
<1>19. ListsAscending'
  BY <1>3 DEF IInv, ConsoleAddEnd, ListsAscending, u
<1> QED
  BY <1>11, <1>12, <1>13, <1>14, <1>15, <1>16, <1>17, <1>18, <1>19 DEF IInv

\* What SchedPut does whichever way the process goes: the record of this hart
\* is cleared, the labels move on, and the other state is left alone.
LEMMA SchedPutFrame ==
    ASSUME IInv, NEW h \in Harts, SchedPut(h)
    PROVE  /\ pc[h] = "walk" /\ target[h] = h /\ held[h] = NULL
           /\ process_current' = [process_current EXCEPT ![h] = NULL]
           /\ pc' = [pc EXCEPT ![h] = "pick"]
           /\ MutualExclusion' /\ LabelsOwnState'
           /\ UNCHANGED <<sched_mutex, unsched_mutex, running, target, held, snapshot,
                          timers>>
           /\ due' \subseteq Procs /\ pln' \in Nat \ {0}
<1> USE DEF MUTEX_LOCKED, MUTEX_UNLOCKED
<1>1. /\ pc[h] = "walk" /\ target[h] = h /\ held[h] = NULL
      /\ unsched_mutex = MUTEX_LOCKED <=> pc[0] = "add"
  BY DEF IInv, SchedPut, LabelsOwnState
<1>2. /\ process_current' = [process_current EXCEPT ![h] = NULL]
      /\ pc' = [pc EXCEPT ![h] = "pick"]
      /\ UNCHANGED <<sched_mutex, unsched_mutex, running, target, held, snapshot,
                     timers>>
      /\ due' = {} /\ pln' = 1
  BY <1>1 DEF SchedPut
<1>3. MutualExclusion'
  BY <1>1, <1>2 DEF IInv, TypeOK, MutualExclusion, InSched
<1>4. pc[0] = "add" => UNCHANGED unsched_process_llist
  <2>1. pc[0] = "add" => ~ListMutexFree
    BY <1>1 DEF ListMutexFree
  <2> QED BY <2>1 DEF SchedPut, lists
<1>5. LabelsOwnState'
  BY <1>1, <1>2, <1>4, HartsAssumption DEF IInv, TypeOK, LabelsOwnState
<1> QED BY <1>1, <1>2, <1>3, <1>5

\* The outgoing process is freed, put to sleep or made runnable; an idle
\* process just leaves.
LEMMA SchedPutStep ==
    ASSUME IInv, NEW h \in Harts, SchedPut(h)
    PROVE  IInv'
<1> USE DEF lists, procs, walkv, timers
<1> DEFINE p == Outgoing(h)
           u == unsched_process_llist
           s == sleeping_process_llist
<1>1. /\ pc[h] = "walk" /\ target[h] = h /\ held[h] = NULL
      /\ process_current' = [process_current EXCEPT ![h] = NULL]
      /\ pc' = [pc EXCEPT ![h] = "pick"]
      /\ MutualExclusion' /\ LabelsOwnState'
      /\ UNCHANGED <<sched_mutex, unsched_mutex, running, target, held, snapshot,
                     timers>>
      /\ due' \subseteq Procs /\ pln' \in Nat \ {0}
  BY SchedPutFrame
<1>2. CurrentIsRunning'
  <2>1. \A g \in Harts : process_current[g] \in Procs /\ g # h =>
          on_hart'[process_current[g]] = on_hart[process_current[g]]
    BY <1>1 DEF IInv, SchedPut, Outgoing, TypeOK, AtMostOnePlace, OnHart
  <2> QED BY <2>1, <1>1 DEF IInv, TypeOK, CurrentIsRunning
<1>3. CASE p = Idle
  <2>1. UNCHANGED <<lists, procs, on_hart>>
    BY <1>1, <1>3 DEF SchedPut
  <2>2. process_current[h] \notin Procs
    BY <1>3, ProcsAssumption DEF Outgoing
  <2>3. TypeOK'
    BY <2>1, <1>1 DEF IInv, TypeOK, Labels
  <2>4. PlacesMatchState'
    BY <2>1, <1>1, HartsAssumption, ProcsAssumption DEF IInv, TypeOK, PlacesMatchState
  <2>5. StateMatchesList'
    BY <2>1 DEF IInv, StateMatchesList
  <2>6. AtMostOnePlace'
    BY <2>1, <1>1, ProcsAssumption
    DEF IInv, TypeOK, AtMostOnePlace, OnHart, InFlight, Queued, Asleep
  <2>7. NeverLost'
    BY <2>1, <2>2, <1>1, ProcsAssumption
    DEF IInv, TypeOK, NeverLost, OnHart, InFlight, Queued, Asleep
  <2>8. ListsAscending'
    BY <2>1 DEF IInv, ListsAscending
  <2> QED BY <1>1, <1>2, <2>3, <2>4, <2>5, <2>6, <2>7, <2>8 DEF IInv
<1>4. CASE p # Idle
  <2>1. process_current[h] = p /\ p \in Procs
    BY <1>4, ProcsAssumption DEF IInv, TypeOK, Outgoing
  <2>2. /\ p \notin Elems(u) /\ p \notin Elems(s)
        /\ \A g \in Harts : held[g] # p
        /\ \A g \in Harts : g # h => process_current[g] # p
    BY <2>1 DEF IInv, AtMostOnePlace, OnHart, InFlight, Queued, Asleep
  <2>3. on_hart' = [on_hart EXCEPT ![p] = -1]
    BY <1>1, <1>4 DEF SchedPut
  <2>4. process_state[p] # "PS_DEAD"
    BY <2>1 DEF IInv, PlacesMatchState
  <2>5. CASE process_state[p] = "PS_ASYNC_FREE"
    <3>1. /\ process_state' = [process_state EXCEPT ![p] = "PS_DEAD"]
          /\ sleep_left' = [sleep_left EXCEPT ![p] = -1]
          /\ has_pid' = has_pid \ {p}
          /\ vruntime' = [vruntime EXCEPT ![p] = 0]
          /\ UNCHANGED lists
      BY <1>1, <1>4, <2>5 DEF SchedPut
    <3> HIDE DEF p
    <3>2. TypeOK'
      BY <3>1, <2>1, <2>3, <1>1 DEF IInv, TypeOK, Labels, States
    <3>3. PlacesMatchState'
      BY <3>1, <2>1, <2>2, <2>3, <1>1, HartsAssumption, ProcsAssumption
      DEF IInv, TypeOK, PlacesMatchState, Runnable
    <3>4. StateMatchesList'
      BY <3>1, <2>1, <2>2, ListFacts DEF IInv, TypeOK, StateMatchesList
    <3>5. AtMostOnePlace'
      BY <3>1, <1>1, ProcsAssumption
      DEF IInv, TypeOK, AtMostOnePlace, OnHart, InFlight, Queued, Asleep
    <3>6. NeverLost'
      BY <3>1, <2>1, <2>2, <1>1, ProcsAssumption
      DEF IInv, TypeOK, NeverLost, OnHart, InFlight, Queued, Asleep
    <3>7. ListsAscending'
      <4>1. \A x \in Elems(u) : vruntime[x] = vruntime'[x]
        BY <3>1, <2>2, ListFacts
      <4>2. \A x \in Elems(s) : vruntime[x] = vruntime'[x]
        BY <3>1, <2>2, ListFacts
      <4>3. Ascending(vruntime', u)
        BY <4>1, ListFacts, AscendingFrame
      <4>4. Ascending(vruntime', s)
        BY <4>2, ListFacts, AscendingFrame
      <4> QED BY <4>3, <4>4, <3>1 DEF ListsAscending
    <3> QED BY <1>1, <1>2, <3>2, <3>3, <3>4, <3>5, <3>6, <3>7 DEF IInv
  <2>6. CASE process_state[p] = "PS_SLEEPING"
    <3>1. s' = process_insert(vruntime, s, p) /\ UNCHANGED <<procs, u>>
      BY <1>1, <1>4, <2>6 DEF SchedPut
    <3>2. /\ s' \in Seq(Procs)
          /\ Elems(s') = Elems(s) \union {p}
          /\ NoDuplicates(s')
          /\ Ascending(vruntime, s')
      <4>1. /\ s \in Seq(Procs) /\ NoDuplicates(s) /\ Ascending(vruntime, s)
            /\ vruntime \in [Procs -> Nat]
        BY ListFacts
      <4> HIDE DEF s, p
      <4> QED BY <4>1, <3>1, <2>1, <2>2, ProcessInsert
    <3> HIDE DEF p
    <3>3. TypeOK'
      BY <3>1, <3>2, <2>1, <2>3, <1>1 DEF IInv, TypeOK, Labels
    <3>4. PlacesMatchState'
      BY <3>1, <2>1, <2>2, <2>3, <1>1, HartsAssumption, ProcsAssumption
      DEF IInv, TypeOK, PlacesMatchState
    <3>5. StateMatchesList'
      BY <3>1, <3>2, <2>6 DEF IInv, StateMatchesList
    <3>6. AtMostOnePlace'
      BY <3>1, <3>2, <2>1, <2>2, <1>1, ProcsAssumption
      DEF IInv, TypeOK, AtMostOnePlace, OnHart, InFlight, Queued, Asleep
    <3>7. NeverLost'
      BY <3>1, <3>2, <2>1, <2>4, <1>1, ProcsAssumption
      DEF IInv, TypeOK, NeverLost, OnHart, InFlight, Queued, Asleep
    <3>8. ListsAscending'
      BY <3>1, <3>2 DEF IInv, ListsAscending
    <3> QED BY <1>1, <1>2, <3>3, <3>4, <3>5, <3>6, <3>7, <3>8 DEF IInv
  <2>7. CASE process_state[p] \notin {"PS_ASYNC_FREE", "PS_SLEEPING"}
    <3>1. u' = process_insert(vruntime, u, p) /\ UNCHANGED <<procs, s>>
      BY <1>1, <1>4, <2>7 DEF SchedPut
    <3>2. /\ u' \in Seq(Procs)
          /\ Elems(u') = Elems(u) \union {p}
          /\ NoDuplicates(u')
          /\ Ascending(vruntime, u')
      <4>1. /\ u \in Seq(Procs) /\ NoDuplicates(u) /\ Ascending(vruntime, u)
            /\ vruntime \in [Procs -> Nat]
        BY ListFacts
      <4> HIDE DEF u, p
      <4> QED BY <4>1, <3>1, <2>1, <2>2, ProcessInsert
    <3> HIDE DEF p
    <3>3. TypeOK'
      BY <3>1, <3>2, <2>1, <2>3, <1>1 DEF IInv, TypeOK, Labels
    <3>4. PlacesMatchState'
      BY <3>1, <2>1, <2>2, <2>3, <1>1, HartsAssumption, ProcsAssumption
      DEF IInv, TypeOK, PlacesMatchState
    <3>5. StateMatchesList'
      <4>1. process_state[p] \in {"PS_UNINIT", "PS_RUNNING"}
        BY <2>1, <2>4, <2>7 DEF IInv, TypeOK, States
      <4> QED BY <4>1, <3>1, <3>2 DEF IInv, StateMatchesList
    <3>6. AtMostOnePlace'
      BY <3>1, <3>2, <2>1, <2>2, <1>1, ProcsAssumption
      DEF IInv, TypeOK, AtMostOnePlace, OnHart, InFlight, Queued, Asleep
    <3>7. NeverLost'
      BY <3>1, <3>2, <2>1, <2>4, <1>1, ProcsAssumption
      DEF IInv, TypeOK, NeverLost, OnHart, InFlight, Queued, Asleep
    <3>8. ListsAscending'
      BY <3>1, <3>2 DEF IInv, ListsAscending
    <3> QED BY <1>1, <1>2, <3>3, <3>4, <3>5, <3>6, <3>7, <3>8 DEF IInv
  <2> QED BY <2>5, <2>6, <2>7
<1> QED BY <1>3, <1>4

----------------------------------------------------------------------------
\* The initial state satisfies the invariant.
LEMMA InitInv == Init => IInv
<1> SUFFICES ASSUME Init PROVE IInv
  OBVIOUS
<1> USE DEF Init, MUTEX_LOCKED, MUTEX_UNLOCKED
<1>1. << >> \in Seq(Procs) /\ Len(<< >>) = 0 /\ Elems(<< >>) = {}
  BY EmptySeq DEF Elems
<1>2. TypeOK
  BY <1>1, HartsAssumption DEF TypeOK, Labels, States
<1>3. MutualExclusion
  BY DEF MutualExclusion, InSched
<1>4. LabelsOwnState
  BY HartsAssumption, ProcsAssumption DEF LabelsOwnState
<1>5. PlacesMatchState
  BY HartsAssumption, ProcsAssumption DEF PlacesMatchState
<1>6. StateMatchesList
  BY <1>1 DEF StateMatchesList
<1>7. AtMostOnePlace
  BY <1>1, ProcsAssumption DEF AtMostOnePlace, NoDuplicates, OnHart, InFlight, Queued, Asleep
<1>8. NeverLost
  BY <1>1, ProcsAssumption DEF NeverLost, OnHart, InFlight, Queued, Asleep
<1>9. CurrentIsRunning
  BY ProcsAssumption DEF CurrentIsRunning
<1>10. ListsAscending
  BY <1>1 DEF ListsAscending, Ascending
<1> QED
  BY <1>2, <1>3, <1>4, <1>5, <1>6, <1>7, <1>8, <1>9, <1>10 DEF IInv

\* A step that changes nothing.
LEMMA StutterInv == IInv /\ UNCHANGED vars => IInv'
BY DEF vars, lists, procs, walkv, timers, IInv, TypeOK, MutualExclusion,
       LabelsOwnState, PlacesMatchState, StateMatchesList, AtMostOnePlace,
       NeverLost, CurrentIsRunning, ListsAscending, OnHart, InFlight, Queued,
       Asleep

\* IInv is an invariant of the scheduler: by cases on the step taken.
THEOREM Invariance == Spec => []IInv
<1>1. IInv /\ [Next]_vars => IInv'
  <2> SUFFICES ASSUME IInv, [Next]_vars PROVE IInv'
    OBVIOUS
  <2>1. CASE Tick
    BY <2>1, TickStep
  <2>2. ASSUME NEW h \in Harts, TimerFires(h) \/ TimerTrap(h) \/ SyscallExit(h)
        PROVE  IInv'
    BY <2>2, TimerFiresStep, TimerTrapStep, SyscallExitStep
  <2>3. ASSUME NEW h \in Harts, NEW q \in SleepLens, SyscallSleep(h, q)
        PROVE  IInv'
    BY <2>3, SyscallSleepStep
  <2>4. ASSUME NEW h \in Harts, SchedStep(h)
        PROVE  IInv'
    BY <2>4, SchedLockStep, WalkWakeStep, WalkSkipStep, SchedPutStep,
       SchedPickStep, SpawnSelfStep DEF SchedStep
  <2>5. ASSUME NEW p \in Procs, ConsoleCreate(p)
        PROVE  IInv'
    BY <2>5, ConsoleCreateStep
  <2>6. CASE ConsoleAdd
    BY <2>6, ConsoleLoadFailsStep, ConsoleAddBeginStep, ConsoleAddEndStep DEF ConsoleAdd
  <2>7. CASE ConsoleSchedInvoke(0)
    BY <2>7, ConsoleSchedInvokeStep
  <2>8. CASE UNCHANGED vars
    BY <2>8, StutterInv
  <2> QED BY <2>1, <2>2, <2>3, <2>4, <2>5, <2>6, <2>7, <2>8 DEF Next
<1> QED BY <1>1, InitInv, PTL DEF Spec

\* The scheduler's state keeps its types.
THEOREM TypeCorrect == Spec => []TypeOK
BY Invariance, PTL DEF IInv

\* At most one hart is between mutex_wait and mutex_post of sched_invoke.
THEOREM SchedulerMutualExclusion == Spec => []MutualExclusion
BY Invariance, PTL DEF IInv

\* A process is never on two harts, in two lists, or on a hart and in a list.
THEOREM ProcessInOnePlace == Spec => []AtMostOnePlace
BY Invariance, PTL DEF IInv

\* A process with a pid is somewhere until it is freed, and a freed one nowhere.
THEOREM ProcessNeverLost == Spec => []NeverLost
BY Invariance, PTL DEF IInv

\* In user code a hart runs the process the kernel has on record for it.
THEOREM RecordIsCorrect == Spec => []CurrentIsRunning
BY Invariance, PTL DEF IInv

\* Sleeping processes are in the sleeping list, runnable ones in the queue.
THEOREM ListsMatchStates == Spec => []StateMatchesList
BY Invariance, PTL DEF IInv

\* The head of the run queue is the process with the least run time.
THEOREM QueueInOrder == Spec => []ListsAscending
BY Invariance, PTL DEF IInv

----------------------------------------------------------------------------
(* Timers and sleeps *)

\* A hart that is in user code has a timer that will bring it back.
LEMMA PreemptibleStep ==
    ASSUME TypeOK, AlwaysPreemptible, [Next]_vars
    PROVE  AlwaysPreemptible'
<1> USE DEF AlwaysPreemptible, TypeOK, lists, procs, walkv, timers, EnterSched
<1>1. CASE Tick
  BY <1>1 DEF Tick
<1>2. ASSUME NEW h \in Harts, TimerFires(h) PROVE AlwaysPreemptible'
  BY <1>2 DEF TimerFires
<1>3. ASSUME NEW h \in Harts, TimerTrap(h) PROVE AlwaysPreemptible'
  BY <1>3 DEF TimerTrap
<1>4. ASSUME NEW h \in Harts,
             SyscallExit(h) \/ \E q \in SleepLens : SyscallSleep(h, q)
      PROVE  AlwaysPreemptible'
  BY <1>4 DEF SyscallExit, SyscallSleep
<1>5. ASSUME NEW h \in Harts,
             SchedLock(h) \/ WalkWake(h) \/ WalkSkip(h) \/ SchedPut(h) \/ SchedPick(h)
      PROVE  AlwaysPreemptible'
  BY <1>5 DEF SchedLock, WalkWake, WalkSkip, SchedPut, SchedPick
<1>6. ASSUME NEW h \in Harts, SpawnSelf(h) PROVE AlwaysPreemptible'
  BY <1>6 DEF SpawnSelf, Dispatch
<1>7. ASSUME NEW p \in Procs, ConsoleCreate(p) PROVE AlwaysPreemptible'
  BY <1>7 DEF ConsoleCreate
<1>8. CASE ConsoleAdd \/ ConsoleSchedInvoke(0)
  BY <1>8 DEF ConsoleAdd, ConsoleLoadFails, ConsoleAddBegin, ConsoleAddEnd,
              ConsoleSchedInvoke
<1>9. CASE UNCHANGED vars
  BY <1>9 DEF vars
<1> QED
  BY <1>1, <1>2, <1>3, <1>4, <1>5, <1>6, <1>7, <1>8, <1>9 DEF Next, SchedStep

\* No hart is ever left in user code without a timer set or pending.
THEOREM HartsStayPreemptible == Spec => []AlwaysPreemptible
<1>1. Init => AlwaysPreemptible
  BY DEF Init, AlwaysPreemptible
<1> QED BY <1>1, PreemptibleStep, TypeCorrect, PTL DEF Spec

\* A step takes only sleepers off the sleeping list whose time has passed.
WakesDue == \A p \in Procs : Asleep(p) /\ ~Asleep(p)' => sleep_left[p] < 0

\* Only sleepers that were due when the walk read the clock are woken, and they
\* still are due when the walk comes to them.
LEMMA WakeStep ==
    ASSUME IInv, WalkIsFresh, [Next]_vars
    PROVE  WalkIsFresh' /\ WakesDue
<1> USE DEF WalkIsFresh, WakesDue, lists, procs, walkv, timers, EnterSched
<1>1. CASE Tick
  <2>1. due \subseteq Procs
    BY DEF IInv, TypeOK
  <2>2. ASSUME NEW p \in Procs, sleep_left[p] < 0 PROVE sleep_left'[p] < 0
    <3>1. sleep_left[p] \in Nat \union {-1}
      BY DEF IInv, TypeOK
    <3>2. sleep_left'[p] = -1
      BY <1>1, <2>2, <3>1 DEF Tick
    <3> QED BY <3>2
  <2>3. UNCHANGED <<due, sleeping_process_llist>>
    BY <1>1 DEF Tick
  <2> QED BY <2>1, <2>2, <2>3 DEF Asleep
<1>2. ASSUME NEW h \in Harts, TimerFires(h) \/ TimerTrap(h) \/ SyscallExit(h)
      PROVE  WalkIsFresh' /\ WakesDue
  BY <1>2 DEF TimerFires, TimerTrap, SyscallExit, Asleep
<1>3. ASSUME NEW h \in Harts, NEW q \in SleepLens, SyscallSleep(h, q)
      PROVE  WalkIsFresh' /\ WakesDue
  <2>1. process_current[h] \in Procs /\ ~Asleep(process_current[h])
    BY <1>3 DEF SyscallSleep, IInv, AtMostOnePlace, OnHart
  <2> QED BY <1>3, <2>1 DEF SyscallSleep, IInv, TypeOK, Asleep
<1>4. ASSUME NEW h \in Harts, SchedLock(h)
      PROVE  WalkIsFresh' /\ WakesDue
  BY <1>4 DEF SchedLock, Due, Asleep
<1>5. ASSUME NEW h \in Harts, WalkWake(h)
      PROVE  WalkIsFresh' /\ WakesDue
  <2> DEFINE s == sleeping_process_llist
  <2>1. pln \in 1..Len(s) /\ s[pln] \in due
    BY <1>5, LenProperties DEF IInv, TypeOK, WalkWake
  <2>2. s[pln] \in Elems(s)
    BY <2>1 DEF Elems
  <2>3. s' = UnlinkAt(s, pln)
    BY <1>5 DEF WalkWake, process_remove
  <2>4. Elems(s') = Elems(s) \ {s[pln]}
    BY <2>1, <2>3, ListFacts, UnlinkAtList
  <2>5. UNCHANGED <<due, sleep_left>>
    BY <1>5 DEF WalkWake
  <2> QED BY <2>1, <2>2, <2>4, <2>5 DEF Asleep
<1>6. ASSUME NEW h \in Harts, SchedPut(h)
      PROVE  WalkIsFresh' /\ WakesDue
  <2>1. due' = {}
    BY <1>6 DEF SchedPut
  <2>2. ASSUME NEW p \in Procs,
               sleeping_process_llist' = process_insert(vruntime, sleeping_process_llist, p)
        PROVE  Elems(sleeping_process_llist) \subseteq Elems(sleeping_process_llist')
    BY <2>2, ListFacts, ProcessInsert
  <2>3. \/ UNCHANGED sleeping_process_llist
        \/ \E p \in Procs : sleeping_process_llist' =
                               process_insert(vruntime, sleeping_process_llist, p)
    BY <1>6 DEF SchedPut, Outgoing, IInv, TypeOK, LabelsOwnState
  <2>4. Elems(sleeping_process_llist) \subseteq Elems(sleeping_process_llist')
    BY <2>2, <2>3
  <2> QED BY <2>1, <2>4 DEF Asleep
<1>7. ASSUME NEW h \in Harts, WalkSkip(h) \/ SchedPick(h) \/ SpawnSelf(h)
      PROVE  WalkIsFresh' /\ WakesDue
  BY <1>7 DEF WalkSkip, SchedPick, SpawnSelf, Dispatch, Asleep
<1>8. ASSUME NEW p \in Procs, ConsoleCreate(p)
      PROVE  WalkIsFresh' /\ WakesDue
  BY <1>8 DEF ConsoleCreate, Asleep
<1>9. CASE ConsoleAdd \/ ConsoleSchedInvoke(0)
  BY <1>9 DEF ConsoleAdd, ConsoleLoadFails, ConsoleAddBegin, ConsoleAddEnd,
              ConsoleSchedInvoke, Asleep
<1>10. CASE UNCHANGED vars
  BY <1>10 DEF vars, Asleep
<1> QED
  BY <1>1, <1>2, <1>3, <1>4, <1>5, <1>6, <1>7, <1>8, <1>9, <1>10 DEF Next, SchedStep

\* A process sleeps at least as long as it asked to.
THEOREM SleepsAreLongEnough == Spec => NoEarlyWake
<1>1. Init => WalkIsFresh
  BY DEF Init, WalkIsFresh
<1>2. IInv /\ WalkIsFresh /\ [Next]_vars => WalkIsFresh'
  BY WakeStep
<1>3. IInv /\ WalkIsFresh /\ [Next]_vars =>
         [\A p \in Procs : Asleep(p) /\ ~Asleep(p)' => sleep_left[p] < 0]_vars
  BY WakeStep DEF WakesDue
<1> QED BY <1>1, <1>2, <1>3, Invariance, PTL DEF Spec, NoEarlyWake
=============================================================================
