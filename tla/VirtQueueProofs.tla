-------------------------- MODULE VirtQueueProofs --------------------------
(***************************************************************************)
(* Polling for a virtio request is sound for every size of the queue and   *)
(* every width of the indices: a poll that returns saw its own completion, *)
(* never an old entry of the ring, as long as block.c's int has not run    *)
(* past the indices; rng.c and gpu.c have no such exception.               *)
(***************************************************************************)
EXTENDS VirtQueue, FiniteSetTheorems, TLAPS

(* Remainders *)

\* Numbers that differ by a multiple of n have the same remainder.
LEMMA SameRemainder ==
    ASSUME NEW n \in Nat \ {0}, NEW a \in Int, NEW b \in Int, NEW c \in Int,
           a = b + n * c
    PROVE  a % n = b % n
<1> DEFINE q == b \div n
           r == b % n
<1>1. q \in Int /\ r \in 0 .. n - 1 /\ b = n * q + r
  OBVIOUS
<1> HIDE DEF q, r
<1>2. n * q + n * c = n * (q + c)
  BY <1>1
<1>3. a = n * (q + c) + r /\ q + c \in Int
  BY <1>1, <1>2
<1>4. a % n = r
  BY <1>1, <1>3
<1> QED BY <1>4 DEF r

\* The indices wrap at a multiple of the queue's size: an index and its wrapped
\* form name the same slot.
LEMMA SameSlot ==
    ASSUME NEW a \in Int, NEW b \in Int, NEW c \in Int, a = b + IdxMod * c
    PROVE  a % QueueSize = b % QueueSize
<1>1. QueueSize \in Nat \ {0} /\ IdxMod \in Nat /\ IdxMod % QueueSize = 0
  BY QueueAssumption
<1>2. IdxMod = QueueSize * (IdxMod \div QueueSize) /\ (IdxMod \div QueueSize) \in Int
  BY <1>1
<1> DEFINE m == IdxMod \div QueueSize
<1> HIDE DEF m
<1>3. m \in Int /\ IdxMod = QueueSize * m
  BY <1>2 DEF m
<1>4. IdxMod * c = QueueSize * (m * c) /\ m * c \in Int
  <2>1. \A x, y, z \in Int : (x * y) * z = x * (y * z)
    OBVIOUS
  <2>2. (QueueSize * m) * c = QueueSize * (m * c)
    BY <2>1, <1>1, <1>3
  <2>3. m * c \in Int
    BY <1>3
  <2>4. IdxMod * c = (QueueSize * m) * c
    BY <1>3, Zenon
  <2> QED BY <2>2, <2>3, <2>4, Zenon
<1> DEFINE d == m * c
<1>5. d \in Int /\ a = b + QueueSize * d
  BY <1>4, Zenon
<1> HIDE DEF d
<1> QED BY <1>1, <1>5, SameRemainder

\* Wrapping an index changes it by a multiple of IdxMod.
LEMMA Wrapped ==
    ASSUME NEW a \in Int
    PROVE  /\ a % IdxMod \in 0 .. IdxMod - 1
           /\ \E c \in Int : a % IdxMod = a + IdxMod * c
<1>1. IdxMod \in Nat \ {0}
  BY QueueAssumption
<1>2. a = IdxMod * (a \div IdxMod) + (a % IdxMod) /\ (a \div IdxMod) \in Int
  BY <1>1
<1>3. a % IdxMod \in 0 .. IdxMod - 1
  BY <1>1
<1> DEFINE q == a \div IdxMod
           r == a % IdxMod
<1> HIDE DEF q, r
<1>4. r = a + IdxMod * (-q) /\ -q \in Int
  BY <1>1, <1>2, <1>3 DEF q, r
<1> QED BY <1>3, <1>4 DEF r
\* A number below IdxMod that differs by a multiple of IdxMod is the remainder.
LEMMA RemainderIs ==
    ASSUME NEW a \in Int, NEW r \in 0 .. IdxMod - 1, NEW c \in Int, a = r + IdxMod * c
    PROVE  a % IdxMod = r
<1>1. IdxMod \in Nat \ {0}
  BY QueueAssumption
<1>2. r % IdxMod = r
  BY <1>1
<1> QED BY <1>1, <1>2, SameRemainder

----------------------------------------------------------------------------
(* The ring *)

\* How far index v is ahead of index i, and the wrapped index behind v.
Ahead(v, i) == (v - i) % IdxMod
After(v) == (v + 1) % IdxMod

\* Advancing the front moves it one further from i, or onto i.
LEMMA AheadOfAfter ==
    ASSUME NEW v \in Int, NEW i \in Int
    PROVE  /\ Ahead(v, i) \in 0 .. IdxMod - 1
           /\ Ahead(After(v), i) = IF Ahead(v, i) + 1 = IdxMod THEN 0 ELSE Ahead(v, i) + 1
<1>1. IdxMod \in Nat \ {0}
  BY QueueAssumption
<1>2. PICK c \in Int : After(v) = v + 1 + IdxMod * c
  BY Wrapped DEF After
<1>3. PICK e \in Int : Ahead(v, i) = v - i + IdxMod * e
  BY Wrapped DEF Ahead
<1>4. Ahead(v, i) \in 0 .. IdxMod - 1
  BY Wrapped DEF Ahead
<1>5. c - e \in Int /\ IdxMod * c - IdxMod * e = IdxMod * (c - e)
  BY <1>1
<1>6. After(v) - i = (Ahead(v, i) + 1) + IdxMod * (c - e) /\ After(v) - i \in Int
  BY <1>1, <1>2, <1>3, <1>4, <1>5
<1>7. CASE Ahead(v, i) + 1 = IdxMod
  <2>1. After(v) - i = 0 + IdxMod * (c - e + 1)
    BY <1>1, <1>5, <1>6, <1>7
  <2> QED BY <2>1, <1>1, <1>4, <1>5, <1>6, <1>7, RemainderIs DEF Ahead
<1>8. CASE Ahead(v, i) + 1 # IdxMod
  <2>1. Ahead(v, i) + 1 \in 0 .. IdxMod - 1
    BY <1>1, <1>4, <1>8
  <2>2. (After(v) - i) % IdxMod = Ahead(v, i) + 1
    BY <2>1, <1>5, <1>6, RemainderIs
  <2> QED BY <2>2, <1>4, <1>8 DEF Ahead
<1> QED BY <1>7, <1>8

\* Two indices agree exactly when neither is ahead of the other.
LEMMA AheadZero ==
    ASSUME NEW v \in 0 .. IdxMod - 1, NEW i \in 0 .. IdxMod - 1
    PROVE  Ahead(v, i) = 0 <=> v = i
<1>1. IdxMod \in Nat \ {0}
  BY QueueAssumption
<1>2. CASE v >= i
  <2>1. v - i \in 0 .. IdxMod - 1
    BY <1>1, <1>2
  <2>2. (v - i) % IdxMod = v - i
    BY <1>1, <2>1
  <2> QED BY <2>2 DEF Ahead
<1>3. CASE v < i
  <2>1. (v - i) + IdxMod \in 0 .. IdxMod - 1 /\ v - i = ((v - i) + IdxMod) + IdxMod * (-1)
    BY <1>1, <1>3
  <2>2. (v - i) % IdxMod = (v - i) + IdxMod
    BY <2>1, RemainderIs
  <2> QED BY <2>2, <1>1, <1>3 DEF Ahead
<1> QED BY <1>1, <1>2, <1>3

\* Advancing the index that follows brings it one nearer to the front.
LEMMA AheadOfNext ==
    ASSUME NEW v \in 0 .. IdxMod - 1, NEW i \in 0 .. IdxMod - 1, v # i,
           NEW j \in Int, NEW c \in Int, j = i + 1 + IdxMod * c
    PROVE  Ahead(v, i) # 0 /\ Ahead(v, j) = Ahead(v, i) - 1
<1>1. IdxMod \in Nat \ {0}
  BY QueueAssumption
<1>2. Ahead(v, i) \in 0 .. IdxMod - 1 /\ Ahead(v, i) # 0
  BY AheadOfAfter, AheadZero
<1>3. PICK e \in Int : Ahead(v, i) = v - i + IdxMod * e
  BY Wrapped DEF Ahead
<1>4. -c - e \in Int /\ -(IdxMod * c) - IdxMod * e = IdxMod * (-c - e)
  BY <1>1
<1>5. v - j = (Ahead(v, i) - 1) + IdxMod * (-c - e) /\ v - j \in Int
  BY <1>1, <1>2, <1>3, <1>4
<1>6. Ahead(v, i) - 1 \in 0 .. IdxMod - 1
  BY <1>1, <1>2
<1>7. (v - j) % IdxMod = Ahead(v, i) - 1
  BY <1>4, <1>5, <1>6, RemainderIs
<1> QED BY <1>2, <1>7 DEF Ahead

\* The slot the device writes next is the one behind the entries in front of i.
LEMMA FrontSlot ==
    ASSUME NEW v \in Int, NEW i \in Int
    PROVE  (i + Ahead(v, i)) % QueueSize = v % QueueSize
<1>1. PICK e \in Int : Ahead(v, i) = v - i + IdxMod * e
  BY Wrapped DEF Ahead
<1>2. IdxMod \in Nat /\ IdxMod * e \in Int
  BY QueueAssumption
<1>3. i + Ahead(v, i) = v + IdxMod * e /\ i + Ahead(v, i) \in Int
  BY <1>1, <1>2
<1> QED BY <1>3, SameSlot

\* A slot number is a slot.
LEMMA SlotOf == \A k \in Int : k % QueueSize \in Slots
BY QueueAssumption DEF Slots

\* Indices less than a queue apart have different slots.
LEMMA SlotsDiffer ==
    ASSUME NEW k \in Int, NEW m \in Int, k < m, m - k < QueueSize
    PROVE  k % QueueSize # m % QueueSize
<1> DEFINE n == QueueSize
           p == k \div n
           q == m \div n
<1>1. n \in Nat \ {0}
  BY QueueAssumption
<1> HIDE DEF n
<1>2. p \in Int /\ q \in Int /\ k % n \in Int
  BY <1>1
<1>3. k = n * p + (k % n) /\ m = n * q + (m % n)
  BY <1>1
<1> HIDE DEF p, q
<1> SUFFICES ASSUME k % n = m % n PROVE FALSE
  BY DEF n
<1>4. n * q - n * p = n * (q - p) /\ q - p \in Int
  BY <1>1, <1>2
<1>5. m - k = n * (q - p)
  BY <1>1, <1>2, <1>3, <1>4
<1>6. q - p > 0 => n * (q - p) >= n
  BY <1>1, <1>2
<1>7. q - p <= 0 => n * (q - p) <= 0
  BY <1>1, <1>2
<1> QED BY <1>1, <1>4, <1>5, <1>6, <1>7 DEF n

----------------------------------------------------------------------------
(* The entries of a ring r, written up to index v, from index i on *)

Entries(r, v, i) == {r[k % QueueSize] : k \in i .. i + Ahead(v, i) - 1}

Fresh(r, v, out, i) ==
    \A k \in i .. i + Ahead(v, i) - 1 :
       /\ r[k % QueueSize] \in Slots \ out
       /\ \A l \in i .. k - 1 : r[l % QueueSize] # r[k % QueueSize]

\* There is room in the ring for every request that is still to be completed.
LEMMA RoomForOne ==
    ASSUME NEW r, NEW v \in Int, NEW i \in Int, NEW out, NEW d \in out, out \subseteq Slots,
           Fresh(r, v, out, i)
    PROVE  Ahead(v, i) < QueueSize
<1> DEFINE N == Ahead(v, i)
           S == 0 .. N
           f == [j \in S |-> IF j < N THEN r[(i + j) % QueueSize] ELSE d]
<1>1. N \in Nat /\ QueueSize \in Nat
  BY AheadOfAfter, QueueAssumption
<1> HIDE DEF N
<1>2. f \in [S -> Slots]
  <2> SUFFICES ASSUME NEW j \in S, j < N PROVE r[(i + j) % QueueSize] \in Slots
    OBVIOUS
  <2>1. i + j \in i .. i + N - 1
    BY <1>1
  <2> QED BY <2>1 DEF Fresh, N
<1>3. ASSUME NEW x \in S, NEW y \in S, x < y PROVE f[x] # f[y]
  <2>1. i + x \in i .. i + N - 1 /\ x < N
    BY <1>1, <1>3
  <2>2. f[x] = r[(i + x) % QueueSize]
    BY <2>1
  <2>3. CASE y = N
    <3>1. f[y] = d /\ f[x] \notin out
      BY <2>1, <2>2, <2>3, <1>1 DEF Fresh, N
    <3> QED BY <3>1
  <2>4. CASE y # N
    <3>1. i + y \in i .. i + N - 1 /\ i + x \in i .. (i + y) - 1 /\ y < N
      BY <1>1, <1>3, <2>4
    <3>2. f[y] = r[(i + y) % QueueSize]
      BY <3>1
    <3> QED BY <3>1, <3>2, <2>2 DEF Fresh, N
  <2> QED BY <2>3, <2>4
<1>4. ~ \E x, y \in S : x # y /\ f[x] = f[y]
  <2> SUFFICES ASSUME NEW x \in S, NEW y \in S, x # y PROVE f[x] # f[y]
    OBVIOUS
  <2>1. x < y \/ y < x
    BY <1>1
  <2> HIDE DEF f, S
  <2> QED BY <2>1, <1>3
<1>5. IsFiniteSet(S) /\ Cardinality(S) = N + 1
  BY <1>1, FS_Interval
<1>6. IsFiniteSet(Slots) /\ Cardinality(Slots) = QueueSize
  BY <1>1, QueueAssumption, FS_Interval DEF Slots
<1> HIDE DEF f, S
<1>7. ~(Cardinality(Slots) < Cardinality(S))
  BY <1>2, <1>4, <1>5, <1>6, FS_PigeonHole
<1>8. N < QueueSize
  BY <1>1, <1>5, <1>6, <1>7
<1> QED BY <1>8 DEF N

Written(r, v, d) == [r EXCEPT ![v % QueueSize] = d]

\* The device completes d: the entries from i on are the old ones and d, and
\* fresh again.
LEMMA EntriesAfterCompletion ==
    ASSUME NEW r, r \in [Slots -> Slots \union {NoRequest}],
           NEW v \in 0 .. IdxMod - 1, NEW i \in Int,
           NEW out, NEW d \in out, out \subseteq Slots, Fresh(r, v, out, i)
    PROVE  /\ Fresh(Written(r, v, d), After(v), out \ {d}, i)
           /\ QueueSize < IdxMod =>
                 Entries(Written(r, v, d), After(v), i) = Entries(r, v, i) \union {d}
<1> DEFINE s == Written(r, v, d)
           N == Ahead(v, i)
           M == Ahead(After(v), i)
<1>1. N \in Nat /\ IdxMod \in Nat \ {0} /\ QueueSize \in Nat \ {0} /\ v \in Int
  BY AheadOfAfter, QueueAssumption
<1>2. N < QueueSize
  BY <1>1, RoomForOne
<1>3. M = IF N + 1 = IdxMod THEN 0 ELSE N + 1
  BY <1>1, AheadOfAfter
<1>4. (i + N) % QueueSize = v % QueueSize
  BY <1>1, FrontSlot
<1>5. s[(i + N) % QueueSize] = d
  BY <1>1, <1>4, SlotOf DEF Written
<1>6. ASSUME NEW k \in i .. i + N - 1 PROVE s[k % QueueSize] = r[k % QueueSize]
  <2>1. k \in Int /\ i + N \in Int /\ k < i + N /\ (i + N) - k < QueueSize
    BY <1>1, <1>2
  <2>2. k % QueueSize # v % QueueSize
    BY <2>1, <1>4, SlotsDiffer
  <2>3. k % QueueSize \in Slots /\ v % QueueSize \in Slots
    BY <2>1, <1>1, SlotOf
  <2> QED BY <2>2, <2>3 DEF Written
<1>7. \A k \in i .. i + N - 1 : r[k % QueueSize] # d
  BY DEF Fresh
<1> HIDE DEF N, M, s
<1>8. Fresh(s, After(v), out \ {d}, i)
  <2> SUFFICES ASSUME NEW k \in i .. i + M - 1
               PROVE  /\ s[k % QueueSize] \in Slots \ (out \ {d})
                      /\ \A l \in i .. k - 1 : s[l % QueueSize] # s[k % QueueSize]
    BY DEF Fresh, M
  <2>1. k \in i .. i + N - 1 \/ k = i + N
    BY <1>1, <1>3
  <2>2. CASE k \in i .. i + N - 1
    <3>1. \A l \in i .. k - 1 : l \in i .. i + N - 1
      BY <1>1, <2>2
    <3> QED BY <2>2, <3>1, <1>6 DEF Fresh, N
  <2>3. CASE k = i + N
    <3>1. \A l \in i .. k - 1 : l \in i .. i + N - 1
      BY <1>1, <2>3
    <3>2. \A l \in i .. k - 1 : s[l % QueueSize] = r[l % QueueSize] /\ r[l % QueueSize] # d
      BY <3>1, <1>6, <1>7
    <3> QED BY <2>3, <3>2, <1>5
  <2> QED BY <2>1, <2>2, <2>3
<1>9. ASSUME QueueSize < IdxMod
      PROVE  Entries(s, After(v), i) = Entries(r, v, i) \union {d}
  <2>1. M = N + 1
    BY <1>1, <1>2, <1>3, <1>9
  <2>2. \A k : k \in i .. i + M - 1 <=> k \in i .. i + N - 1 \/ k = i + N
    BY <1>1, <2>1
  <2> QED BY <2>2, <1>5, <1>6 DEF Entries, N, M
<1> QED BY <1>8, <1>9 DEF s

\* The polling loop looks at the first entry and goes on to the next index.
LEMMA EntriesAfterLook ==
    ASSUME NEW r, NEW v \in 0 .. IdxMod - 1, NEW i \in 0 .. IdxMod - 1, v # i,
           NEW j \in {i + 1, (i + 1) % IdxMod}
    PROVE  /\ r[i % QueueSize] \in Entries(r, v, i)
           /\ Entries(r, v, i) = {r[i % QueueSize]} \union Entries(r, v, j)
           /\ \A out : Fresh(r, v, out, i) => Fresh(r, v, out, j)
<1>0. j \in Int /\ \E c \in Int : j = i + 1 + IdxMod * c
  <2>1. i + 1 \in Int /\ i + 1 = i + 1 + IdxMod * 0
    BY QueueAssumption
  <2>2. (i + 1) % IdxMod \in Int /\ \E c \in Int : (i + 1) % IdxMod = i + 1 + IdxMod * c
    BY <2>1, Wrapped
  <2> QED BY <2>1, <2>2
<1> PICK c \in Int : j = i + 1 + IdxMod * c
  BY <1>0
<1> DEFINE N == Ahead(v, i)
           M == Ahead(v, j)
           D == IdxMod * c
<1>1. N \in Nat \ {0} /\ IdxMod \in Nat \ {0} /\ D \in Int /\ i \in Int
  <2>1. IdxMod \in Nat \ {0} /\ i \in Int /\ v \in Int
    BY QueueAssumption
  <2>2. N # 0
    BY AheadZero
  <2>3. N \in Nat
    <3>1. N \in 0 .. IdxMod - 1
      BY <2>1, AheadOfAfter, Zenon
    <3> QED BY <3>1, <2>1
  <2>4. D \in Int
    BY <2>1
  <2> QED BY <2>1, <2>2, <2>3, <2>4
<1>2. M = N - 1
  <2> HIDE DEF D
  <2> QED BY <1>0, AheadOfNext
<1>3. ASSUME NEW k \in Int PROVE (k + D) % QueueSize = k % QueueSize
  <2> DEFINE b == k + D
  <2>1. b \in Int /\ b = k + IdxMod * c
    BY <1>1
  <2> HIDE DEF b
  <2>2. b % QueueSize = k % QueueSize
    BY <2>1, SameSlot
  <2> QED BY <2>2 DEF b
<1> HIDE DEF N, M, D
<1>4. j = i + 1 + D
  BY DEF D
<1>5. \A k \in j .. j + M - 1 : k - D \in i + 1 .. i + N - 1 /\ r[k % QueueSize] = r[(k - D) % QueueSize]
  <2> TAKE k \in j .. j + M - 1
  <2>1. k - D \in Int /\ k = (k - D) + D /\ k - D \in i + 1 .. i + N - 1
    BY <1>1, <1>2, <1>4
  <2> QED BY <2>1, <1>3
<1>6. \A k \in i + 1 .. i + N - 1 : k + D \in j .. j + M - 1 /\ r[(k + D) % QueueSize] = r[k % QueueSize]
  BY <1>1, <1>2, <1>3, <1>4
<1>7. i \in i .. i + N - 1 /\ \A k \in i .. i + N - 1 : k = i \/ k \in i + 1 .. i + N - 1
  BY <1>1
<1>8. \A k \in i + 1 .. i + N - 1 : k \in i .. i + N - 1
  BY <1>1
<1>9. r[i % QueueSize] \in Entries(r, v, i)
  BY <1>7 DEF Entries, N
<1>10. Entries(r, v, i) = {r[i % QueueSize]} \union Entries(r, v, j)
  BY <1>5, <1>6, <1>7, <1>8 DEF Entries, N, M
<1>11. ASSUME NEW out, Fresh(r, v, out, i) PROVE Fresh(r, v, out, j)
  <2> SUFFICES ASSUME NEW k \in j .. j + M - 1
               PROVE  /\ r[k % QueueSize] \in Slots \ out
                      /\ \A l \in j .. k - 1 : r[l % QueueSize] # r[k % QueueSize]
    BY DEF Fresh, M
  <2>1. k - D \in i .. i + N - 1 /\ r[k % QueueSize] = r[(k - D) % QueueSize]
    BY <1>5, <1>8
  <2>2. \A l \in j .. k - 1 : /\ l - D \in i .. (k - D) - 1
                              /\ r[l % QueueSize] = r[(l - D) % QueueSize]
    <3> TAKE l \in j .. k - 1
    <3>1. l \in j .. j + M - 1
      BY <1>1, <1>2
    <3>2. l - D \in i .. (k - D) - 1
      BY <1>1, <1>4
    <3> QED BY <3>1, <3>2, <1>5
  <2> QED BY <2>1, <2>2, <1>11 DEF Fresh, N
<1> QED BY <1>9, <1>10, <1>11

----------------------------------------------------------------------------
(* The steps *)

\* The indices of rng.c and gpu.c wrap with the device's.
WrappedUnlessBlock == driver # "block" => ~PastEnd

QInv == TypeOK /\ RingFresh /\ WrappedUnlessBlock

\* What PollSeesCompletion and CompletionNotMissed say of a step.
Sees == pc = "poll" /\ pc' = "idle" /\ ~PastEnd => brq1_desc_idx \notin outstanding
NotMissed ==
    pc = "poll" /\ brq1_desc_idx \in outstanding \union EntriesFrom(lookahead_idx)
      => \/ pc' = "idle" \/ PastEnd'
         \/ (brq1_desc_idx \in outstanding \union EntriesFrom(lookahead_idx))'

\* The module's operators in terms of the ring.
LEMMA RingForm ==
    /\ \A i : FreshFrom(i) <=> Fresh(device_ring, device_idx, outstanding, i)
    /\ \A i : EntriesFrom(i) = Entries(device_ring, device_idx, i)
BY DEF FreshFrom, Fresh, EntriesFrom, Entries, Ahead

\* Constants of the queue.
LEMMA Sizes ==
    /\ QueueSize \in Nat \ {0} /\ IdxMod \in Nat \ {0} /\ QueueSize >= 3
    /\ Slots \subseteq Int /\ NoRequest \notin Slots
BY QueueAssumption DEF Slots, NoRequest

\* The queue is empty before the first request.
LEMMA InitQueue == Init => QInv
<1> SUFFICES ASSUME Init PROVE QInv
  OBVIOUS
<1> USE Sizes
<1>1. TypeOK
  <2>1. 0 \in 0 .. IdxMod - 1
    OBVIOUS
  <2>2. [s \in Slots |-> 1] \in [Slots -> 1 .. 3]
    OBVIOUS
  <2> QED BY <2>1, <2>2 DEF Init, TypeOK
<1>2. Ahead(0, 0) = 0
  BY AheadZero
<1>3. FreshFrom(acknowledged_idx)
  <2>1. \A k \in 0 .. 0 + Ahead(0, 0) - 1 : FALSE
    BY <1>2
  <2> QED BY <2>1 DEF Init, FreshFrom, Ahead
<1> QED BY <1>1, <1>3 DEF Init, QInv, RingFresh, WrappedUnlessBlock, PastEnd

\* A request is put into the driver's ring: its descriptors are not those of a
\* request that is outstanding or not acknowledged.
LEMMA NotifiedStep ==
    ASSUME QInv, NEW len \in 1 .. 3, NEW then \in {"idle", "notified"}, Notified(len, then)
    PROVE  QInv' /\ Sees /\ NotMissed
<1> DEFINE d == requests_idx % QueueSize
<1>1. d \in Slots /\ requests_idx \in Int
  BY SlotOf, Sizes DEF QInv, TypeOK
<1>2. /\ pc = "idle" /\ DescriptorsFree(d, len)
      /\ outstanding' = outstanding \union {d}
      /\ brq1_desc_idx' = d /\ pc' = then
      /\ chain_len' = [s \in Slots |-> IF s = d THEN len ELSE IF s \in Chain(d, len) THEN 1
                                       ELSE chain_len[s]]
      /\ requests_idx' = (requests_idx + len) % IdxMod
      /\ UNCHANGED <<driver, device_idx, device_ring, acknowledged_idx,
                     queue_interrupt, lookahead_idx>>
  BY DEF Notified, AdvancedIdx
<1>3. TypeOK'
  <2>1. requests_idx' \in 0 .. IdxMod - 1
    BY <1>1, <1>2, Wrapped
  <2>2. chain_len' \in [Slots -> 1 .. 3]
    BY <1>2 DEF QInv, TypeOK
  <2> HIDE DEF d
  <2> QED BY <2>1, <2>2, <1>1, <1>2 DEF QInv, TypeOK
<1>4. \A l \in Nat \ {0} : \A o \in Slots : o \in Chain(o, l)
  <2> TAKE l \in Nat \ {0}
  <2> TAKE o \in Slots
  <2>1. o + 0 = o /\ o % QueueSize = o /\ 0 \in 0 .. l - 1
    BY Sizes DEF Slots
  <2> QED BY <2>1 DEF Chain
<1>5. d \notin EntriesFrom(acknowledged_idx)
  <2> SUFFICES ASSUME d \in EntriesFrom(acknowledged_idx) PROVE FALSE
    OBVIOUS
  <2>1. chain_len[d] \in Nat \ {0}
    BY <1>1 DEF QInv, TypeOK
  <2> HIDE DEF d
  <2>2. d \in Chain(d, chain_len[d]) /\ d \in Chain(d, len)
    BY <1>1, <1>4, <2>1
  <2> QED BY <1>2, <2>2 DEF DescriptorsFree
<1> HIDE DEF d
<1>6. FreshFrom(acknowledged_idx)'
  BY <1>1, <1>2, <1>5 DEF QInv, RingFresh, FreshFrom, EntriesFrom
<1>7. RingFresh'
  BY <1>2, <1>6 DEF RingFresh
<1> QED BY <1>2, <1>3, <1>7 DEF QInv, WrappedUnlessBlock, PastEnd, Sees, NotMissed

\* The loop starts at the acknowledged index.
LEMMA SnapshotStep ==
    ASSUME QInv, Snapshot
    PROVE  QInv' /\ Sees /\ NotMissed
<1>1. /\ pc = "notified" /\ pc' = "poll" /\ lookahead_idx' = acknowledged_idx
      /\ UNCHANGED <<driver, requests_idx, chain_len, outstanding, device_idx, device_ring,
                     acknowledged_idx, queue_interrupt, brq1_desc_idx>>
  BY DEF Snapshot, queue, device
<1>2. acknowledged_idx \in 0 .. IdxMod - 1 /\ acknowledged_idx \in Nat
  BY Sizes DEF QInv, TypeOK
<1>3. TypeOK'
  BY <1>1, <1>2 DEF QInv, TypeOK
<1>4. ~PastEnd'
  BY <1>1, <1>2, Sizes DEF PastEnd
<1>5. FreshFrom(acknowledged_idx)' /\ FreshFrom(lookahead_idx)'
  BY <1>1 DEF QInv, RingFresh, FreshFrom
<1> QED BY <1>1, <1>3, <1>4, <1>5 DEF QInv, RingFresh, WrappedUnlessBlock, Sees, NotMissed

\* One round of the loop, on an entry the device has written.
LEMMA PollStepStep ==
    ASSUME QInv, PollStep
    PROVE  QInv' /\ Sees /\ NotMissed
<1> DEFINE i == lookahead_idx
           j == lookahead_idx'
           e == device_ring[i % QueueSize]
<1>1. /\ pc = "poll" /\ i # device_idx
      /\ j = IF driver = "block" THEN i + 1 ELSE (i + 1) % IdxMod
      /\ pc' = IF e = brq1_desc_idx THEN "idle" ELSE "poll"
      /\ UNCHANGED <<driver, requests_idx, chain_len, outstanding, device_idx, device_ring,
                     acknowledged_idx, queue_interrupt, brq1_desc_idx>>
  BY DEF PollStep, NewEntry, Looked, queue, device
<1>2. i \in Nat /\ device_idx \in 0 .. IdxMod - 1
  BY DEF QInv, TypeOK
<1>3. j \in {i + 1, (i + 1) % IdxMod}
  BY <1>1
<1>4. j \in Nat /\ (driver # "block" => j \in 0 .. IdxMod - 1)
  BY <1>1, <1>2, Sizes, Wrapped
<1>5. TypeOK'
  BY <1>1, <1>4 DEF QInv, TypeOK
<1>6. WrappedUnlessBlock'
  BY <1>1, <1>4, Sizes DEF WrappedUnlessBlock, PastEnd
<1>7. FreshFrom(acknowledged_idx)'
  BY <1>1 DEF QInv, RingFresh, FreshFrom
<1>8. CASE PastEnd
  <2>1. driver = "block"
    BY <1>8 DEF QInv, WrappedUnlessBlock
  <2>2. PastEnd'
    BY <2>1, <1>1, <1>2, <1>8, Sizes DEF PastEnd
  <2> QED BY <2>2, <1>5, <1>6, <1>7, <1>8 DEF QInv, RingFresh, Sees, NotMissed
<1>9. CASE ~PastEnd
  <2>1. i \in 0 .. IdxMod - 1
    BY <1>2, <1>9, Sizes DEF PastEnd
  <2>2. /\ e \in Entries(device_ring, device_idx, i)
        /\ Entries(device_ring, device_idx, i) = {e} \union Entries(device_ring, device_idx, j)
        /\ \A out : Fresh(device_ring, device_idx, out, i)
                       => Fresh(device_ring, device_idx, out, j)
    <3> HIDE DEF i, j
    <3> QED BY <2>1, <1>1, <1>2, <1>3, EntriesAfterLook DEF e
  <2>3. FreshFrom(i) /\ e \notin outstanding
    <3>1. FreshFrom(i)
      BY <1>1, <1>9 DEF QInv, RingFresh
    <3> QED BY <3>1, <2>2 DEF FreshFrom, Entries, Ahead
  <2>4. FreshFrom(lookahead_idx)'
    BY <2>2, <2>3, <1>1 DEF FreshFrom, Fresh, Ahead
  <2>5. EntriesFrom(i) = Entries(device_ring, device_idx, i)
    BY DEF EntriesFrom, Entries, Ahead
  <2>6. EntriesFrom(lookahead_idx)' = Entries(device_ring, device_idx, j)
    BY <1>1 DEF EntriesFrom, Entries, Ahead
  <2>7. Sees
    BY <2>3, <1>1 DEF Sees
  <2>8. NotMissed
    BY <2>2, <2>5, <2>6, <1>1 DEF NotMissed
  <2> QED BY <2>4, <2>7, <2>8, <1>5, <1>6, <1>7 DEF QInv, RingFresh
<1> QED BY <1>8, <1>9

\* The device completes a request.
LEMMA CompleteStep ==
    ASSUME QInv, NEW d \in Slots, Complete(d)
    PROVE  /\ QInv' /\ Sees
           /\ QueueSize < IdxMod => NotMissed
<1>1. /\ d \in outstanding /\ outstanding' = outstanding \ {d}
      /\ device_ring' = [device_ring EXCEPT ![device_idx % QueueSize] = d]
      /\ device_idx' = After(device_idx)
      /\ queue_interrupt' = TRUE
      /\ UNCHANGED <<driver, requests_idx, chain_len, acknowledged_idx, pc, brq1_desc_idx,
                     lookahead_idx>>
  BY DEF Complete, queue, locals, After
<1>2. /\ device_ring \in [Slots -> Slots \union {NoRequest}]
      /\ device_idx \in 0 .. IdxMod - 1 /\ outstanding \subseteq Slots
      /\ acknowledged_idx \in Int /\ lookahead_idx \in Int /\ device_idx \in Int
  BY DEF QInv, TypeOK
<1>3. TypeOK'
  <2>1. device_idx' \in 0 .. IdxMod - 1
    BY <1>1, <1>2, Wrapped DEF After
  <2>2. device_ring' \in [Slots -> Slots \union {NoRequest}]
    BY <1>1, <1>2, SlotOf
  <2> QED BY <2>1, <2>2, <1>1 DEF QInv, TypeOK
<1>4. ASSUME NEW i \in Int, Fresh(device_ring, device_idx, outstanding, i)
      PROVE  /\ Fresh(device_ring', device_idx', outstanding', i)
             /\ QueueSize < IdxMod =>
                   Entries(device_ring', device_idx', i)
                      = Entries(device_ring, device_idx, i) \union {d}
  <2> DEFINE r == device_ring
             v == device_idx
             out == outstanding
  <2>1. /\ r \in [Slots -> Slots \union {NoRequest}] /\ v \in 0 .. IdxMod - 1
        /\ d \in out /\ out \subseteq Slots /\ Fresh(r, v, out, i)
    BY <1>1, <1>2, <1>4
  <2> HIDE DEF r, v, out
  <2>2. /\ Fresh(Written(r, v, d), After(v), out \ {d}, i)
        /\ QueueSize < IdxMod =>
              Entries(Written(r, v, d), After(v), i) = Entries(r, v, i) \union {d}
    BY <2>1, EntriesAfterCompletion
  <2> QED BY <2>2, <1>1, Zenon DEF r, v, out, Written
<1>5. FreshFrom(acknowledged_idx)'
  <2>1. Fresh(device_ring, device_idx, outstanding, acknowledged_idx)
    BY RingForm DEF QInv, RingFresh
  <2> QED BY <2>1, <1>1, <1>2, <1>4 DEF FreshFrom, Fresh, Ahead
<1>6. pc = "poll" /\ ~PastEnd => Fresh(device_ring, device_idx, outstanding, lookahead_idx)
  BY RingForm DEF QInv, RingFresh
<1>7. RingFresh'
  BY <1>1, <1>2, <1>4, <1>5, <1>6 DEF RingFresh, FreshFrom, Fresh, Ahead, PastEnd
<1>8. ASSUME QueueSize < IdxMod PROVE NotMissed
  <2>1. CASE pc = "poll" /\ ~PastEnd
    <3>1. Entries(device_ring', device_idx', lookahead_idx)
             = Entries(device_ring, device_idx, lookahead_idx) \union {d}
      BY <2>1, <1>2, <1>4, <1>6, <1>8
    <3>2. EntriesFrom(lookahead_idx)' = EntriesFrom(lookahead_idx) \union {d}
      BY <3>1, <1>1 DEF EntriesFrom, Entries, Ahead
    <3> QED BY <3>2, <1>1 DEF NotMissed
  <2>2. CASE pc = "poll" /\ PastEnd
    BY <2>2, <1>1 DEF NotMissed, PastEnd
  <2> QED BY <2>1, <2>2 DEF NotMissed
<1> QED BY <1>1, <1>3, <1>7, <1>8 DEF QInv, WrappedUnlessBlock, PastEnd, Sees

\* The interrupt handler acknowledges everything the device has written.
LEMMA AcknowledgedStep ==
    ASSUME QInv, Acknowledged
    PROVE  QInv' /\ Sees /\ NotMissed
<1>1. /\ queue_interrupt' = FALSE /\ acknowledged_idx' = device_idx
      /\ UNCHANGED <<driver, requests_idx, chain_len, outstanding, device_idx, device_ring, pc,
                     brq1_desc_idx, lookahead_idx>>
  BY DEF Acknowledged, queue, device, locals
<1>2. TypeOK'
  BY <1>1 DEF QInv, TypeOK
<1>3. FreshFrom(acknowledged_idx)'
  <2>1. device_idx \in 0 .. IdxMod - 1
    BY DEF QInv, TypeOK
  <2>2. (device_idx - device_idx) % IdxMod = 0
    BY <2>1, AheadZero DEF Ahead
  <2>3. \A k \in device_idx .. device_idx + 0 - 1 : FALSE
    BY <2>1
  <2> QED BY <2>2, <2>3, <1>1 DEF FreshFrom
<1>4. RingFresh'
  BY <1>1, <1>3 DEF QInv, RingFresh, FreshFrom, PastEnd
<1> QED BY <1>1, <1>2, <1>4
        DEF QInv, WrappedUnlessBlock, PastEnd, Sees, NotMissed, EntriesFrom

\* By cases on the step.
LEMMA QueueStep ==
    ASSUME QInv, [Next]_vars
    PROVE  /\ QInv' /\ Sees
           /\ QueueSize < IdxMod => NotMissed
<1>1. ASSUME NEW do_poll \in BOOLEAN, block_read_write(do_poll)
      PROVE  QInv' /\ Sees /\ NotMissed
  BY <1>1, NotifiedStep DEF block_read_write
<1>2. CASE rng_fill_poll
  BY <1>2, NotifiedStep DEF rng_fill_poll
<1>3. ASSUME NEW data \in BOOLEAN, gpu_request_poll(data)
      PROVE  QInv' /\ Sees /\ NotMissed
  BY <1>3, NotifiedStep DEF gpu_request_poll
<1>4. CASE Snapshot \/ PollStep
  BY <1>4, SnapshotStep, PollStepStep
<1>5. ASSUME NEW d \in Slots, Complete(d)
      PROVE  QInv' /\ Sees /\ (QueueSize < IdxMod => NotMissed)
  BY <1>5, CompleteStep
<1>6. CASE Irq
  BY <1>6, AcknowledgedStep DEF Irq, block_irq_handler, rng_irq_handler, gpu_irq_handler
<1>7. CASE UNCHANGED vars
  BY <1>7 DEF vars, queue, device, locals, QInv, TypeOK, RingFresh, FreshFrom,
              WrappedUnlessBlock, PastEnd, Sees, NotMissed, EntriesFrom
<1> QED BY <1>1, <1>2, <1>3, <1>4, <1>5, <1>6, <1>7 DEF Next

\* The invariant holds in every reachable state.
THEOREM QueueInvariance == Spec => []QInv
<1>1. QInv /\ [Next]_vars => QInv'
  BY QueueStep
<1> QED BY <1>1, InitQueue, PTL DEF Spec

\* Queue and indices keep their types, for any queue and any width of the index.
THEOREM QueueTypes == Spec => []TypeOK
BY QueueInvariance, PTL DEF QInv

\* The entries the handler has to acknowledge and the loop has to look at are
\* completed requests, each once, none overwritten.
THEOREM EntriesStayFresh == Spec => []RingFresh
BY QueueInvariance, PTL DEF QInv

\* The index of rng.c's and gpu.c's loop never runs past the device's: they do
\* not have the one exception that polling for a block has.
THEOREM OnlyBlockRunsPast == Spec => []WrappedUnlessBlock
BY QueueInvariance, PTL DEF QInv

\* A poll that returns saw its own completion.
THEOREM PollIsSound == Spec => PollSeesCompletion
<1>1. QInv /\ [Next]_vars =>
         [pc = "poll" /\ pc' = "idle" /\ ~PastEnd => brq1_desc_idx \notin outstanding]_vars
  BY QueueStep DEF Sees
<1> QED BY <1>1, QueueInvariance, PTL DEF Spec, PollSeesCompletion

\* A completion in front of the loop stays there until the loop returns, when
\* the indices count further than the queue is long (65536 against 256).
THEOREM PollMissesNothing ==
    ASSUME QueueSize < IdxMod
    PROVE  Spec => CompletionNotMissed
<1>1. QInv /\ [Next]_vars =>
         [pc = "poll" /\ brq1_desc_idx \in outstanding \union EntriesFrom(lookahead_idx)
            => \/ pc' = "idle" \/ PastEnd'
               \/ (brq1_desc_idx \in outstanding \union EntriesFrom(lookahead_idx))']_vars
  BY QueueStep DEF NotMissed
<1> QED BY <1>1, QueueInvariance, PTL DEF Spec, CompletionNotMissed
=============================================================================
