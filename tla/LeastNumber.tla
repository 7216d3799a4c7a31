---------------------------- MODULE LeastNumber ----------------------------
(***************************************************************************)
(* The well-ordering of the natural numbers, which the searches of the     *)
(* kernel (the place in a list, the first run of free pages) rest on, and  *)
(* what follows from it for its loops: induction, and that a loop of n     *)
(* rounds has a value after each of them.                                  *)
(***************************************************************************)
EXTENDS Naturals, WellFoundedInduction, TLAPS

\* A nonempty set of natural numbers has a least element.
LEMMA LeastNatural ==
    ASSUME NEW T, T \subseteq Nat, T # {}
    PROVE  \E x \in T : \A y \in T : x <= y
<1> DEFINE R == OpToRel(<, Nat)
<1>1. IsWellFoundedOn(R, Nat)
  BY NatLessThanWellFounded
<1>2. PICK x \in T : \A y \in T : ~(<<y, x>> \in R)
  BY <1>1, WFMin
<1>3. \A a, b \in Nat : a < b => <<a, b>> \in R
  BY DEF OpToRel
<1> HIDE DEF R
<1>4. ASSUME NEW y \in T PROVE x <= y
  <2>1. x \in Nat /\ y \in Nat /\ <<y, x>> \notin R
    BY <1>2
  <2>2. ~(y < x)
    BY <2>1, <1>3
  <2> QED BY <2>1, <2>2
<1> QED BY <1>2, <1>4

\* Induction up to n, for a property given as the set of numbers that have it.
LEMMA InductionUpTo ==
    ASSUME NEW n \in Nat, NEW S, 0 \in S, \A i \in 0 .. n - 1 : i \in S => i + 1 \in S
    PROVE  \A i \in 0 .. n : i \in S
<1> DEFINE T == {i \in 0 .. n : i \notin S}
<1>1. SUFFICES ASSUME T # {} PROVE FALSE
  OBVIOUS
<1>2. PICK x \in T : \A y \in T : x <= y
  <2>1. T \subseteq Nat
    OBVIOUS
  <2> QED BY <1>1, <2>1, LeastNatural
<1>3. x \in 1 .. n /\ x - 1 \notin T
  BY <1>2
<1> QED BY <1>2, <1>3

\* The values of a loop of n rounds that starts with b and takes F[i, x] for x
\* in round i; there are such values.
Rounds(n, S, b, F) ==
    {c \in [0 .. n -> S] : c[0] = b /\ \A i \in 1 .. n : c[i] = F[<<i, c[i - 1]>>]}
LEMMA LoopHasValues ==
    ASSUME NEW n \in Nat, NEW S, NEW b \in S, NEW F \in [(1 .. n) \X S -> S]
    PROVE  \E c : c \in Rounds(n, S, b, F)
<1> DEFINE Has(k) == \E c \in [0 .. k -> S] :
                       c[0] = b /\ \A i \in 1 .. k : c[i] = F[<<i, c[i - 1]>>]
           H == {k \in 0 .. n : Has(k)}
<1>1. 0 \in H
  <2> DEFINE c == [i \in 0 .. 0 |-> b]
  <2>1. c \in [0 .. 0 -> S] /\ c[0] = b /\ 1 .. 0 = {}
    OBVIOUS
  <2>2. Has(0)
    BY <2>1
  <2> QED BY <2>2
<1>2. ASSUME NEW k \in 0 .. n - 1, k \in H PROVE k + 1 \in H
  <2>1. PICK c \in [0 .. k -> S] :
           c[0] = b /\ \A i \in 1 .. k : c[i] = F[<<i, c[i - 1]>>]
    BY <1>2
  <2> DEFINE d == [i \in 0 .. k + 1 |-> IF i = k + 1 THEN F[<<k + 1, c[k]>>] ELSE c[i]]
  <2>2. F[<<k + 1, c[k]>>] \in S
    BY <2>1
  <2>3. d \in [0 .. k + 1 -> S]
    BY <2>1, <2>2
  <2>4. d[0] = b
    BY <2>1
  <2>5. ASSUME NEW i \in 1 .. k + 1 PROVE d[i] = F[<<i, d[i - 1]>>]
    <3>1. d[i - 1] = c[i - 1]
      OBVIOUS
    <3>2. CASE i = k + 1
      <4>1. d[k + 1] = F[<<k + 1, c[k]>>] /\ i - 1 = k
        BY <3>2
      <4> HIDE DEF d
      <4> QED BY <3>1, <3>2, <4>1
    <3>3. CASE i # k + 1
      BY <2>1, <3>1, <3>3
    <3> QED BY <3>2, <3>3
  <2> HIDE DEF d
  <2>6. Has(k + 1)
    BY <2>3, <2>4, <2>5
  <2> QED BY <2>6
<1> HIDE DEF H
<1>3. n \in H
  BY <1>1, <1>2, InductionUpTo
<1> QED BY <1>3 DEF H, Rounds
=============================================================================
