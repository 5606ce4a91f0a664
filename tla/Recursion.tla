----------------------------- MODULE Recursion -----------------------------
(***************************************************************************)
(* Induction and recursion over a range 0..n, in the first-order form the  *)
(* other proof modules need: the loops of the program over a slice are     *)
(* functions on 0..Len(slice), each value made from the one before.        *)
(***************************************************************************)
EXTENDS Integers, FiniteSetsExt, TLAPS, WellFoundedInduction

\* A non-empty set of natural numbers has a least member.
LEMMA LeastNumber ==
    ASSUME NEW T, T \subseteq Nat, T # {}
    PROVE  \E k \in T : \A j \in T : k <= j
<1>1. PICK k \in T : \A j \in T : ~(<<j, k>> \in OpToRel(<, Nat))
    BY ONLY T \subseteq Nat, T # {}, WFMin, NatLessThanWellFounded
<1>2. \A j \in T : ~(j < k)
    BY <1>1 DEF OpToRel
<1> QED
    BY <1>2

\* A non-empty set of positions has a greatest one.
LEMMA GreatestPosition ==
    ASSUME NEW n \in Nat, NEW S, S \subseteq 1..n, S # {}
    PROVE  \E k \in S : \A j \in S : j <= k
<1> DEFINE T == {n - k : k \in S}
<1>1. T \subseteq Nat /\ T # {}
    <2>1. \A k \in S : n - k \in Nat
        OBVIOUS
    <2> QED
        BY <2>1
<1>2. PICK t \in T : \A j \in T : t <= j
    BY ONLY <1>1, LeastNumber
<1>3. PICK k \in S : t = n - k
    OBVIOUS
<1>4. ASSUME NEW j \in S PROVE j <= k
    <2>1. t <= n - j
        BY <1>2
    <2> QED
        BY <1>3, <2>1
<1> QED
    BY <1>4

\* Min and Max of a non-empty set of positions are the least and the greatest.
LEMMA MinOfPositions ==
    ASSUME NEW n \in Nat, NEW S, S \subseteq 1..n, S # {}
    PROVE  Min(S) \in S /\ \A k \in S : Min(S) <= k
<1>1. S \subseteq Nat
    OBVIOUS
<1>2. \E k \in S : \A j \in S : k <= j
    BY <1>1, LeastNumber
<1> QED
    BY <1>2 DEF Min

LEMMA MaxOfPositions ==
    ASSUME NEW n \in Nat, NEW S, S \subseteq 1..n, S # {}
    PROVE  Max(S) \in S
<1>1. \E k \in S : \A j \in S : j <= k
    BY GreatestPosition
<1>2. \E k \in S : \A j \in S : k >= j
    BY <1>1
<1> QED
    BY <1>2 DEF Max

\* A set with 0 and, with each number below n, the next one, holds all of 0..n.
LEMMA RangeInduction ==
    ASSUME NEW n \in Nat, NEW S,
           0 \in S, \A k \in 0..(n - 1) : k \in S => k + 1 \in S
    PROVE  0..n \subseteq S
<1> DEFINE T == {k \in 0..n : k \notin S}
<1>1. SUFFICES ASSUME T # {} PROVE FALSE
    OBVIOUS
<1>2. T \subseteq Nat
    OBVIOUS
<1>3. PICK k \in T : \A j \in T : k <= j
    BY ONLY <1>1, <1>2, LeastNumber
<1>4. k \in 1..n /\ k \notin S
    OBVIOUS
<1>5. k - 1 \notin T
    BY <1>3, <1>4
<1>6. k - 1 \in 0..(n - 1) /\ k - 1 \in S
    BY <1>4, <1>5
<1>7. (k - 1) + 1 \in S
    BY <1>6
<1> QED
    BY <1>4, <1>7

\* f[k] is the result of the first k steps from first.
Follows(f, n, first, step) ==
    f[0] = first /\ \A k \in 1..n : f[k] = step[k][f[k - 1]]

\* A function on 0..n with a given first value and a given step exists.
LEMMA RangeRecursion ==
    ASSUME NEW n \in Nat, NEW V, NEW first \in V, NEW step \in [1..n -> [V -> V]]
    PROVE  \E f \in [0..n -> V] : Follows(f, n, first, step)
<1> DEFINE Good(m, f) == Follows(f, m, first, step)
           S == {m \in 0..n : \E f \in [0..m -> V] : Good(m, f)}
<1>1. 0 \in S
    <2>1. [k \in 0..0 |-> first] \in [0..0 -> V] /\ Good(0, [k \in 0..0 |-> first])
        BY DEF Follows
    <2> HIDE DEF Good
    <2> QED
        BY <2>1
<1>2. ASSUME NEW m \in 0..(n - 1), m \in S PROVE m + 1 \in S
    <2>1. PICK f \in [0..m -> V] : Good(m, f)
        BY <1>2
    <2> DEFINE g == [k \in 0..(m + 1) |-> IF k = m + 1 THEN step[m + 1][f[m]] ELSE f[k]]
    <2>2. g \in [0..(m + 1) -> V]
        OBVIOUS
    <2>3. Good(m + 1, g)
        <3>1. g[0] = first
            BY <2>1 DEF Follows
        <3>2. ASSUME NEW k \in 1..(m + 1) PROVE g[k] = step[k][g[k - 1]]
            <4>1. CASE k = m + 1
                BY <4>1
            <4>2. CASE k \in 1..m
                BY <2>1, <4>2 DEF Follows
            <4> QED
                BY <4>1, <4>2
        <3> QED
            BY <3>1, <3>2 DEF Follows
    <2> HIDE DEF Good, g
    <2> QED
        BY <2>2, <2>3
<1>3. 0..n \subseteq S
    BY <1>1, <1>2, RangeInduction
<1> QED
    BY <1>3
=============================================================================
