---------------------------- MODULE TreeRecursion -----------------------------
(***************************************************************************)
(* Induction and recursion on numbers, for trees whose nodes are numbered   *)
(* from the root down: a recursion that goes up the tree has a solution,    *)
(* and what holds of a node once it holds of those above it holds of all.   *)
(***************************************************************************)
EXTENDS Naturals, FiniteSetsExt, FiniteSetTheorems, WellFoundedInduction, TLAPS

LEMMA LeastNumber ==
  ASSUME NEW N \in SUBSET Nat, N # {}
  PROVE  \E n \in N : \A m \in N : n <= m
<1>. DEFINE R == OpToRel(<, Nat)
<1>1. IsWellFoundedOn(R, Nat)
  BY NatLessThanWellFounded
<1>2. \A m, n \in Nat : m < n => <<m, n>> \in R
  BY DEF OpToRel
<1>. HIDE DEF R
<1>3. PICK n \in N : \A m \in N : <<m, n>> \notin R
  BY <1>1, WFMin
<1>4. ASSUME NEW m \in N
      PROVE  n <= m
  <2>1. m \in Nat /\ n \in Nat /\ <<m, n>> \notin R
    BY <1>3
  <2>2. ~(m < n)
    BY <1>2, <2>1
  <2>. QED
    BY <2>1, <2>2
<1>. QED
  BY <1>4

(* A set of numbers that holds whatever has only members below it.           *)
LEMMA SmallerFirst ==
  ASSUME NEW S \in SUBSET Nat, NEW N,
         \A b \in S : (\A m \in S : m < b => m \in N) => b \in N
  PROVE  S \subseteq N
<1>1. SUFFICES ASSUME S \ N # {} PROVE FALSE
  OBVIOUS
<1>2. PICK b \in S \ N : \A m \in S \ N : b <= m
  <2>1. S \ N \in SUBSET Nat
    OBVIOUS
  <2>. QED
    BY <1>1, <2>1, LeastNumber
<1>3. \A m \in S : m < b => m \in N
  BY <1>2
<1>. QED
  BY <1>2, <1>3

(* f is defined by recursion from b to next[b]: where it stops it is base,   *)
(* elsewhere step makes of the value at next[b] the one at b.                *)
Solves(f, S, Vals, Stop, base, next, step) ==
  /\ f \in [S -> Vals]
  /\ \A b \in S : f[b] = IF b \in Stop THEN base[b] ELSE step[b][f[next[b]]]

LEMMA ChainRecursion ==
  ASSUME NEW S \in SUBSET Nat, NEW top \in Nat, \A b \in S : b <= top,
         NEW Vals, NEW Stop, NEW base, NEW next, NEW step,
         \A b \in S : b \in Stop => base[b] \in Vals,
         \A b \in S : b \notin Stop => next[b] \in S /\ next[b] < b /\ step[b] \in [Vals -> Vals]
  PROVE  \E f : Solves(f, S, Vals, Stop, base, next, step)
<1>. DEFINE Upto(k) == {b \in S : b <= k}
            Good(f, k) == Solves(f, Upto(k), Vals, Stop, base, next, step)
            Without == {k \in Nat : ~ \E f : Good(f, k)}
<1>1. Upto(top) = S /\ \A b \in S : b \in Nat
  <2>1. \A b \in S : b \in Nat
    OBVIOUS
  <2>2. Upto(top) = S
    OBVIOUS
  <2>. QED
    BY <2>1, <2>2
<1>2. SUFFICES ASSUME Without # {} PROVE FALSE
  <2>1. top \notin Without => \E f : Good(f, top)
    OBVIOUS
  <2>2. (\E f : Good(f, top)) => \E f : Solves(f, S, Vals, Stop, base, next, step)
    BY <1>1
  <2>. HIDE DEF Without
  <2>. QED
    BY <2>1, <2>2
<1>3. PICK k \in Without : \A m \in Without : k <= m
  BY LeastNumber, <1>2
<1>4. k \in Nat /\ ~ \E f : Good(f, k)
  OBVIOUS
<1>5. PICK g : Solves(g, Upto(k) \ {k}, Vals, Stop, base, next, step)
  <2>1. CASE k = 0
    <3>1. \A b \in S : b <= 0 => b = 0
      BY <1>1
    <3>2. Upto(0) \ {0} = {}
      BY <3>1
    <3>3. Solves([b \in {} |-> 0], {}, Vals, Stop, base, next, step)
      BY DEF Solves
    <3>. QED
      BY <2>1, <3>2, <3>3
  <2>2. CASE k # 0
    <3>1. k - 1 \in Nat /\ ~(k <= k - 1)
      BY <1>4, <2>2
    <3>2. k - 1 \notin Without
      BY <1>3, <3>1
    <3>3. PICK f : Good(f, k - 1)
      BY <3>1, <3>2
    <3>4. \A b \in S : b <= k - 1 <=> b <= k /\ b # k
      BY <1>1, <1>4
    <3>5. Upto(k - 1) = Upto(k) \ {k}
      BY <3>4
    <3>. QED
      BY <3>3, <3>5
  <2>. QED
    BY <2>1, <2>2
<1>. DEFINE h == [b \in Upto(k) |-> IF b = k THEN IF k \in Stop THEN base[k] ELSE step[k][g[next[k]]]
                                             ELSE g[b]]
<1>6. ASSUME NEW b \in Upto(k), b \notin Stop
      PROVE  next[b] \in Upto(k) \ {k}
  <2>1. b \in S /\ b <= k /\ b \in Nat /\ next[b] \in S /\ next[b] < b /\ next[b] \in Nat
    BY <1>1, <1>6
  <2>2. next[b] <= k /\ next[b] # k
    BY <1>4, <2>1
  <2>. QED
    BY <2>1, <2>2
<1>7. ASSUME NEW b \in Upto(k)
      PROVE  h[b] \in Vals /\ h[b] = IF b \in Stop THEN base[b] ELSE step[b][h[next[b]]]
  <2>1. b \notin Stop => h[next[b]] = g[next[b]] /\ g[next[b]] \in Vals
    BY <1>5, <1>6 DEF Solves
  <2>2. CASE b = k
    <3>1. h[b] = IF b \in Stop THEN base[b] ELSE step[b][g[next[b]]]
      BY <2>2
    <3>2. b \in S /\ (b \notin Stop => step[b] \in [Vals -> Vals])
      OBVIOUS
    <3>. QED
      BY <2>1, <3>1, <3>2
  <2>3. CASE b # k
    <3>1. h[b] = g[b] /\ b \in Upto(k) \ {k}
      BY <2>3
    <3>2. g[b] \in Vals /\ g[b] = IF b \in Stop THEN base[b] ELSE step[b][g[next[b]]]
      BY <1>5, <3>1 DEF Solves
    <3>. QED
      BY <2>1, <3>1, <3>2
  <2>. QED
    BY <2>2, <2>3
<1>8. Good(h, k)
  <2>1. h \in [Upto(k) -> Vals]
    BY <1>7
  <2>. HIDE DEF h, Upto
  <2>. QED
    BY <1>7, <2>1 DEF Solves
<1>. QED
  BY <1>4, <1>8

LEMMA MinFacts ==
  ASSUME NEW S \in SUBSET Nat, S # {}
  PROVE  Min(S) \in S /\ \A n \in S : Min(S) <= n
BY LeastNumber DEF Min

LEMMA MaxFacts ==
  ASSUME NEW S \in SUBSET Nat, S # {}, NEW top \in Nat, \A n \in S : n <= top
  PROVE  Max(S) \in S /\ \A n \in S : n <= Max(S)
<1>. DEFINE Bounds == {k \in Nat : \A n \in S : n <= k}
<1>1. PICK k \in Bounds : \A m \in Bounds : k <= m
  <2>1. top \in Bounds
    OBVIOUS
  <2>2. Bounds \in SUBSET Nat
    OBVIOUS
  <2>. HIDE DEF Bounds
  <2>. QED
    BY <2>1, <2>2, LeastNumber
<1>2. k \in S
  <2>1. SUFFICES ASSUME k \notin S PROVE FALSE
    OBVIOUS
  <2>2. \A n \in S : n < k
    BY <1>1, <2>1
  <2>3. PICK n : n \in S
    OBVIOUS
  <2>4. k - 1 \in Nat /\ k - 1 < k /\ k \in Nat
    BY <1>1, <2>2, <2>3
  <2>5. k - 1 \in Bounds
    BY <2>2, <2>4
  <2>. QED
    BY <1>1, <2>4, <2>5
<1>3. \A n \in S : n <= k /\ k >= n
  BY <1>1
<1>4. \E x \in S : \A y \in S : x >= y
  BY <1>2, <1>3
<1>5. Max(S) \in S /\ \A y \in S : Max(S) >= y
  BY <1>4 DEF Max
<1>. QED
  BY <1>5
=============================================================================
