------------------------------ MODULE FoldSteps ------------------------------
(* A loop over a sequence, as FoldLeft of the community modules defines it, *)
(* goes through its states one after the other.  The step of the loop is    *)
(* the parameter of this module: it is instantiated once per loop.  What    *)
(* FoldLeft expands to is written out here, since an instance has operators *)
(* of its own of the same names.                                            *)
EXTENDS Integers, Sequences, WellFoundedInduction, TLAPS

CONSTANT Step(_, _)   \* the state after an element

\* Induction over the naturals for a set, instead of an operator: the least
\* number outside of it would have a predecessor in it.
LEMMA Induction ==
  ASSUME NEW T, T \subseteq Nat, 0 \in T, \A n \in T : n + 1 \in T
  PROVE  T = Nat
<1> DEFINE R == {p \in Nat \X Nat : p[1] < p[2]}
           U == Nat \ T
<1>1. IsWellFoundedOn(R, Nat)
  <2>1. IsWellFoundedOn(OpToRel(<, Nat), Nat)
    BY NatLessThanWellFounded, Zenon
  <2>2. OpToRel(<, Nat) = R
    BY Zenon DEF OpToRel
  <2> QED
    BY <2>1, <2>2, Zenon
<1>2. SUFFICES ASSUME U # {}
               PROVE  FALSE
  OBVIOUS
<1>3. PICK x \in U : \A y \in U : ~(<<y, x>> \in R)
  <2>1. U \subseteq Nat
    OBVIOUS
  <2> HIDE DEF U, R
  <2> QED
    BY <1>1, <1>2, <2>1, WFMin
<1>4. x \in Nat /\ x # 0 /\ x - 1 \in Nat
  BY <1>3
<1>5. x - 1 \in U
  BY <1>3, <1>4
<1>6. <<x - 1, x>> \in R
  BY <1>4
<1> QED
  BY <1>3, <1>5, <1>6

Last(t) == CHOOSE x \in t : \A y \in t : x >= y

LEMMA LastIs ==
  ASSUME NEW k \in Nat, NEW t \in SUBSET (1..k), k \in t
  PROVE  Last(t) = k
<1>1. \A y \in t : k >= y
  OBVIOUS
<1>2. \A x \in t : (\A y \in t : x >= y) => x = k
  OBVIOUS
<1> QED
  BY <1>1, <1>2 DEF Last

\* The states after the elements of every set of positions.
IsFold(g, k, base, s) ==
  g = [t \in SUBSET (1..k) |->
        IF t = {} THEN base ELSE Step(g[t \ {Last(t)}], s[Last(t)])]

LEMMA FoldExists ==
  ASSUME NEW base, NEW s, NEW n \in Nat
  PROVE  \E g : IsFold(g, n, base, s)
<1> DEFINE T == {k \in Nat : \E g : IsFold(g, k, base, s)}
<1>1. 0 \in T
  <2> DEFINE g == [t \in SUBSET (1..0) |-> base]
  <2>1. \A t \in SUBSET (1..0) : t = {}
    OBVIOUS
  <2>2. IsFold(g, 0, base, s)
    BY <2>1, Zenon DEF IsFold
  <2> QED
    BY <2>2
<1>2. ASSUME NEW k \in T
      PROVE  k + 1 \in T
  <2>1. PICK g : IsFold(g, k, base, s)
    OBVIOUS
  <2>2. k \in Nat /\ k + 1 \in Nat
    OBVIOUS
  <2> DEFINE h == [t \in SUBSET (1..(k + 1)) |->
                    IF k + 1 \in t THEN Step(g[t \ {k + 1}], s[k + 1]) ELSE g[t]]
  <2>3. ASSUME NEW t \in SUBSET (1..(k + 1))
        PROVE  h[t] = IF t = {} THEN base ELSE Step(h[t \ {Last(t)}], s[Last(t)])
    <3>1. CASE k + 1 \in t
      <4>1. Last(t) = k + 1
        BY <2>2, <3>1, LastIs
      <4>2. t \ {k + 1} \in SUBSET (1..(k + 1))
        OBVIOUS
      <4>3. h[t \ {k + 1}] = g[t \ {k + 1}]
        BY <4>2
      <4>4. h[t] = Step(g[t \ {k + 1}], s[k + 1])
        BY <3>1
      <4> HIDE DEF h
      <4> QED
        BY <3>1, <4>1, <4>3, <4>4
    <3>2. CASE k + 1 \notin t
      <4>1. t \in SUBSET (1..k) /\ t \ {Last(t)} \in SUBSET (1..(k + 1))
        <5>1. \A x \in t : x \in 1..k
          BY <2>2, <3>2
        <5>2. \A x \in 1..k : x \in 1..(k + 1)
          BY <2>2
        <5> QED
          BY <5>1, <5>2
      <4>2. h[t] = g[t] /\ h[t \ {Last(t)}] = g[t \ {Last(t)}]
        BY <3>2, <4>1
      <4>3. g[t] = IF t = {} THEN base ELSE Step(g[t \ {Last(t)}], s[Last(t)])
        BY <2>1, <4>1 DEF IsFold
      <4> HIDE DEF h
      <4> QED
        BY <4>2, <4>3
    <3> QED
      BY <3>1, <3>2
  <2>4. IsFold(h, k + 1, base, s)
    BY <2>3, Zenon DEF IsFold
  <2> QED
    BY <2>2, <2>4
<1>3. T = Nat
  <2> HIDE DEF T
  <2>1. T \subseteq Nat
    BY DEF T
  <2> QED
    BY <1>1, <1>2, <2>1, Induction
<1> QED
  BY <1>3

\* What FoldLeft(Step, base, s) expands to.
Fold(base, s) ==
  (CHOOSE g : g = [t \in SUBSET (DOMAIN s) |->
     IF t = {} THEN base
     ELSE Step(g[t \ {CHOOSE x \in t : \A y \in t : x >= y}],
               s[CHOOSE x \in t : \A y \in t : x >= y])])[DOMAIN s]

\* It is the last state of a loop over s that starts in base.
THEOREM Steps ==
  ASSUME NEW base, NEW s, NEW n \in Nat, DOMAIN s = 1..n
  PROVE  \E f : /\ f[0] = base
                /\ \A k \in 1..n : f[k] = Step(f[k - 1], s[k])
                /\ f[n] = Fold(base, s)
<1> DEFINE fold == CHOOSE g : IsFold(g, n, base, s)
           f == [k \in 0..n |-> fold[1..k]]
<1>1. IsFold(fold, n, base, s)
  BY FoldExists
<1>2. fold[DOMAIN s] = Fold(base, s)
  BY Zenon DEF Fold, IsFold, Last
<1> HIDE DEF fold
<1>3. f[0] = base
  <2>1. 1..0 = {} /\ f[0] = fold[1..0]
    OBVIOUS
  <2>2. fold[{}] = base
    BY <1>1 DEF IsFold
  <2> QED
    BY <2>1, <2>2
<1>4. ASSUME NEW k \in 1..n
      PROVE  f[k] = Step(f[k - 1], s[k])
  <2>1. /\ 1..k \in SUBSET (1..n) /\ 1..k # {} /\ (1..k) \ {k} = 1..(k - 1)
        /\ f[k] = fold[1..k] /\ f[k - 1] = fold[1..(k - 1)]
    OBVIOUS
  <2>2. Last(1..k) = k
    BY LastIs
  <2>3. fold[1..k] = Step(fold[(1..k) \ {k}], s[k])
    BY <1>1, <2>1, <2>2 DEF IsFold
  <2> QED
    BY <2>1, <2>3
<1>5. f[n] = fold[DOMAIN s]
  OBVIOUS
<1> HIDE DEF f
<1> QED
  BY <1>2, <1>3, <1>4, <1>5

\* One element more is one step more.
THEOREM OneMore ==
  ASSUME NEW base, NEW s, NEW t, NEW n \in Nat, DOMAIN s = 1..(n + 1), DOMAIN t = 1..n,
         \A j \in 1..n : s[j] = t[j]
  PROVE  Fold(base, s) = Step(Fold(base, t), s[n + 1])
<1>1. n + 1 \in Nat /\ n + 1 \in 1..(n + 1) /\ (n + 1) - 1 = n
  OBVIOUS
<1>2. PICK f : /\ f[0] = base
               /\ \A k \in 1..(n + 1) : f[k] = Step(f[k - 1], s[k])
               /\ f[n + 1] = Fold(base, s)
  BY <1>1, Steps
<1>3. PICK g : /\ g[0] = base
               /\ \A k \in 1..n : g[k] = Step(g[k - 1], t[k])
               /\ g[n] = Fold(base, t)
  BY Steps
<1> DEFINE T == {k \in Nat : k <= n => f[k] = g[k]}
<1>4. 0 \in T
  BY <1>2, <1>3
<1>5. ASSUME NEW k \in T
      PROVE  k + 1 \in T
  <2>1. k \in Nat /\ k + 1 \in Nat /\ (k + 1) - 1 = k
    OBVIOUS
  <2>2. CASE k + 1 <= n
    <3>1. k + 1 \in 1..n /\ k + 1 \in 1..(n + 1) /\ k <= n
      BY <2>1, <2>2
    <3>2. f[k] = g[k] /\ s[k + 1] = t[k + 1]
      BY <3>1
    <3>3. f[k + 1] = Step(f[k], s[k + 1]) /\ g[k + 1] = Step(g[k], t[k + 1])
      BY <1>2, <1>3, <2>1, <3>1
    <3> QED
      BY <2>1, <3>2, <3>3
  <2> QED
    BY <2>1, <2>2
<1>6. T = Nat
  <2>1. T \subseteq Nat
    OBVIOUS
  <2> HIDE DEF T
  <2> QED
    BY <1>4, <1>5, <2>1, Induction
<1>7. f[n] = g[n]
  BY <1>6
<1> QED
  BY <1>1, <1>2, <1>3, <1>7

THEOREM NoElement ==
  ASSUME NEW base, NEW s, DOMAIN s = 1..0
  PROVE  Fold(base, s) = base
<1>1. PICK f : f[0] = base /\ f[0] = Fold(base, s)
  BY Steps
<1> QED
  BY <1>1

\* A loop that ends early ends in one of its states.
THEOREM Prefixes ==
  ASSUME NEW base, NEW C, NEW s \in Seq(C)
  PROVE  \E f : /\ f[0] = base
                /\ \A k \in 1..Len(s) : f[k] = Step(f[k - 1], s[k])
                /\ \A k \in 0..Len(s) : f[k] = Fold(base, SubSeq(s, 1, k))
<1> DEFINE n == Len(s)
<1>1. n \in Nat /\ DOMAIN s = 1..n /\ \A k \in 1..n : s[k] \in C
  OBVIOUS
<1> HIDE DEF n
<1>2. PICK f : /\ f[0] = base
               /\ \A k \in 1..n : f[k] = Step(f[k - 1], s[k])
               /\ f[n] = Fold(base, s)
  BY <1>1, Steps
<1>3. ASSUME NEW k \in 0..n
      PROVE  f[k] = Fold(base, SubSeq(s, 1, k))
  <2> DEFINE t == SubSeq(s, 1, k)
  <2>1. k \in Nat /\ k <= n
    BY <1>1
  <2>2. DOMAIN t = 1..k /\ \A j \in 1..k : t[j] = s[j]
    BY <1>1, <2>1
  <2> HIDE DEF t
  <2>3. PICK g : /\ g[0] = base
                 /\ \A j \in 1..k : g[j] = Step(g[j - 1], t[j])
                 /\ g[k] = Fold(base, t)
    BY <2>1, <2>2, Steps
  <2> DEFINE T == {j \in Nat : j <= k => g[j] = f[j]}
  <2>4. 0 \in T
    BY <1>2, <2>3
  <2>5. ASSUME NEW j \in T
        PROVE  j + 1 \in T
    <3>1. j \in Nat /\ j + 1 \in Nat /\ (j + 1) - 1 = j
      OBVIOUS
    <3>2. CASE j + 1 <= k
      <4>1. j + 1 \in 1..k /\ j + 1 \in 1..n /\ j <= k
        BY <1>1, <2>1, <3>1, <3>2
      <4>2. g[j] = f[j]
        BY <4>1
      <4>3. g[j + 1] = Step(g[j], t[j + 1]) /\ f[j + 1] = Step(f[j], s[j + 1])
        BY <1>2, <2>3, <3>1, <4>1
      <4> QED
        BY <2>2, <3>1, <4>1, <4>2, <4>3
    <3> QED
      BY <3>1, <3>2
  <2>6. T = Nat
    <3>1. T \subseteq Nat
      OBVIOUS
    <3> HIDE DEF T
    <3> QED
      BY <2>4, <2>5, <3>1, Induction
  <2>7. g[k] = f[k]
    BY <2>1, <2>6
  <2> QED
    BY <2>3, <2>7 DEF t
<1> QED
  BY <1>2, <1>3 DEF n

\* What every step keeps, the loop keeps.
THEOREM Stays ==
  ASSUME NEW G, NEW C, NEW base \in G, NEW s \in Seq(C),
         \A x \in G, c \in C : Step(x, c) \in G
  PROVE  Fold(base, s) \in G
<1> DEFINE n == Len(s)
<1>1. n \in Nat /\ DOMAIN s = 1..n /\ \A k \in 1..n : s[k] \in C
  OBVIOUS
<1> HIDE DEF n
<1>2. PICK f : /\ f[0] = base
               /\ \A k \in 1..n : f[k] = Step(f[k - 1], s[k])
               /\ f[n] = Fold(base, s)
  BY <1>1, Steps
<1> DEFINE T == {k \in Nat : k <= n => f[k] \in G}
<1>3. 0 \in T
  BY <1>2
<1>4. ASSUME NEW k \in T
      PROVE  k + 1 \in T
  <2>1. k \in Nat /\ k + 1 \in Nat /\ (k + 1) - 1 = k
    OBVIOUS
  <2>2. CASE k + 1 <= n
    <3>1. k + 1 \in 1..n /\ k <= n
      BY <1>1, <2>1, <2>2
    <3>2. f[k] \in G /\ s[k + 1] \in C
      BY <1>1, <3>1
    <3>3. f[k + 1] = Step(f[k], s[k + 1])
      BY <1>2, <2>1, <3>1
    <3>4. Step(f[k], s[k + 1]) \in G
      BY <3>2
    <3> QED
      BY <2>1, <3>3, <3>4
  <2> QED
    BY <2>1, <2>2
<1>5. T = Nat
  <2>1. T \subseteq Nat
    OBVIOUS
  <2> HIDE DEF T
  <2> QED
    BY <1>3, <1>4, <2>1, Induction
<1> QED
  BY <1>1, <1>2, <1>5
=============================================================================
