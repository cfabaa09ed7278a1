----------------------------- MODULE LayoutProofs -----------------------------
(* Proofs about Layout: the windows of every layout fit, whatever the       *)
(* terminal, the devices and what they draw.                                *)
EXTENDS Layout, FiniteSetTheorems, SequenceTheorems, TLAPS

\* The loops: sums, an attempt to place the plots, the search for a placing,
\* the balancing of the stacks.
SumLoop == INSTANCE FoldSteps WITH Step <- Add
PlaceLoop == INSTANCE FoldSteps WITH Step <- Place
SearchLoop == INSTANCE FoldSteps WITH Step <- Search
MoveLoop == INSTANCE FoldSteps WITH Step <- Move

-----------------------------------------------------------------------------
(* Sums.                                                                    *)

\* Induction up to n.
LEMMA Along ==
  ASSUME NEW n \in Nat, NEW T, 0 \in T, \A k \in 0..(n - 1) : k \in T => k + 1 \in T
  PROVE  n \in T
<1> DEFINE U == {k \in Nat : k <= n => k \in T}
<1>1. 0 \in U
  OBVIOUS
<1>2. \A k \in U : k + 1 \in U
  <2> SUFFICES ASSUME NEW k \in U
               PROVE  k + 1 \in U
    OBVIOUS
  <2>1. CASE k + 1 <= n
    <3>1. k \in 0..(n - 1) /\ k <= n
      BY <2>1
    <3> QED
      BY <3>1
  <2>2. CASE ~(k + 1 <= n)
    BY <2>2
  <2> QED
    BY <2>1, <2>2
<1>3. U = Nat
  <2>1. U \subseteq Nat
    OBVIOUS
  <2> HIDE DEF U
  <2> QED
    BY <1>1, <1>2, <2>1, SumLoop!Induction
<1> QED
  BY <1>3

\* The first k terms together.
Upto(s, k) == Total([i \in 1..k |-> s[i]])

LEMMA UptoIs ==
  ASSUME NEW n \in Nat, NEW s \in [1..n -> Nat]
  PROVE  /\ Upto(s, 0) = 0 /\ Upto(s, n) = Total(s)
         /\ \A k \in 1..n : Upto(s, k) = Upto(s, k - 1) + s[k]
<1>1. ASSUME NEW t
      PROVE  Total(t) = SumLoop!Fold(0, t)
  BY Zenon DEF Total, FoldLeft, MapThenFoldSet, Max, SumLoop!Fold
<1>2. Upto(s, 0) = 0
  <2> DEFINE t == [i \in 1..0 |-> s[i]]
  <2>1. DOMAIN t = 1..0
    OBVIOUS
  <2> HIDE DEF t
  <2>2. SumLoop!Fold(0, t) = 0
    BY <2>1, SumLoop!NoElement
  <2> QED
    BY <1>1, <2>2, Zenon DEF t, Upto
<1>3. Upto(s, n) = Total(s)
  <2>1. s = [i \in 1..n |-> s[i]]
    OBVIOUS
  <2> QED
    BY <2>1 DEF Upto
<1>4. ASSUME NEW k \in 1..n
      PROVE  Upto(s, k) = Upto(s, k - 1) + s[k]
  <2> DEFINE t == [i \in 1..k |-> s[i]]
             u == [i \in 1..(k - 1) |-> s[i]]
             m == k - 1
  <2>1. m \in Nat /\ m + 1 = k
    OBVIOUS
  <2>2. DOMAIN t = 1..(m + 1) /\ DOMAIN u = 1..m /\ (\A j \in 1..m : t[j] = u[j]) /\ t[m + 1] = s[k]
    OBVIOUS
  <2> HIDE DEF t, u, m
  <2>3. SumLoop!Fold(0, t) = Add(SumLoop!Fold(0, u), t[m + 1])
    BY <2>1, <2>2, SumLoop!OneMore
  <2>4. Upto(s, k) = SumLoop!Fold(0, t) /\ Upto(s, k - 1) = SumLoop!Fold(0, u)
    BY <1>1, Zenon DEF t, u, m, Upto
  <2> QED
    BY <2>2, <2>3, <2>4 DEF Add
<1> QED
  BY <1>2, <1>3, <1>4

LEMMA UptoNat ==
  ASSUME NEW n \in Nat, NEW s \in [1..n -> Nat], NEW k \in 0..n
  PROVE  Upto(s, k) \in Nat
<1> DEFINE T == {j \in Nat : j <= k => Upto(s, j) \in Nat}
<1>1. 0 \in T
  BY UptoIs
<1>2. \A j \in 0..(k - 1) : j \in T => j + 1 \in T
  <2> SUFFICES ASSUME NEW j \in 0..(k - 1), j \in T
               PROVE  j + 1 \in T
    OBVIOUS
  <2>1. j + 1 \in 1..n /\ (j + 1) - 1 = j /\ j <= k
    OBVIOUS
  <2>2. Upto(s, j + 1) = Upto(s, j) + s[j + 1]
    BY <2>1, UptoIs
  <2> QED
    BY <2>1, <2>2
<1>3. k \in T
  <2> HIDE DEF T
  <2> QED
    BY <1>1, <1>2, Along
<1> QED
  BY <1>3

LEMMA TotalNat ==
  ASSUME NEW n \in Nat, NEW s \in [1..n -> Nat]
  PROVE  Total(s) \in Nat
<1>1. n \in 0..n
  OBVIOUS
<1> QED
  BY <1>1, UptoIs, UptoNat

\* The first terms are no more than all.
LEMMA UptoGrows ==
  ASSUME NEW n \in Nat, NEW s \in [1..n -> Nat], NEW j \in 0..n, NEW k \in j..n
  PROVE  Upto(s, j) <= Upto(s, k)
<1> DEFINE T == {i \in Nat : j + i <= n => Upto(s, j) <= Upto(s, j + i)}
<1>1. 0 \in T
  BY UptoNat
<1>2. \A i \in 0..((k - j) - 1) : i \in T => i + 1 \in T
  <2> SUFFICES ASSUME NEW i \in 0..((k - j) - 1), i \in T
               PROVE  i + 1 \in T
    OBVIOUS
  <2>1. /\ j + (i + 1) \in 1..n /\ (j + (i + 1)) - 1 = j + i /\ j + i <= n /\ j + i \in 0..n
        /\ i + 1 \in Nat
    OBVIOUS
  <2>2. Upto(s, j + (i + 1)) = Upto(s, j + i) + s[j + (i + 1)]
    BY <2>1, UptoIs
  <2>3. Upto(s, j) \in Nat /\ Upto(s, j + i) \in Nat /\ s[j + (i + 1)] \in Nat
    BY <2>1, UptoNat
  <2> QED
    BY <2>1, <2>2, <2>3
<1>3. k - j \in T
  <2>1. k - j \in Nat
    OBVIOUS
  <2> HIDE DEF T
  <2> QED
    BY <1>1, <1>2, <2>1, Along
<1> QED
  BY <1>3

\* A term is no more than all.
LEMMA TermOf ==
  ASSUME NEW n \in Nat, NEW s \in [1..n -> Nat], NEW p \in 1..n
  PROVE  s[p] <= Total(s)
<1>1. p \in 0..n /\ p - 1 \in 0..n /\ n \in p..n
  OBVIOUS
<1>2. Upto(s, p) = Upto(s, p - 1) + s[p] /\ Upto(s, n) = Total(s)
  BY UptoIs
<1>3. Upto(s, p) <= Upto(s, n)
  BY <1>1, UptoGrows
<1>4. Upto(s, p - 1) \in Nat /\ Upto(s, n) \in Nat
  BY <1>1, UptoNat
<1> QED
  BY <1>2, <1>3, <1>4

\* Terms that are no more are no more together.
LEMMA TotalEach ==
  ASSUME NEW n \in Nat, NEW s \in [1..n -> Nat], NEW t \in [1..n -> Nat],
         \A i \in 1..n : s[i] <= t[i]
  PROVE  Total(s) <= Total(t)
<1> DEFINE T == {k \in Nat : k <= n => Upto(s, k) <= Upto(t, k)}
<1>1. 0 \in T
  BY UptoIs
<1>2. \A k \in 0..(n - 1) : k \in T => k + 1 \in T
  <2> SUFFICES ASSUME NEW k \in 0..(n - 1), k \in T
               PROVE  k + 1 \in T
    OBVIOUS
  <2>1. k + 1 \in 1..n /\ (k + 1) - 1 = k /\ k <= n /\ k \in 0..n /\ k + 1 \in 0..n /\ k + 1 \in Nat
    OBVIOUS
  <2>2. /\ Upto(s, k + 1) = Upto(s, k) + s[k + 1]
        /\ Upto(t, k + 1) = Upto(t, k) + t[k + 1]
    BY <2>1, UptoIs
  <2>3. Upto(s, k) \in Nat /\ Upto(t, k) \in Nat
    BY <2>1, UptoNat
  <2>4. s[k + 1] \in Nat /\ t[k + 1] \in Nat /\ s[k + 1] <= t[k + 1]
    BY <2>1
  <2> QED
    BY <2>1, <2>2, <2>3, <2>4
<1>3. n \in T
  <2> HIDE DEF T
  <2> QED
    BY <1>1, <1>2, Along
<1> QED
  BY <1>3, UptoIs

\* One term changes.
LEMMA TotalChanged ==
  ASSUME NEW n \in Nat, NEW s \in [1..n -> Nat], NEW t \in [1..n -> Nat],
         NEW p \in 1..n, \A i \in (1..n) \ {p} : t[i] = s[i]
  PROVE  Total(t) + s[p] = Total(s) + t[p]
<1> DEFINE T == {k \in Nat : k <= n => Upto(t, k) + (IF k < p THEN 0 ELSE s[p])
                                         = Upto(s, k) + (IF k < p THEN 0 ELSE t[p])}
<1>1. 0 \in T
  BY UptoIs
<1>2. \A k \in 0..(n - 1) : k \in T => k + 1 \in T
  <2> SUFFICES ASSUME NEW k \in 0..(n - 1), k \in T
               PROVE  k + 1 \in T
    OBVIOUS
  <2>1. k + 1 \in 1..n /\ (k + 1) - 1 = k /\ k <= n /\ k \in 0..n /\ k + 1 \in 0..n /\ k + 1 \in Nat
    OBVIOUS
  <2>2. /\ Upto(s, k + 1) = Upto(s, k) + s[k + 1]
        /\ Upto(t, k + 1) = Upto(t, k) + t[k + 1]
    BY <2>1, UptoIs
  <2>3. Upto(s, k) \in Nat /\ Upto(t, k) \in Nat
    BY <2>1, UptoNat
  <2>4. s[k + 1] \in Nat /\ t[k + 1] \in Nat /\ s[p] \in Nat /\ t[p] \in Nat
    BY <2>1
  <2>5. CASE k + 1 = p
    <3>1. k < p /\ ~(k + 1 < p)
      BY <2>1, <2>5
    <3>2. Upto(t, k) = Upto(s, k)
      BY <2>1, <2>3, <3>1
    <3>3. Upto(t, k + 1) + s[k + 1] = Upto(s, k + 1) + t[k + 1]
      BY <2>2, <2>3, <2>4, <3>2
    <3>4. Upto(t, k + 1) + s[p] = Upto(s, k + 1) + t[p]
      BY <2>5, <3>3, Zenon
    <3> QED
      BY <2>1, <3>1, <3>4
  <2>6. CASE k + 1 # p
    <3>1. s[k + 1] = t[k + 1]
      BY <2>1, <2>6
    <3>2. k < p <=> k + 1 < p
      BY <2>1, <2>6
    <3> DEFINE more == IF k < p THEN 0 ELSE s[p]
               gone == IF k < p THEN 0 ELSE t[p]
    <3>3. more \in Nat /\ gone \in Nat
      BY <2>4
    <3>4. Upto(t, k) + more = Upto(s, k) + gone
      BY <2>1
    <3> HIDE DEF more, gone
    <3>5. Upto(t, k + 1) + more = Upto(s, k + 1) + gone
      <4>1. Upto(s, k + 1) = Upto(s, k) + s[k + 1] /\ Upto(t, k + 1) = Upto(t, k) + s[k + 1]
        BY <2>2, <3>1, Zenon
      <4>2. s[k + 1] \in Nat
        BY <2>4
      <4> DEFINE ut == Upto(t, k)
                 us == Upto(s, k)
                 x  == s[k + 1]
      <4>3. ut \in Nat /\ us \in Nat /\ x \in Nat /\ ut + more = us + gone
        BY <2>3, <3>4, <4>2
      <4>4. Upto(s, k + 1) = us + x /\ Upto(t, k + 1) = ut + x
        BY <4>1
      <4> HIDE DEF T, ut, us, x
      <4>5. (ut + x) + more = (us + x) + gone
        BY <3>3, <4>3
      <4> QED
        BY <4>4, <4>5, Zenon
    <3>6. Upto(t, k + 1) + (IF k + 1 < p THEN 0 ELSE s[p])
            = Upto(s, k + 1) + (IF k + 1 < p THEN 0 ELSE t[p])
      BY <3>2, <3>5, Zenon DEF more, gone
    <3> QED
      BY <2>1, <3>6
  <2> QED
    BY <2>5, <2>6
<1>3. n \in T
  <2> HIDE DEF T
  <2> QED
    BY <1>1, <1>2, Along
<1>4. ~(n < p)
  OBVIOUS
<1>5. Upto(t, n) + s[p] = Upto(s, n) + t[p]
  BY <1>3, <1>4
<1> QED
  BY <1>5, UptoIs

\* Sums of multiples.
Combined(n, u, a, s, b, t) ==
  u \in [1..n -> Nat] /\ Total(u) = a * Total(s) + b * Total(t)

LEMMA TotalCombined ==
  ASSUME NEW n \in Nat, NEW s \in [1..n -> Nat], NEW t \in [1..n -> Nat], NEW u \in [1..n -> Nat],
         NEW a \in Nat, NEW b \in Nat, \A i \in 1..n : u[i] = a * s[i] + b * t[i]
  PROVE  Combined(n, u, a, s, b, t)
<1> DEFINE T == {k \in Nat : k <= n => Upto(u, k) = a * Upto(s, k) + b * Upto(t, k)}
<1>1. 0 \in T
  <2>1. Upto(s, 0) = 0 /\ Upto(t, 0) = 0 /\ Upto(u, 0) = 0
    BY UptoIs
  <2>2. a * 0 + b * 0 = 0
    OBVIOUS
  <2> QED
    BY <2>1, <2>2
<1>2. \A k \in 0..(n - 1) : k \in T => k + 1 \in T
  <2> SUFFICES ASSUME NEW k \in 0..(n - 1), k \in T
               PROVE  k + 1 \in T
    OBVIOUS
  <2>1. k + 1 \in 1..n /\ (k + 1) - 1 = k /\ k <= n /\ k \in 0..n /\ k + 1 \in 0..n /\ k + 1 \in Nat
    OBVIOUS
  <2>2. /\ Upto(s, k + 1) = Upto(s, k) + s[k + 1]
        /\ Upto(t, k + 1) = Upto(t, k) + t[k + 1]
        /\ Upto(u, k + 1) = Upto(u, k) + u[k + 1]
    <3>1. \A v \in [1..n -> Nat] : Upto(v, k + 1) = Upto(v, k) + v[k + 1]
      BY <2>1, UptoIs
    <3> QED
      BY <3>1
  <2>3. Upto(s, k) \in Nat /\ Upto(t, k) \in Nat /\ Upto(u, k) \in Nat
    BY <2>1, UptoNat
  <2>4. s[k + 1] \in Nat /\ t[k + 1] \in Nat /\ u[k + 1] = a * s[k + 1] + b * t[k + 1]
    BY <2>1
  <2>5. Upto(u, k) = a * Upto(s, k) + b * Upto(t, k)
    BY <2>1
  <2>6. ASSUME NEW x \in Nat, NEW y \in Nat, NEW v \in Nat, NEW w \in Nat
        PROVE  (a * x + b * v) + (a * y + b * w) = a * (x + y) + b * (v + w)
    OBVIOUS
  <2>7. Upto(u, k + 1) = a * Upto(s, k + 1) + b * Upto(t, k + 1)
    <3>1. Upto(u, k + 1) = (a * Upto(s, k) + b * Upto(t, k)) + (a * s[k + 1] + b * t[k + 1])
      BY <2>2, <2>4, <2>5, Zenon
    <3>2. (a * Upto(s, k) + b * Upto(t, k)) + (a * s[k + 1] + b * t[k + 1])
            = a * (Upto(s, k) + s[k + 1]) + b * (Upto(t, k) + t[k + 1])
      BY <2>3, <2>4, <2>6
    <3> QED
      BY <2>2, <3>1, <3>2, Zenon
  <2> QED
    BY <2>1, <2>7
<1>3. n \in T
  <2> HIDE DEF T
  <2> QED
    BY <1>1, <1>2, Along
<1>4. Upto(u, n) = a * Upto(s, n) + b * Upto(t, n)
  BY <1>3
<1> QED
  BY <1>4, UptoIs DEF Combined

\* Shares of F columns are no more than F together.
LEMMA TotalShares ==
  ASSUME NEW n \in Nat, NEW s \in [1..n -> Nat], NEW t \in [1..n -> Nat],
         NEW F \in Nat, NEW l \in Nat, \A i \in 1..n : l * t[i] <= F * s[i]
  PROVE  l * Total(t) <= F * Total(s)
<1> DEFINE T == {k \in Nat : k <= n => l * Upto(t, k) <= F * Upto(s, k)}
<1>1. 0 \in T
  <2>1. Upto(s, 0) = 0 /\ Upto(t, 0) = 0
    BY UptoIs
  <2>2. l * 0 <= F * 0
    OBVIOUS
  <2> QED
    BY <2>1, <2>2
<1>2. \A k \in 0..(n - 1) : k \in T => k + 1 \in T
  <2> SUFFICES ASSUME NEW k \in 0..(n - 1), k \in T
               PROVE  k + 1 \in T
    OBVIOUS
  <2>1. k + 1 \in 1..n /\ (k + 1) - 1 = k /\ k <= n /\ k \in 0..n /\ k + 1 \in 0..n /\ k + 1 \in Nat
    OBVIOUS
  <2>2. /\ Upto(s, k + 1) = Upto(s, k) + s[k + 1]
        /\ Upto(t, k + 1) = Upto(t, k) + t[k + 1]
    BY <2>1, UptoIs
  <2>3. Upto(s, k) \in Nat /\ Upto(t, k) \in Nat
    BY <2>1, UptoNat
  <2>4. s[k + 1] \in Nat /\ t[k + 1] \in Nat /\ l * t[k + 1] <= F * s[k + 1]
    BY <2>1
  <2>5. l * Upto(t, k) <= F * Upto(s, k)
    BY <2>1
  <2>6. ASSUME NEW x \in Nat, NEW y \in Nat, NEW v \in Nat, NEW w \in Nat,
               l * x <= F * v, l * y <= F * w
        PROVE  l * (x + y) <= F * (v + w)
    BY <2>6
  <2>7. l * Upto(t, k + 1) <= F * Upto(s, k + 1)
    BY <2>2, <2>3, <2>4, <2>5, <2>6
  <2> QED
    BY <2>1, <2>7
<1>3. n \in T
  <2> HIDE DEF T
  <2> QED
    BY <1>1, <1>2, Along
<1>4. l * Upto(t, n) <= F * Upto(s, n)
  BY <1>3
<1> QED
  BY <1>4, UptoIs

LEMMA TotalOfNone ==
  ASSUME NEW n \in Nat, NEW s \in [1..n -> Nat], \A i \in 1..n : s[i] = 0
  PROVE  Total(s) = 0
<1>1. PICK a \in Nat : a = 1
  OBVIOUS
<1>2. \A i \in 1..n : s[i] = a * s[i] + a * s[i]
  BY <1>1
<1>3. Total(s) = a * Total(s) + a * Total(s)
  <2>1. Combined(n, s, a, s, a, s)
    BY <1>2, TotalCombined
  <2> QED
    BY <2>1, Zenon DEF Combined
<1>4. Total(s) \in Nat
  BY TotalNat
<1> QED
  BY <1>1, <1>3, <1>4

\* The members of a set are counted one by one.
LEMMA CountIs ==
  ASSUME NEW n \in Nat, NEW S \in SUBSET (1..n)
  PROVE  Cardinality(S) = Total([i \in 1..n |-> IF i \in S THEN 1 ELSE 0])
<1> DEFINE s == [i \in 1..n |-> IF i \in S THEN 1 ELSE 0]
           U(k) == {i \in S : i <= k}
           T == {k \in Nat : k <= n => IsFiniteSet(U(k)) /\ Cardinality(U(k)) = Upto(s, k)}
<1>1. s \in [1..n -> Nat] /\ \A i \in 1..n : s[i] = IF i \in S THEN 1 ELSE 0
  OBVIOUS
<1>0. \A i \in S : i \in Nat /\ 1 <= i /\ i <= n
  OBVIOUS
<1> HIDE DEF s
<1>2. 0 \in T
  <2>1. \A i \in S : ~(i <= 0)
    BY <1>0
  <2>4. U(0) = {}
    BY <2>1
  <2>2. IsFiniteSet(U(0)) /\ Cardinality(U(0)) = 0
    BY <2>4, FS_EmptySet
  <2>3. Upto(s, 0) = 0
    BY <1>1, UptoIs
  <2> QED
    BY <2>2, <2>3
<1>3. \A k \in 0..(n - 1) : k \in T => k + 1 \in T
  <2> SUFFICES ASSUME NEW k \in 0..(n - 1), k \in T
               PROVE  k + 1 \in T
    OBVIOUS
  <2>1. k + 1 \in 1..n /\ (k + 1) - 1 = k /\ k <= n /\ k + 1 \in Nat /\ k \in 0..n
    OBVIOUS
  <2>2. Upto(s, k + 1) = Upto(s, k) + s[k + 1] /\ Upto(s, k) \in Nat
    BY <1>1, <2>1, UptoIs, UptoNat
  <2>3. IsFiniteSet(U(k)) /\ Cardinality(U(k)) = Upto(s, k)
    BY <2>1
  <2>4. CASE k + 1 \in S
    <3>0. ~(k + 1 <= k) /\ \A i \in S : i <= k + 1 <=> (i <= k \/ i = k + 1)
      BY <1>0, <2>1
    <3>1. U(k + 1) = U(k) \cup {k + 1} /\ k + 1 \notin U(k)
      BY <2>4, <3>0
    <3> HIDE DEF U
    <3>2. IsFiniteSet(U(k + 1)) /\ Cardinality(U(k + 1)) = Cardinality(U(k)) + 1
      BY <2>3, <3>1, FS_AddElement
    <3>3. s[k + 1] = 1
      BY <1>1, <2>1, <2>4
    <3> QED
      BY <2>1, <2>2, <2>3, <3>2, <3>3
  <2>5. CASE k + 1 \notin S
    <3>0. \A i \in S : i <= k + 1 <=> i <= k
      BY <1>0, <2>1, <2>5
    <3>1. U(k + 1) = U(k)
      BY <3>0
    <3>2. s[k + 1] = 0
      BY <1>1, <2>1, <2>5
    <3> HIDE DEF U
    <3> QED
      BY <2>1, <2>2, <2>3, <3>1, <3>2
  <2> QED
    BY <2>4, <2>5
<1>4. n \in T
  <2> HIDE DEF T
  <2> QED
    BY <1>2, <1>3, Along
<1>5. U(n) = S
  BY <1>0
<1>6. Cardinality(S) = Upto(s, n)
  <2> HIDE DEF U
  <2> QED
    BY <1>4, <1>5
<1> QED
  BY <1>1, <1>6, UptoIs DEF s

-----------------------------------------------------------------------------
(* Places in an order.                                                      *)

\* Of any two members one is below the other, and all that is below it as well.
Orders(under, S) ==
  /\ under \in [S -> SUBSET S] /\ \A m \in S : m \notin under[m]
  /\ \A m, n \in S : m # n => \/ m \in under[n] /\ under[m] \subseteq under[n]
                              \/ n \in under[m] /\ under[n] \subseteq under[m]

Ranks(under, S) ==
  /\ \A m \in S : Cardinality(under[m]) \in 0..(Cardinality(S) - 1)
  /\ \A m, n \in S : Cardinality(under[m]) = Cardinality(under[n]) => m = n
  /\ \A k \in 0..(Cardinality(S) - 1) : \E m \in S : Cardinality(under[m]) = k

\* Each has a different number of members below it, and every number less than
\* the number of members is taken.
LEMMA Ranked ==
  ASSUME NEW S, IsFiniteSet(S), NEW under, Orders(under, S)
  PROVE  Ranks(under, S)
<1> USE DEF Orders
<1> DEFINE c == Cardinality(S)
           f == [m \in S |-> Cardinality(under[m])]
<1>1. c \in Nat
  BY FS_CardinalityType
<1>2. ASSUME NEW m \in S
      PROVE  IsFiniteSet(under[m]) /\ Cardinality(under[m]) \in 0..(c - 1)
  <2>1. under[m] \subseteq S /\ m \notin under[m]
    OBVIOUS
  <2>2. /\ IsFiniteSet(under[m]) /\ Cardinality(under[m]) <= c
        /\ Cardinality(under[m]) = c => under[m] = S
    BY <2>1, FS_Subset, Zenon
  <2>3. Cardinality(under[m]) \in Nat
    BY <2>2, FS_CardinalityType
  <2> HIDE DEF c
  <2> QED
    BY <1>1, <2>1, <2>2, <2>3
<1>3. ASSUME NEW m \in S, NEW n \in S, m \in under[n], under[m] \subseteq under[n]
      PROVE  Cardinality(under[m]) # Cardinality(under[n])
  <2>1. IsFiniteSet(under[n]) /\ m \notin under[m]
    BY <1>2
  <2>2. Cardinality(under[m]) = Cardinality(under[n]) => under[m] = under[n]
    BY <1>3, <2>1, FS_Subset, Zenon
  <2> QED
    BY <1>3, <2>1, <2>2
<1> HIDE DEF c
<1>4. f \in [S -> 0..(c - 1)]
  BY <1>2
<1>5. \A m, n \in S : f[m] = f[n] => m = n
  <2>1. ASSUME NEW m \in S, NEW n \in S, m # n
        PROVE  f[m] # f[n]
    <3>1. Cardinality(under[m]) # Cardinality(under[n])
      BY <1>3, <2>1
    <3> QED
      BY <3>1
  <2> QED
    BY <2>1
<1>6. /\ IsFiniteSet(0..(c - 1)) /\ Cardinality(0..(c - 1)) = c
  <2>1. c - 1 \in Int /\ (0 > c - 1 => c = 0) /\ (c - 1) - 0 + 1 = c
    BY <1>1
  <2> QED
    BY <2>1, FS_Interval
<1> HIDE DEF f
<1>7. f \in Injection(S, 0..(c - 1))
  BY <1>4, <1>5, Zenon DEF Injection, IsInjective
<1>8. f \in Surjection(S, 0..(c - 1))
  BY <1>6, <1>7, FS_Injection DEF c
<1>9. \A k \in 0..(c - 1) : \E m \in S : f[m] = k
  BY <1>8, Zenon DEF Surjection
<1>10. \A m \in S : f[m] = Cardinality(under[m])
  BY DEF f
<1> QED
  BY <1>2, <1>5, <1>9, <1>10 DEF c, Ranks

\* Of plots that draw.
LEMMA DrawnIs ==
  ASSUME NEW metrics \in [Monitored -> Nat]
  PROVE  /\ IsFiniteSet(Drawn(metrics)) /\ Cardinality(Drawn(metrics)) \in Nat
         /\ \A p \in Drawn(metrics) :
              Preceding(p, metrics) \in 0..(Cardinality(Drawn(metrics)) - 1)
         /\ \A p, q \in Drawn(metrics) :
              /\ Preceding(p, metrics) = Preceding(q, metrics) => p = q
              /\ p <= q => Preceding(p, metrics) <= Preceding(q, metrics)
         /\ \A k \in 1..Cardinality(Drawn(metrics)) :
              Nth(k, metrics) \in Drawn(metrics) /\ Preceding(Nth(k, metrics), metrics) = k - 1
<1> DEFINE S == Drawn(metrics)
           under == [p \in S |-> {q \in S : q < p}]
<1>0. devices_count \in Nat
  BY LayoutAssumption
<1>1. \A p \in S : p \in Nat
  BY <1>0 DEF Drawn, Monitored
<1>2. IsFiniteSet(S)
  <2>1. S \subseteq 1..devices_count
    BY DEF Drawn, Monitored
  <2>2. IsFiniteSet(1..devices_count)
    BY <1>0, FS_Interval
  <2> QED
    BY <2>1, <2>2, FS_Subset
<1>3. Cardinality(S) \in Nat
  BY <1>2, FS_CardinalityType
<1> HIDE DEF S
<1>4. \A p \in S : under[p] = {q \in S : q < p}
  OBVIOUS
<1>5. under \in [S -> SUBSET S]
  OBVIOUS
<1>6. \A p \in S : p \notin under[p]
  BY <1>1
<1>7. ASSUME NEW p \in S, NEW q \in S, p <= q
      PROVE  under[p] \subseteq under[q] /\ (p # q => p \in under[q])
  <2>1. \A r \in S : r < p => r < q
    BY <1>1, <1>7
  <2>2. p # q => p < q
    BY <1>1, <1>7
  <2> HIDE DEF under
  <2> QED
    BY <1>4, <2>1, <2>2
<1>8. \A p, q \in S : p # q => \/ p \in under[q] /\ under[p] \subseteq under[q]
                               \/ q \in under[p] /\ under[q] \subseteq under[p]
  <2>1. \A p, q \in S : p <= q \/ q <= p
    BY <1>1
  <2> HIDE DEF under
  <2> QED
    BY <1>7, <2>1
<1> HIDE DEF under
<1>9. Ranks(under, S)
  <2>1. Orders(under, S)
    BY <1>5, <1>6, <1>8, Zenon DEF Orders
  <2> QED
    BY <1>2, <2>1, Ranked
<1>10. \A p \in S : Preceding(p, metrics) = Cardinality(under[p])
  BY <1>4 DEF Preceding, S
<1>11. ASSUME NEW p \in S, NEW q \in S, p <= q
       PROVE  Preceding(p, metrics) <= Preceding(q, metrics)
  <2>1. under[p] \subseteq under[q] /\ under[q] \subseteq S
    BY <1>5, <1>7, <1>11
  <2>2. IsFiniteSet(under[q])
    BY <1>2, <2>1, FS_Subset
  <2>3. Cardinality(under[p]) <= Cardinality(under[q])
    BY <2>1, <2>2, FS_Subset
  <2> QED
    BY <1>10, <2>3
<1>12. ASSUME NEW k \in 1..Cardinality(S)
       PROVE  Nth(k, metrics) \in S /\ Preceding(Nth(k, metrics), metrics) = k - 1
  <2>1. k - 1 \in 0..(Cardinality(S) - 1)
    BY <1>3
  <2>2. \E p \in S : Preceding(p, metrics) = k - 1
    BY <1>9, <1>10, <2>1 DEF Ranks
  <2> QED
    BY <2>2, Zenon DEF Nth, S
<1>13. \A p \in S : Preceding(p, metrics) \in 0..(Cardinality(S) - 1)
  BY <1>9, <1>10 DEF Ranks
<1>14. \A p, q \in S : Preceding(p, metrics) = Preceding(q, metrics) => p = q
  BY <1>9, <1>10 DEF Ranks
<1> QED
  BY <1>2, <1>3, <1>11, <1>12, <1>13, <1>14 DEF S

\* Of the plots on their stacks.
LEMMA BeforeIs ==
  ASSUME NEW n \in Nat, NEW stackOf \in [1..n -> Nat]
  PROVE  /\ \A p, q \in 1..n :
              Cardinality(Before(p, stackOf)) = Cardinality(Before(q, stackOf)) => p = q
         /\ \A k \in 1..n : \E p \in 1..n : Cardinality(Before(p, stackOf)) = k - 1
         /\ (\A p, q \in 1..n : p < q => stackOf[p] <= stackOf[q]) =>
              \A p \in 1..n : Cardinality(Before(p, stackOf)) = p - 1
<1> DEFINE S == 1..n
           under == [p \in S |-> Before(p, stackOf)]
<1>1. IsFiniteSet(S) /\ Cardinality(S) = n
  <2>1. n \in Int /\ (1 > n => n = 0) /\ n - 1 + 1 = n
    OBVIOUS
  <2> QED
    BY <2>1, FS_Interval
<1>2. \A p \in S : p \in Nat /\ stackOf[p] \in Nat
  OBVIOUS
<1>3. \A p, q \in S : q \in Before(p, stackOf) <=>
        stackOf[q] < stackOf[p] \/ (stackOf[q] = stackOf[p] /\ q < p)
  BY DEF Before
<1>4. \A p \in S : under[p] = Before(p, stackOf) /\ under[p] \subseteq S
  BY DEF Before
<1>5. under \in [S -> SUBSET S]
  BY <1>4
<1> HIDE DEF under, S
<1>6. \A p \in S : p \notin under[p]
  BY <1>2, <1>3, <1>4
<1>7. ASSUME NEW p \in S, NEW q \in S, p # q, p \in under[q]
      PROVE  under[p] \subseteq under[q]
  <2>1. \A r \in S : r \in Before(p, stackOf) => r \in Before(q, stackOf)
    BY <1>2, <1>3, <1>4, <1>7
  <2> QED
    BY <1>4, <2>1
<1>8. \A p, q \in S : p # q => p \in under[q] \/ q \in under[p]
  BY <1>2, <1>3, <1>4
<1>9. Orders(under, S)
  <2>1. \A p, q \in S : p # q => \/ p \in under[q] /\ under[p] \subseteq under[q]
                                 \/ q \in under[p] /\ under[q] \subseteq under[p]
    BY <1>7, <1>8
  <2> QED
    BY <1>5, <1>6, <2>1, Zenon DEF Orders
<1>10. Ranks(under, S)
  BY <1>1, <1>9, Ranked
<1>11. \A k \in 1..n : \E p \in S : Cardinality(Before(p, stackOf)) = k - 1
  <2>1. \A k \in 1..n : k - 1 \in 0..(n - 1)
    OBVIOUS
  <2> QED
    BY <1>1, <1>4, <1>10, <2>1 DEF Ranks
<1>12. \A p, q \in S :
         Cardinality(Before(p, stackOf)) = Cardinality(Before(q, stackOf)) => p = q
  BY <1>4, <1>10 DEF Ranks
<1>13. ASSUME \A p, q \in S : p < q => stackOf[p] <= stackOf[q], NEW p \in S
       PROVE  Cardinality(Before(p, stackOf)) = p - 1
  <2>1. \A q \in S : q \in Before(p, stackOf) <=> q < p
    <3> SUFFICES ASSUME NEW q \in S
                 PROVE  q \in Before(p, stackOf) <=> q < p
      OBVIOUS
    <3>1. p < q => stackOf[p] <= stackOf[q]
      BY <1>13
    <3>2. q < p => stackOf[q] <= stackOf[p]
      BY <1>13
    <3> QED
      BY <1>2, <1>3, <3>1, <3>2
  <2>2. Before(p, stackOf) = 1..(p - 1)
    <3>1. \A q : q \in 1..(p - 1) <=> q \in S /\ q < p
      BY <1>2 DEF S
    <3>2. \A q \in Before(p, stackOf) : q \in S
      BY <1>4
    <3> QED
      BY <2>1, <3>1, <3>2
  <2>3. 1 \in Int /\ p - 1 \in Int /\ (1 > p - 1 => p - 1 = 0) /\ (p - 1) - 1 + 1 = p - 1
    BY DEF S
  <2>4. Cardinality(1..(p - 1)) = p - 1
    BY <2>3, FS_Interval
  <2> QED
    BY <2>2, <2>4
<1> QED
  BY <1>11, <1>12, <1>13 DEF S

-----------------------------------------------------------------------------
(* What the plots of a stack have together.                                 *)

OfStack(stack, stackOf, has) ==
  [p \in DOMAIN stackOf |-> IF stackOf[p] = stack THEN has[p] ELSE 0]
ColsOf(stack, stackOf, metrics) ==
  [p \in DOMAIN stackOf |-> IF stackOf[p] = stack THEN 5 + 10 * metrics[p] ELSE 0]

\* The terms u of a sum over the plots 1..n of a stack.
SumOfStack(sum, u, n, stack, stackOf, has) ==
  /\ u \in [1..n -> Nat] /\ sum = Total(u)
  /\ \A p \in 1..n : u[p] = IF stackOf[p] = stack THEN has[p] ELSE 0
SumOfCols(sum, u, n, stack, stackOf, metrics) ==
  /\ u \in [1..n -> Nat] /\ sum = Total(u)
  /\ \A p \in 1..n : u[p] = IF stackOf[p] = stack THEN 5 + 10 * metrics[p] ELSE 0

LEMMA InStackIs ==
  ASSUME NEW n \in Nat, NEW stackOf \in [1..n -> Nat], NEW has \in [1..n -> Nat], NEW stack
  PROVE  SumOfStack(InStack(stack, stackOf, has), OfStack(stack, stackOf, has), n, stack, stackOf, has)
<1>1. InStack(stack, stackOf, has) = Total(OfStack(stack, stackOf, has))
  BY Zenon DEF InStack, OfStack
<1> QED
  BY <1>1 DEF OfStack, SumOfStack

LEMMA UsedIs ==
  ASSUME NEW n \in Nat, NEW stackOf \in [1..n -> Nat], NEW metrics, \A p \in 1..n : metrics[p] \in Nat,
         NEW stack
  PROVE  SumOfCols(UsedBy(stack, stackOf, metrics), ColsOf(stack, stackOf, metrics), n,
                   stack, stackOf, metrics)
<1> DEFINE has == [p \in DOMAIN stackOf |-> MinPlotCols(metrics[p])]
<1>1. has \in [1..n -> Nat] /\ \A p \in 1..n : has[p] = 5 + 10 * metrics[p]
  BY DEF MinPlotCols, BoxCols
<1>2. UsedBy(stack, stackOf, metrics) = InStack(stack, stackOf, has)
  BY Zenon DEF UsedBy
<1> HIDE DEF has
<1>3. InStack(stack, stackOf, has) = Total(OfStack(stack, stackOf, has))
  <2>1. has \in [1..n -> Nat]
    BY <1>1
  <2>2. SumOfStack(InStack(stack, stackOf, has), OfStack(stack, stackOf, has), n, stack, stackOf, has)
    BY <2>1, InStackIs
  <2> QED
    BY <2>2, Zenon DEF SumOfStack
<1>4. OfStack(stack, stackOf, has) = ColsOf(stack, stackOf, metrics)
  BY <1>1 DEF OfStack, ColsOf
<1> QED
  BY <1>2, <1>3, <1>4 DEF ColsOf, SumOfCols

LEMMA UsedNat ==
  ASSUME NEW n \in Nat, NEW stackOf \in [1..n -> Nat], NEW metrics, \A p \in 1..n : metrics[p] \in Nat,
         NEW stack
  PROVE  UsedBy(stack, stackOf, metrics) \in Nat
<1> DEFINE u == ColsOf(stack, stackOf, metrics)
<1>1. u \in [1..n -> Nat] /\ UsedBy(stack, stackOf, metrics) = Total(u)
  BY UsedIs DEF SumOfCols
<1> HIDE DEF u
<1> QED
  BY <1>1, TotalNat

\* A stack that no plot is on.
LEMMA UsedByNone ==
  ASSUME NEW n \in Nat, NEW stackOf \in [1..n -> Nat], NEW metrics, \A p \in 1..n : metrics[p] \in Nat,
         NEW stack, \A p \in 1..n : stackOf[p] # stack
  PROVE  UsedBy(stack, stackOf, metrics) = 0
<1> DEFINE u == ColsOf(stack, stackOf, metrics)
<1>1. u \in [1..n -> Nat] /\ UsedBy(stack, stackOf, metrics) = Total(u)
  BY UsedIs DEF SumOfCols
<1>2. \A p \in 1..n : u[p] = 0
  BY UsedIs DEF SumOfCols
<1> HIDE DEF u
<1> QED
  BY <1>1, <1>2, TotalOfNone

\* One plot more.
GrewBy(sum, before, cols) == sum = before + cols

LEMMA UsedByOneMore ==
  ASSUME NEW n \in Nat, NEW stackOf \in [1..n -> Nat], NEW after \in [1..(n + 1) -> Nat],
         \A p \in 1..n : after[p] = stackOf[p],
         NEW metrics, \A p \in 1..(n + 1) : metrics[p] \in Nat, NEW stack
  PROVE  GrewBy(UsedBy(stack, after, metrics), UsedBy(stack, stackOf, metrics),
                IF after[n + 1] = stack THEN 5 + 10 * metrics[n + 1] ELSE 0)
<1> DEFINE m == n + 1
           u == ColsOf(stack, stackOf, metrics)
           v == ColsOf(stack, after, metrics)
<1>0. m \in Nat /\ m \in 1..m /\ m - 1 = n /\ \A p \in 1..n : p \in 1..m
  OBVIOUS
<1>1. /\ u \in [1..n -> Nat] /\ UsedBy(stack, stackOf, metrics) = Total(u)
      /\ \A p \in 1..n : u[p] = IF stackOf[p] = stack THEN 5 + 10 * metrics[p] ELSE 0
  <2>1. \A p \in 1..n : metrics[p] \in Nat
    BY <1>0
  <2>2. SumOfCols(UsedBy(stack, stackOf, metrics), u, n, stack, stackOf, metrics)
    BY <2>1, UsedIs
  <2> QED
    BY <2>2, Zenon DEF SumOfCols
<1> HIDE DEF m
<1>2. after \in [1..m -> Nat] /\ \A p \in 1..m : metrics[p] \in Nat
  BY DEF m
<1>3. /\ v \in [1..m -> Nat] /\ UsedBy(stack, after, metrics) = Total(v)
      /\ \A p \in 1..m : v[p] = IF after[p] = stack THEN 5 + 10 * metrics[p] ELSE 0
  <2>1. SumOfCols(UsedBy(stack, after, metrics), v, m, stack, after, metrics)
    BY <1>0, <1>2, UsedIs
  <2> QED
    BY <2>1, Zenon DEF SumOfCols
<1> HIDE DEF u, v
<1>4. Total(v) = Upto(v, n) + v[m]
  BY <1>0, <1>3, UptoIs
<1>5. Upto(v, n) = Total(u)
  <2>1. [i \in 1..n |-> v[i]] = u
    BY <1>0, <1>1, <1>3
  <2> QED
    BY <2>1 DEF Upto
<1> QED
  BY <1>0, <1>1, <1>3, <1>4, <1>5 DEF m, GrewBy

-----------------------------------------------------------------------------
(* An attempt to place the plots.                                           *)

\* The plots 1..n are on stacks that are wide enough for them.
Fits(stackOf, n, stacks, cols, metrics) ==
  /\ stackOf \in [1..n -> 1..stacks]
  /\ \A s \in 1..stacks : UsedBy(s, stackOf, metrics) <= cols

PlaceState == [stacks : Nat, used : Nat, left : Nat, cols : Nat, stackOf : Seq(Nat),
               verdict : {"placed", "full", "wide"}]

\* The first k plots are placed.
Placed(p, k, plots, rows, cols) ==
  /\ p \in PlaceState /\ p.cols = cols
  /\ p.verdict = "placed" =>
       /\ p.stacks > 0 /\ p.stacks * 7 + p.left = rows
       /\ p.used = UsedBy(p.stacks, p.stackOf, plots)
       /\ Fits(p.stackOf, k, p.stacks, cols, plots)

\* A plot more, in the last stack or in a new one.
WithPlot(p, stacks, used, after, width) ==
  /\ after = Append(p.stackOf, stacks)
  /\ \/ stacks = p.stacks /\ used = width + p.used
     \/ stacks = p.stacks + 1 /\ used = width

IsPlaced(n, stacks, used, stackOf, cols, plots) ==
  used = UsedBy(stacks, stackOf, plots) /\ Fits(stackOf, n, stacks, cols, plots)

LEMMA PlacedIsNext ==
  ASSUME NEW k \in Nat, NEW plots, \A i \in 1..(k + 1) : plots[i] \in Nat,
         NEW rows \in Nat, NEW cols \in Nat, NEW p, Placed(p, k, plots, rows, cols),
         p.verdict = "placed", NEW stacks, NEW after \in Seq(Nat), NEW used \in Nat, used <= cols,
         WithPlot(p, stacks, used, after, 5 + 10 * plots[k + 1])
  PROVE  IsPlaced(k + 1, stacks, used, after, cols, plots)
<1> DEFINE before == p.stackOf
           x == p.stacks
<1>1. /\ before \in Seq(Nat) /\ before \in [1..k -> 1..x] /\ x \in Nat /\ x > 0
      /\ p.used = UsedBy(x, before, plots) /\ \A s \in 1..x : UsedBy(s, before, plots) <= cols
  BY DEF Placed, PlaceState, Fits
<1>2. stacks \in Nat /\ stacks > 0 /\ stacks \in {x, x + 1}
  BY <1>1 DEF WithPlot
<1> HIDE DEF before, x
<1>3. before \in [1..k -> Nat] /\ \A i \in 1..k : plots[i] \in Nat /\ before[i] \in 1..x
  BY <1>1
<1>4. /\ after \in [1..(k + 1) -> Nat] /\ after[k + 1] = stacks
      /\ \A i \in 1..k : after[i] = before[i]
  <2>1. Len(before) = k
    BY <1>1
  <2>2. after = Append(before, stacks)
    BY DEF before, WithPlot
  <2>3. Len(after) = k + 1 /\ after[k + 1] = stacks /\ \A i \in 1..k : after[i] = before[i]
    BY <1>1, <1>2, <2>1, <2>2
  <2>4. after \in [1..Len(after) -> Nat]
    BY LenProperties
  <2> QED
    BY <2>3, <2>4, Zenon
<1>5. after \in [1..(k + 1) -> 1..stacks]
  <2>1. \A i \in 1..(k + 1) : after[i] \in 1..stacks
    <3>1. \A i \in 1..(k + 1) : i \in 1..k \/ i = k + 1
      OBVIOUS
    <3>2. \A i \in 1..k : after[i] \in 1..stacks
      <4>1. \A j \in 1..x : j \in 1..stacks
        BY <1>1, <1>2
      <4> QED
        BY <1>3, <1>4, <4>1, Zenon
    <3>3. after[k + 1] \in 1..stacks
      BY <1>2, <1>4
    <3> QED
      BY <3>1, <3>2, <3>3, Zenon
  <2> QED
    BY <1>4, <2>1
<1>6. \A s : UsedBy(s, after, plots) = UsedBy(s, before, plots)
                 + (IF after[k + 1] = s THEN 5 + 10 * plots[k + 1] ELSE 0)
  <2> SUFFICES ASSUME NEW s
               PROVE  UsedBy(s, after, plots) = UsedBy(s, before, plots)
                        + (IF after[k + 1] = s THEN 5 + 10 * plots[k + 1] ELSE 0)
    OBVIOUS
  <2>1. \A i \in 1..(k + 1) : plots[i] \in Nat
    OBVIOUS
  <2>2. GrewBy(UsedBy(s, after, plots), UsedBy(s, before, plots),
               IF after[k + 1] = s THEN 5 + 10 * plots[k + 1] ELSE 0)
    BY <1>3, <1>4, <2>1, UsedByOneMore
  <2> QED
    BY <2>2, Zenon DEF GrewBy
<1>7. \A s : UsedBy(s, before, plots) \in Nat
  BY <1>3, UsedNat
<1>8. plots[k + 1] \in Nat
  OBVIOUS
<1>9. UsedBy(x + 1, before, plots) = 0
  <2>1. \A i \in 1..k : before[i] # x + 1
    BY <1>1, <1>3
  <2> QED
    BY <1>3, <2>1, UsedByNone
<1>10. used = 5 + 10 * plots[k + 1] + (IF stacks = x THEN UsedBy(x, before, plots) ELSE 0)
  <2>1. p.used \in Nat /\ x + 1 # x /\ x = p.stacks
    BY <1>1 DEF x, Placed, PlaceState
  <2>2. \/ stacks = x /\ used = (5 + 10 * plots[k + 1]) + p.used
        \/ stacks = x + 1 /\ used = 5 + 10 * plots[k + 1]
    BY <2>1, Zenon DEF WithPlot
  <2> QED
    BY <1>1, <1>8, <2>1, <2>2
<1>11. used = UsedBy(stacks, after, plots)
  <2>1. UsedBy(stacks, after, plots) = UsedBy(stacks, before, plots) + (5 + 10 * plots[k + 1])
    BY <1>4, <1>6
  <2>2. CASE stacks = x
    BY <1>1, <1>7, <1>8, <1>10, <2>1, <2>2
  <2>3. CASE stacks # x
    <3>1. stacks = x + 1
      BY <1>2, <2>3
    <3> QED
      BY <1>8, <1>9, <1>10, <2>1, <2>3, <3>1
  <2> QED
    BY <2>2, <2>3
<1>12. ASSUME NEW s \in 1..stacks
       PROVE  UsedBy(s, after, plots) <= cols
  <2>1. CASE s = stacks
    BY <1>11, <2>1
  <2>2. CASE s # stacks
    <3>1. s \in 1..x
      BY <1>1, <1>2, <2>2
    <3>2. UsedBy(s, after, plots) = UsedBy(s, before, plots)
      BY <1>4, <1>6, <1>7, <2>2
    <3> QED
      BY <1>1, <3>1, <3>2
  <2> QED
    BY <2>1, <2>2
<1> QED
  BY <1>5, <1>11, <1>12 DEF Fits, IsPlaced

LEMMA PlaceIs ==
  ASSUME NEW k \in Nat, NEW plots, \A i \in 1..(k + 1) : plots[i] \in Nat,
         NEW rows \in Nat, NEW cols \in Nat, NEW p, Placed(p, k, plots, rows, cols)
  PROVE  Placed(Place(p, plots[k + 1]), k + 1, plots, rows, cols)
<1> DEFINE width == 5 + 10 * plots[k + 1]
           q == Place(p, plots[k + 1])
<1>1. /\ width \in Nat /\ MinPlotCols(plots[k + 1]) = width
  BY DEF MinPlotCols, BoxCols
<1>2. p \in PlaceState /\ p.cols = cols
  BY DEF Placed
<1>3. /\ p.stacks \in Nat /\ p.used \in Nat /\ p.left \in Nat /\ p.stackOf \in Seq(Nat)
  BY <1>2 DEF PlaceState
<1> HIDE DEF width
<1>4. CASE p.verdict # "placed"
  <2>1. q = p
    BY <1>4, Zenon DEF Place
  <2> QED
    BY <1>2, <1>4, <2>1 DEF Placed
<1>5. CASE p.verdict = "placed" /\ p.cols >= width + p.used
  <2> DEFINE after == Append(p.stackOf, p.stacks)
             used == p.used + width
  <2>1. q = [p EXCEPT !.used = used, !.stackOf = after]
    BY <1>1, <1>5, Zenon DEF Place
  <2>2. after \in Seq(Nat) /\ used \in Nat
    BY <1>1, <1>3
  <2> HIDE DEF after, used, q
  <2>3. /\ q \in PlaceState /\ q.cols = cols /\ q.stacks = p.stacks /\ q.left = p.left
        /\ q.used = used /\ q.stackOf = after
    BY <1>2, <2>1, <2>2 DEF PlaceState
  <2>4. used = UsedBy(p.stacks, after, plots) /\ Fits(after, k + 1, p.stacks, cols, plots)
    <3>1. used <= cols
      BY <1>1, <1>2, <1>3, <1>5 DEF used
    <3>2. used = (5 + 10 * plots[k + 1]) + p.used
      <4>1. used = width + p.used
        BY <1>1, <1>3 DEF used
      <4> QED
        BY <4>1, Zenon DEF width
    <3>3. WithPlot(p, p.stacks, used, after, 5 + 10 * plots[k + 1])
      BY <3>2, Zenon DEF after, WithPlot
    <3>4. IsPlaced(k + 1, p.stacks, used, after, cols, plots)
      BY <1>5, <2>2, <3>1, <3>3, PlacedIsNext
    <3> QED
      BY <3>4, Zenon DEF IsPlaced
  <2>5. p.stacks > 0 /\ p.stacks * 7 + p.left = rows
    BY <1>5 DEF Placed
  <2> QED
    BY <2>3, <2>4, <2>5 DEF Placed, q
<1>6. CASE p.verdict = "placed" /\ ~(p.cols >= width + p.used)
  <2>1. CASE p.used > 0 /\ p.left < 7
    <3>1. q = [p EXCEPT !.verdict = "full"]
      BY <1>1, <1>6, <2>1, Zenon DEF Place, MinPlotRows
    <3> HIDE DEF q
    <3>2. q \in PlaceState /\ q.cols = cols /\ q.verdict # "placed"
      BY <1>2, <3>1 DEF PlaceState
    <3> QED
      BY <3>2 DEF Placed, q
  <2>2. CASE ~(p.used > 0 /\ p.left < 7) /\ p.cols < width
    <3>1. q = [p EXCEPT !.verdict = "wide"]
      BY <1>1, <1>6, <2>2, Zenon DEF Place, MinPlotRows
    <3> HIDE DEF q
    <3>2. q \in PlaceState /\ q.cols = cols /\ q.verdict # "placed"
      BY <1>2, <3>1 DEF PlaceState
    <3> QED
      BY <3>2 DEF Placed, q
  <2>3. CASE ~(p.used > 0 /\ p.left < 7) /\ ~(p.cols < width)
    <3> DEFINE stacks == p.stacks + 1
               after == Append(p.stackOf, stacks)
               left == p.left - 7
    <3>1. q = [p EXCEPT !.left = left, !.stacks = stacks, !.used = width, !.stackOf = after]
      BY <1>1, <1>6, <2>3, Zenon DEF Place, MinPlotRows
    <3>2. /\ after \in Seq(Nat) /\ stacks \in Nat /\ stacks > 0 /\ p.left >= 7 /\ left \in Nat
          /\ width <= cols
      <4>1. after \in Seq(Nat) /\ stacks \in Nat /\ stacks > 0
        BY <1>3
      <4>2. p.used > 0 /\ width <= cols
        BY <1>1, <1>2, <1>3, <1>6, <2>3
      <4>3. p.left >= 7 /\ left \in Nat
        BY <1>3, <2>3, <4>2
      <4> QED
        BY <4>1, <4>2, <4>3
    <3>3. stacks * 7 + left = rows
      <4>1. p.stacks * 7 + p.left = rows
        BY <1>6 DEF Placed
      <4>2. stacks * 7 = p.stacks * 7 + 7
        BY <1>3
      <4>3. p.stacks * 7 \in Nat
        BY <1>3
      <4> HIDE DEF stacks
      <4> QED
        BY <1>3, <4>1, <4>2, <4>3
    <3> HIDE DEF q
    <3>4. width = UsedBy(stacks, after, plots) /\ Fits(after, k + 1, stacks, cols, plots)
      <4>1. WithPlot(p, stacks, width, after, 5 + 10 * plots[k + 1])
        BY Zenon DEF width, WithPlot
      <4>3. \A i \in 1..(k + 1) : plots[i] \in Nat
        OBVIOUS
      <4>4. p.verdict = "placed"
        BY <1>6
      <4> HIDE DEF stacks, after
      <4>5. IsPlaced(k + 1, stacks, width, after, cols, plots)
        BY <1>1, <3>2, <4>1, <4>3, <4>4, PlacedIsNext
      <4> QED
        BY <4>5, Zenon DEF IsPlaced
    <3> HIDE DEF stacks, after, left
    <3>5. /\ q \in PlaceState /\ q.cols = cols /\ q.stacks = stacks /\ q.left = left
          /\ q.used = width /\ q.stackOf = after
      BY <1>1, <1>2, <3>1, <3>2 DEF PlaceState
    <3> QED
      BY <3>2, <3>3, <3>4, <3>5 DEF Placed, q
  <2> QED
    BY <2>1, <2>2, <2>3
<1> QED
  BY <1>4, <1>5, <1>6

LEMMA AttemptIs ==
  ASSUME NEW n \in Nat, NEW plots \in [1..n -> Nat], NEW rows \in Nat, rows >= 7, NEW cols \in Nat
  PROVE  Placed(Attempt(plots, rows, cols), n, plots, rows, cols)
<1> DEFINE start == [stacks |-> 1, used |-> 0, left |-> rows - MinPlotRows, cols |-> cols,
                     stackOf |-> <<>>, verdict |-> "placed"]
<1>1. Attempt(plots, rows, cols) = PlaceLoop!Fold(start, plots)
  BY Zenon DEF Attempt, FoldLeft, MapThenFoldSet, Max, PlaceLoop!Fold
<1>2. Placed(start, 0, plots, rows, cols)
  <2>1. start \in PlaceState
    BY DEF PlaceState, MinPlotRows
  <2>2. 1 * 7 + (rows - 7) = rows
    OBVIOUS
  <2>3. <<>> \in [1..0 -> Nat] /\ <<>> \in [1..0 -> 1..1]
    OBVIOUS
  <2>4. UsedBy(1, <<>>, plots) = 0
    <3> DEFINE none == <<>>
               z == 0
    <3>1. z \in Nat /\ none \in [1..z -> Nat] /\ \A p \in 1..z : plots[p] \in Nat /\ none[p] # 1
      BY <2>3
    <3> HIDE DEF none, z
    <3>2. UsedBy(1, none, plots) = 0
      BY <3>1, UsedByNone
    <3> QED
      BY <3>2 DEF none
  <2>5. Fits(<<>>, 0, 1, cols, plots)
    BY <2>3, <2>4 DEF Fits
  <2> QED
    BY <2>1, <2>2, <2>4, <2>5 DEF Placed, MinPlotRows
<1> HIDE DEF start
<1>3. PICK f : /\ f[0] = start
               /\ \A k \in 1..n : f[k] = Place(f[k - 1], plots[k])
               /\ f[n] = PlaceLoop!Fold(start, plots)
  <2>1. DOMAIN plots = 1..n
    OBVIOUS
  <2> QED
    BY <2>1, PlaceLoop!Steps
<1> DEFINE T == {k \in Nat : k <= n => Placed(f[k], k, plots, rows, cols)}
<1>4. 0 \in T
  BY <1>2, <1>3
<1>5. \A k \in 0..(n - 1) : k \in T => k + 1 \in T
  <2> SUFFICES ASSUME NEW k \in 0..(n - 1), k \in T
               PROVE  k + 1 \in T
    OBVIOUS
  <2>1. k \in Nat /\ k + 1 \in 1..n /\ (k + 1) - 1 = k /\ k + 1 \in Nat /\ k <= n
    OBVIOUS
  <2>2. f[k + 1] = Place(f[k], plots[k + 1])
    BY <1>3, <2>1
  <2>3. Placed(f[k], k, plots, rows, cols)
    BY <2>1
  <2>4. \A i \in 1..(k + 1) : plots[i] \in Nat
    BY <2>1
  <2>5. Placed(f[k + 1], k + 1, plots, rows, cols)
    BY <2>1, <2>2, <2>3, <2>4, PlaceIs
  <2> QED
    BY <2>1, <2>5
<1>6. n \in T
  <2> HIDE DEF T
  <2> QED
    BY <1>4, <1>5, Along
<1> QED
  BY <1>1, <1>3, <1>6

-----------------------------------------------------------------------------
(* The search for a placing: plots are merged until there is one.           *)

LEMMA LeastExists ==
  ASSUME NEW S \in SUBSET Nat, S # {}
  PROVE  \E m \in S : \A n \in S : m <= n
<1>1. PICK x \in S : TRUE
  OBVIOUS
<1>2. SUFFICES ASSUME \A m \in S : \E n \in S : n < m
               PROVE  FALSE
  <2>1. \A m, n \in S : ~(m <= n) => n < m
    OBVIOUS
  <2> QED
    BY <2>1
<1> DEFINE T == {k \in Nat : \A m \in S : k <= m}
<1>3. 0 \in T
  OBVIOUS
<1>4. \A k \in 0..((x + 1) - 1) : k \in T => k + 1 \in T
  <2> SUFFICES ASSUME NEW k \in T
               PROVE  k + 1 \in T
    OBVIOUS
  <2>1. \A m \in S : m \in Nat /\ k <= m
    OBVIOUS
  <2>2. k \notin S
    BY <1>2, <2>1
  <2>3. \A m \in S : k + 1 <= m
    BY <2>1, <2>2
  <2> QED
    BY <2>3
<1>5. x + 1 \in T
  <2>1. x + 1 \in Nat
    BY <1>1
  <2> HIDE DEF T
  <2> QED
    BY <1>3, <1>4, <2>1, Along
<1> QED
  BY <1>1, <1>5

LEMMA WhoToMergeIs ==
  ASSUME NEW metrics \in [Monitored -> Nat], Neighbours(metrics) # {}
  PROVE  WhoToMerge(metrics) \in Neighbours(metrics)
<1> DEFINE N == Neighbours(metrics)
           sum(pair) == metrics[pair[1]] + metrics[pair[2]]
           sums == {sum(pair) : pair \in N}
<1>0. devices_count \in Nat
  BY LayoutAssumption
<1>1. \A pair \in N : /\ pair \in Monitored \X Monitored /\ pair = <<pair[1], pair[2]>>
                      /\ pair[1] \in Nat /\ pair[2] \in Nat /\ pair[2] <= devices_count
                      /\ sum(pair) \in Nat /\ pair[1] < pair[2] /\ metrics[pair[1]] > 0
                      /\ \A k \in (pair[1] + 1)..(pair[2] - 1) : metrics[k] = 0
  BY <1>0 DEF Neighbours, Monitored
<1> HIDE DEF N
<1>2. \A pair, other \in N : pair[2] = other[2] => pair = other
  <2> SUFFICES ASSUME NEW pair \in N, NEW other \in N, pair[2] = other[2], pair[1] < other[1]
               PROVE  FALSE
    <3>1. \A pair, other \in N : pair[1] = other[1] \/ pair[1] < other[1] \/ other[1] < pair[1]
      BY <1>1
    <3> QED
      BY <1>1, <3>1
  <2>1. other[1] \in (pair[1] + 1)..(pair[2] - 1) /\ metrics[other[1]] > 0
    BY <1>1
  <2> QED
    BY <1>1, <2>1
<1>3. PICK least \in sums : \A other \in sums : least <= other
  <2>1. sums \in SUBSET Nat /\ sums # {}
    BY <1>1 DEF N
  <2> HIDE DEF sums
  <2> QED
    BY <2>1, LeastExists
<1> DEFINE best == {pair \in N : sum(pair) = least}
           lasts == {devices_count - pair[2] : pair \in best}
<1>4. PICK last \in lasts : \A other \in lasts : last <= other
  <2>1. \A pair \in N : devices_count - pair[2] \in Nat
    BY <1>0, <1>1
  <2>2. \E pair \in N : sum(pair) = least
    BY <1>3
  <2>3. lasts \in SUBSET Nat /\ lasts # {}
    BY <2>1, <2>2
  <2> HIDE DEF lasts
  <2> QED
    BY <2>3, LeastExists
<1>5. PICK pair \in best : last = devices_count - pair[2]
  BY <1>4
<1>6. pair \in N /\ sum(pair) = least
  BY <1>5
<1>7. ASSUME NEW other \in N \ {pair}
      PROVE  sum(pair) < sum(other) \/ (sum(pair) = sum(other) /\ pair[2] > other[2])
  <2>1. least <= sum(other) /\ sum(other) \in Nat /\ least \in Nat
    BY <1>1, <1>3, <1>6
  <2>2. CASE sum(other) = least
    <3>1. devices_count - other[2] \in lasts
      BY <2>2
    <3>2. devices_count - pair[2] <= devices_count - other[2]
      BY <1>4, <1>5, <3>1
    <3>3. pair[2] # other[2]
      BY <1>2, <1>6
    <3>4. pair[2] > other[2]
      BY <1>0, <1>1, <1>6, <3>2, <3>3
    <3> QED
      BY <1>6, <2>2, <3>4
  <2>3. CASE sum(other) # least
    BY <1>6, <2>1, <2>3
  <2> QED
    BY <2>2, <2>3
<1>8. \E p \in N : \A other \in N \ {p} :
        sum(p) < sum(other) \/ (sum(p) = sum(other) /\ p[2] > other[2])
  BY <1>6, <1>7, Zenon
<1> QED
  BY <1>8, Zenon DEF WhoToMerge, N

\* What is drawn by the devices in plot p, of what each draws.
Own(p, plotOf, drawing) == [d \in Monitored |-> IF plotOf[d] = p THEN drawing[d] ELSE 0]

\* Every device that draws is in a plot with the metrics of all its devices,
\* the plots in the order of the devices.
Grouped(plotOf, metrics, drawing) ==
  /\ plotOf \in [Monitored -> Monitored] /\ metrics \in [Monitored -> 0..LinesPerPlot]
  /\ \A p \in Monitored : metrics[p] = Total(Own(p, plotOf, drawing))
  /\ \A p \in Monitored : metrics[p] > 0 => plotOf[p] = p
  /\ \A d \in Monitored : drawing[d] > 0 => metrics[plotOf[d]] > 0
  /\ \A d, e \in Monitored : drawing[d] > 0 /\ drawing[e] > 0 /\ d < e => plotOf[d] <= plotOf[e]

LEMMA OwnIs ==
  ASSUME NEW drawing \in [Monitored -> Nat], NEW plotOf \in [Monitored -> Monitored], NEW p
  PROVE  /\ Own(p, plotOf, drawing) \in [1..devices_count -> Nat]
         /\ \A d \in 1..devices_count :
              Own(p, plotOf, drawing)[d] = IF plotOf[d] = p THEN drawing[d] ELSE 0
BY DEF Own, Monitored

LEMMA StartIsGrouped ==
  ASSUME NEW drawing \in [Monitored -> 0..LinesPerPlot]
  PROVE  Grouped([d \in Monitored |-> d], drawing, drawing)
<1> DEFINE plotOf == [d \in Monitored |-> d]
           n == devices_count
<1>1. plotOf \in [Monitored -> Monitored] /\ \A d \in Monitored : plotOf[d] = d
  OBVIOUS
<1>2. drawing \in [Monitored -> Nat] /\ n \in Nat /\ Monitored = 1..n
  <2>1. LinesPerPlot \in Nat /\ n \in Nat
    BY LayoutAssumption
  <2> QED
    BY <2>1 DEF Monitored
<1> HIDE DEF plotOf, n
<1>3. ASSUME NEW p \in Monitored
      PROVE  drawing[p] = Total(Own(p, plotOf, drawing))
  <2> DEFINE t == Own(p, plotOf, drawing)
             s == [d \in 1..n |-> 0]
  <2>1. /\ t \in [1..n -> Nat]
        /\ \A d \in 1..n : t[d] = IF plotOf[d] = p THEN drawing[d] ELSE 0
    <3>1. plotOf \in [Monitored -> Monitored] /\ drawing \in [Monitored -> Nat]
      BY <1>1, <1>2
    <3> QED
      BY <3>1, OwnIs DEF n
  <2>2. s \in [1..n -> Nat] /\ \A d \in 1..n : s[d] = 0
    OBVIOUS
  <2> HIDE DEF t, s
  <2>3. \A d \in (1..n) \ {p} : t[d] = s[d]
    BY <1>1, <1>2, <2>1, <2>2
  <2>4. t[p] = drawing[p] /\ p \in 1..n /\ s[p] = 0
    BY <1>1, <1>2, <2>1, <2>2
  <2>5. Total(t) + s[p] = Total(s) + t[p]
    <3>1. n \in Nat /\ p \in 1..n /\ s \in [1..n -> Nat] /\ t \in [1..n -> Nat]
      BY <1>2, <2>1, <2>2, <2>4
    <3> QED
      BY <2>3, <3>1, TotalChanged
  <2>6. Total(s) = 0 /\ Total(t) \in Nat
    BY <1>2, <2>1, <2>2, TotalOfNone, TotalNat
  <2>7. drawing[p] \in Nat
    BY <1>2
  <2> QED
    BY <2>4, <2>5, <2>6, <2>7 DEF t
<1>4. \A d \in Monitored : d \in Int
  BY <1>2
<1>5. \A d, e \in Monitored : d < e => plotOf[d] <= plotOf[e]
  BY <1>1, <1>4
<1> QED
  BY <1>1, <1>3, <1>5 DEF Grouped, plotOf

LEMMA MergedIsGrouped ==
  ASSUME NEW drawing \in [Monitored -> Nat], NEW plotOf, NEW metrics,
         Grouped(plotOf, metrics, drawing),
         NEW i, NEW j, <<i, j>> \in Neighbours(metrics)
  PROVE  Grouped([d \in Monitored |-> IF plotOf[d] = plotOf[j] THEN plotOf[i] ELSE plotOf[d]],
                 [metrics EXCEPT ![i] = metrics[i] + metrics[j], ![j] = 0], drawing)
<1> DEFINE after == [d \in Monitored |-> IF plotOf[d] = plotOf[j] THEN plotOf[i] ELSE plotOf[d]]
           merged == [metrics EXCEPT ![i] = metrics[i] + metrics[j], ![j] = 0]
           n == devices_count
<1>1. n \in Nat /\ LinesPerPlot \in Nat /\ Monitored = 1..n
  BY LayoutAssumption DEF Monitored
<1>2. /\ plotOf \in [Monitored -> Monitored] /\ metrics \in [Monitored -> 0..LinesPerPlot]
      /\ \A p \in Monitored : metrics[p] = Total(Own(p, plotOf, drawing))
      /\ \A p \in Monitored : metrics[p] > 0 => plotOf[p] = p
      /\ \A d \in Monitored : drawing[d] > 0 => metrics[plotOf[d]] > 0
      /\ \A d, e \in Monitored : drawing[d] > 0 /\ drawing[e] > 0 /\ d < e => plotOf[d] <= plotOf[e]
  BY DEF Grouped
<1>3. /\ i \in Monitored /\ j \in Monitored /\ i < j /\ metrics[i] > 0 /\ metrics[j] > 0
      /\ \A k \in (i + 1)..(j - 1) : metrics[k] = 0
      /\ metrics[i] + metrics[j] <= LinesPerPlot
  BY DEF Neighbours
<1>4. plotOf[i] = i /\ plotOf[j] = j
  BY <1>2, <1>3
<1>5. /\ after \in [Monitored -> Monitored]
      /\ \A d \in Monitored : after[d] = IF plotOf[d] = j THEN i ELSE plotOf[d]
  BY <1>2, <1>3, <1>4
<1>6. i \in Int /\ j \in Int /\ i # j /\ metrics[i] \in Nat /\ metrics[j] \in Nat
  BY <1>1, <1>2, <1>3
<1>7. /\ merged \in [Monitored -> 0..LinesPerPlot]
      /\ merged[i] = metrics[i] + metrics[j] /\ merged[j] = 0
      /\ \A p \in Monitored : p # i /\ p # j => merged[p] = metrics[p]
  <2>1. metrics[i] + metrics[j] \in 0..LinesPerPlot /\ 0 \in 0..LinesPerPlot
    BY <1>1, <1>3, <1>6
  <2> QED
    BY <1>2, <1>3, <1>6, <2>1
<1> HIDE DEF after, merged, n
<1>8. ASSUME NEW p \in Monitored
      PROVE  merged[p] = Total(Own(p, after, drawing))
  <2> DEFINE u == Own(p, after, drawing)
             s == Own(i, plotOf, drawing)
             t == Own(j, plotOf, drawing)
  <2>0. plotOf \in [Monitored -> Monitored]
    BY <1>2
  <2>1. /\ u \in [1..n -> Nat]
        /\ \A d \in 1..n : u[d] = IF after[d] = p THEN drawing[d] ELSE 0
    BY <1>5, OwnIs DEF n
  <2>2. /\ s \in [1..n -> Nat]
        /\ \A d \in 1..n : s[d] = IF plotOf[d] = i THEN drawing[d] ELSE 0
    BY <2>0, OwnIs DEF n
  <2>3. /\ t \in [1..n -> Nat]
        /\ \A d \in 1..n : t[d] = IF plotOf[d] = j THEN drawing[d] ELSE 0
    BY <2>0, OwnIs DEF n
  <2>4. metrics[i] = Total(s) /\ metrics[j] = Total(t)
    BY <1>2, <1>3
  <2> HIDE DEF u, s, t
  <2>5. CASE p = i
    <3>1. PICK a \in Nat : a = 1
      OBVIOUS
    <3>2. \A d \in 1..n : drawing[d] \in Nat
      BY <1>1
    <3>3. \A d \in 1..n : u[d] = a * s[d] + a * t[d]
      <4> SUFFICES ASSUME NEW d \in 1..n
                   PROVE  u[d] = a * s[d] + a * t[d]
        OBVIOUS
      <4>1. d \in Monitored /\ drawing[d] \in Nat
        BY <1>1, <3>2
      <4>2. u[d] = IF after[d] = i THEN drawing[d] ELSE 0
        BY <2>1, <2>5
      <4>3. after[d] = i <=> plotOf[d] = i \/ plotOf[d] = j
        BY <1>5, <4>1
      <4>4. /\ s[d] = IF plotOf[d] = i THEN drawing[d] ELSE 0
            /\ t[d] = IF plotOf[d] = j THEN drawing[d] ELSE 0
        BY <2>2, <2>3
      <4>5. CASE plotOf[d] = i
        BY <1>6, <3>1, <4>1, <4>2, <4>3, <4>4, <4>5
      <4>6. CASE plotOf[d] # i
        BY <1>6, <3>1, <4>1, <4>2, <4>3, <4>4, <4>6
      <4> QED
        BY <4>5, <4>6
    <3>4. Total(u) = a * Total(s) + a * Total(t)
      <4>1. n \in Nat /\ u \in [1..n -> Nat] /\ s \in [1..n -> Nat] /\ t \in [1..n -> Nat]
        BY <1>1, <2>1, <2>2, <2>3
      <4>2. Combined(n, u, a, s, a, t)
        BY <3>3, <4>1, TotalCombined
      <4> QED
        BY <4>2, Zenon DEF Combined
    <3> QED
      BY <1>6, <1>7, <2>4, <2>5, <3>1, <3>4 DEF u
  <2>6. CASE p = j
    <3>1. \A d \in 1..n : u[d] = 0
      BY <1>1, <1>5, <1>6, <2>1, <2>6
    <3>2. Total(u) = 0
      BY <1>1, <2>1, <3>1, TotalOfNone
    <3> QED
      BY <1>7, <2>6, <3>2 DEF u
  <2>7. CASE p # i /\ p # j
    <3>1. \A d \in Monitored : after[d] = p <=> plotOf[d] = p
      BY <1>5, <2>7
    <3>2. u = Own(p, plotOf, drawing)
      BY <3>1, Zenon DEF Own, u
    <3> QED
      BY <1>2, <1>7, <2>7, <3>2 DEF u
  <2> QED
    BY <2>5, <2>6, <2>7
<1>9. ASSUME NEW p \in Monitored, merged[p] > 0
      PROVE  after[p] = p
  <2>1. p # j
    BY <1>7, <1>9
  <2>2. p = i \/ metrics[p] > 0
    BY <1>7, <1>9, <2>1
  <2>3. plotOf[p] = p
    BY <1>2, <1>4, <2>2
  <2> QED
    BY <1>5, <2>1, <2>3
<1>10. ASSUME NEW d \in Monitored, drawing[d] > 0
       PROVE  merged[after[d]] > 0
  <2>1. metrics[plotOf[d]] > 0 /\ plotOf[d] \in Monitored
    BY <1>2, <1>10
  <2>2. merged[i] > 0
    BY <1>3, <1>6, <1>7
  <2> QED
    BY <1>5, <1>7, <2>1, <2>2
<1>11. ASSUME NEW d \in Monitored, NEW e \in Monitored, drawing[d] > 0, drawing[e] > 0, d < e
       PROVE  after[d] <= after[e]
  <2>1. /\ plotOf[d] <= plotOf[e] /\ plotOf[d] \in Int /\ plotOf[e] \in Int
        /\ metrics[plotOf[d]] > 0
    BY <1>1, <1>2, <1>11
  <2>2. ~(i < plotOf[d] /\ plotOf[d] < j)
    <3>1. SUFFICES ASSUME i < plotOf[d], plotOf[d] < j
                   PROVE  FALSE
      OBVIOUS
    <3>2. plotOf[d] \in (i + 1)..(j - 1)
      BY <1>6, <2>1, <3>1
    <3>3. metrics[plotOf[d]] = 0
      BY <1>3, <3>2
    <3> QED
      BY <2>1, <3>3
  <2> QED
    BY <1>3, <1>5, <1>6, <2>1, <2>2
<1> QED
  <2>1. /\ after \in [Monitored -> Monitored] /\ merged \in [Monitored -> 0..LinesPerPlot]
        /\ \A p \in Monitored : merged[p] = Total(Own(p, after, drawing))
        /\ \A p \in Monitored : merged[p] > 0 => after[p] = p
        /\ \A d \in Monitored : drawing[d] > 0 => merged[after[d]] > 0
        /\ \A d, e \in Monitored : drawing[d] > 0 /\ drawing[e] > 0 /\ d < e => after[d] <= after[e]
    BY <1>5, <1>7, <1>8, <1>9, <1>10, <1>11
  <2> QED
    BY <2>1, Zenon DEF Grouped, after, merged

LEMMA PackedIs ==
  ASSUME NEW metrics \in [Monitored -> 0..LinesPerPlot]
  PROVE  /\ Cardinality(Drawn(metrics)) \in Nat
         /\ Packed(metrics) \in [1..Cardinality(Drawn(metrics)) -> 1..LinesPerPlot]
<1> DEFINE n == Cardinality(Drawn(metrics))
<1>1. metrics \in [Monitored -> Nat] /\ LinesPerPlot \in Nat
  BY LayoutAssumption
<1>2. n \in Nat /\ \A k \in 1..n : Nth(k, metrics) \in Drawn(metrics)
  BY <1>1, DrawnIs
<1>3. \A p \in Drawn(metrics) : metrics[p] \in 1..LinesPerPlot
  BY <1>1 DEF Drawn
<1> HIDE DEF n
<1>4. \A k \in 1..n : metrics[Nth(k, metrics)] \in 1..LinesPerPlot
  BY <1>2, <1>3, Zenon
<1>5. Packed(metrics) = [k \in 1..n |-> metrics[Nth(k, metrics)]]
  BY Zenon DEF Packed, n
<1> QED
  BY <1>2, <1>4, <1>5 DEF n

SearchState == [metrics : [Monitored -> 0..LinesPerPlot], plotOf : [Monitored -> Monitored],
                rows : Nat, cols : Nat, stacks : Nat, stackOf : Seq(Nat), done : BOOLEAN]

\* Without stacks there are no plots, otherwise stacks with rows enough and
\* columns enough.
HasPlaces(stacks, stackOf, metrics, rows, cols) ==
  /\ stacks = 0 => stackOf = << >>
  /\ stacks > 0 => /\ stacks * 7 <= rows
                   /\ Fits(stackOf, Cardinality(Drawn(metrics)), stacks, cols, Packed(metrics))

Pending(c, rows) == rows >= 7 /\ c.stacks = 0

Searched(c, drawing, rows, cols) ==
  /\ c \in SearchState /\ c.rows = rows /\ c.cols = cols
  /\ Grouped(c.plotOf, c.metrics, drawing)
  /\ c.done \/ Pending(c, rows)
  /\ HasPlaces(c.stacks, c.stackOf, c.metrics, rows, cols)

LEMMA SearchIs ==
  ASSUME NEW drawing \in [Monitored -> Nat], NEW rows \in Nat, NEW cols \in Nat, NEW round,
         NEW c, Searched(c, drawing, rows, cols)
  PROVE  Searched(Search(c, round), drawing, rows, cols)
<1> DEFINE n == Cardinality(Drawn(c.metrics))
           plots == Packed(c.metrics)
           attempt == Attempt(plots, c.rows, c.cols)
           pair == WhoToMerge(c.metrics)
           r == Search(c, round)
<1>1. c \in SearchState /\ c.rows = rows /\ c.cols = cols
  BY Zenon DEF Searched
<1>2. Grouped(c.plotOf, c.metrics, drawing)
  BY Zenon DEF Searched
<1>3. c.metrics \in [Monitored -> 0..LinesPerPlot]
  BY <1>1 DEF SearchState
<1>4. CASE c.done
  <2>1. r = c
    BY <1>4, Zenon DEF Search
  <2> QED
    BY <2>1
<1>5. CASE ~c.done
  <2>1. rows >= 7 /\ c.stacks = 0
    BY <1>5, Zenon DEF Searched, Pending
  <2>2. Placed(attempt, n, plots, rows, cols)
    <3>1. n \in Nat /\ plots \in [1..n -> 1..LinesPerPlot]
      BY <1>3, PackedIs
    <3> HIDE DEF n, plots
    <3>2. plots \in [1..n -> Nat]
      BY <3>1
    <3>3. Placed(Attempt(plots, rows, cols), n, plots, rows, cols)
      BY <2>1, <3>1, <3>2, AttemptIs
    <3> QED
      BY <1>1, <3>3, Zenon
  <2>3. c.stackOf = << >>
    <3>1. HasPlaces(c.stacks, c.stackOf, c.metrics, rows, cols)
      BY Zenon DEF Searched
    <3> QED
      BY <2>1, <3>1 DEF HasPlaces
  <2>4. CASE attempt.verdict = "placed"
    <3>1. r = [c EXCEPT !.done = TRUE, !.stacks = attempt.stacks, !.stackOf = attempt.stackOf]
      BY <1>5, <2>4, Zenon DEF Search
    <3> HIDE DEF attempt, r
    <3>2. /\ attempt.stacks \in Nat /\ attempt.stackOf \in Seq(Nat) /\ attempt.stacks > 0
          /\ attempt.left \in Nat /\ attempt.stacks * 7 + attempt.left = rows
          /\ Fits(attempt.stackOf, n, attempt.stacks, cols, plots)
      BY <2>2, <2>4 DEF Placed, PlaceState
    <3>3. attempt.stacks * 7 <= rows
      BY <3>2
    <3>4. /\ r \in SearchState /\ r.rows = c.rows /\ r.cols = c.cols /\ r.metrics = c.metrics
          /\ r.plotOf = c.plotOf /\ r.stacks = attempt.stacks /\ r.stackOf = attempt.stackOf
      BY <1>1, <3>1, <3>2 DEF SearchState
    <3>5. r.done
      BY <1>1, <3>1 DEF SearchState
    <3>6. HasPlaces(attempt.stacks, attempt.stackOf, c.metrics, rows, cols)
      BY <3>2, <3>3 DEF HasPlaces
    <3> QED
      BY <1>1, <1>2, <3>4, <3>5, <3>6, Zenon DEF Searched, r
  <2>5. CASE attempt.verdict # "placed" /\ attempt.verdict = "full" /\ Neighbours(c.metrics) # {}
    <3> DEFINE i == pair[1]
               j == pair[2]
               merged == [c.metrics EXCEPT ![i] = c.metrics[i] + c.metrics[j], ![j] = 0]
               after == [d \in Monitored |->
                           IF c.plotOf[d] = c.plotOf[j] THEN c.plotOf[i] ELSE c.plotOf[d]]
    <3>1. r = [c EXCEPT !.metrics = merged, !.plotOf = after]
      <4>1. r = Merge(c, i, j)
        BY <1>5, <2>5, Zenon DEF Search
      <4>2. Merge(c, i, j) = [c EXCEPT !.metrics = merged, !.plotOf = after]
        BY Zenon DEF Merge
      <4> QED
        BY <4>1, <4>2, Zenon
    <3>2. <<i, j>> \in Neighbours(c.metrics)
      <4>1. c.metrics \in [Monitored -> Nat]
        BY <1>3, LayoutAssumption
      <4>2. pair \in Neighbours(c.metrics)
        BY <2>5, <4>1, WhoToMergeIs
      <4>3. \A q \in Neighbours(c.metrics) : q = <<q[1], q[2]>>
        BY DEF Neighbours
      <4> HIDE DEF pair
      <4> QED
        BY <4>2, <4>3
    <3>3. Grouped(after, merged, drawing)
      <4> HIDE DEF pair
      <4> QED
        BY <1>2, <3>2, MergedIsGrouped
    <3> HIDE DEF r, merged, after
    <3>4. merged \in [Monitored -> 0..LinesPerPlot] /\ after \in [Monitored -> Monitored]
      BY <3>3 DEF Grouped
    <3>5. /\ r \in SearchState /\ r.rows = c.rows /\ r.cols = c.cols /\ r.metrics = merged
          /\ r.plotOf = after /\ r.stacks = c.stacks /\ r.stackOf = c.stackOf
      BY <1>1, <3>1, <3>4 DEF SearchState
    <3>6. HasPlaces(r.stacks, r.stackOf, r.metrics, rows, cols)
      BY <2>1, <2>3, <3>5 DEF HasPlaces
    <3>7. Pending(r, rows)
      BY <2>1, <3>5 DEF Pending
    <3> QED
      BY <1>1, <3>3, <3>5, <3>6, <3>7, Zenon DEF Searched, r
  <2>6. CASE attempt.verdict # "placed" /\ ~(attempt.verdict = "full" /\ Neighbours(c.metrics) # {})
    <3>1. r = [c EXCEPT !.done = TRUE]
      BY <1>5, <2>6, Zenon DEF Search
    <3> HIDE DEF r
    <3>2. /\ r \in SearchState /\ r.rows = c.rows /\ r.cols = c.cols /\ r.metrics = c.metrics
          /\ r.plotOf = c.plotOf /\ r.stacks = c.stacks /\ r.stackOf = c.stackOf
      BY <1>1, <3>1 DEF SearchState
    <3>3. r.done
      BY <1>1, <3>1 DEF SearchState
    <3>4. HasPlaces(r.stacks, r.stackOf, r.metrics, rows, cols)
      BY <2>1, <2>3, <3>2 DEF HasPlaces
    <3> QED
      BY <1>1, <1>2, <3>2, <3>3, <3>4, Zenon DEF Searched, r
  <2> QED
    BY <2>4, <2>5, <2>6
<1> QED
  BY <1>4, <1>5

\* The search, started with a plot for every device.
Start(rows, cols, metrics) ==
  [metrics |-> metrics, plotOf |-> [d \in Monitored |-> d], rows |-> rows,
   cols |-> cols, stacks |-> 0, stackOf |-> <<>>,
   done |-> rows < MinPlotRows \/ \A d \in Monitored : metrics[d] = 0]

Found(rows, cols, metrics) ==
  FoldLeft(Search, Start(rows, cols, metrics), [i \in Monitored |-> i])

LEMMA FoundIs ==
  ASSUME NEW rows \in Nat, NEW cols \in Nat, NEW drawing \in [Monitored -> 0..LinesPerPlot]
  PROVE  Searched(Found(rows, cols, drawing), drawing, rows, cols)
<1> DEFINE rounds == [i \in Monitored |-> i]
           start == Start(rows, cols, drawing)
           n == devices_count
<1>1. n \in Nat /\ DOMAIN rounds = 1..n /\ drawing \in [Monitored -> Nat]
  BY LayoutAssumption DEF Monitored
<1>2. Found(rows, cols, drawing) = SearchLoop!Fold(start, rounds)
  BY Zenon DEF Found, FoldLeft, MapThenFoldSet, Max, SearchLoop!Fold
<1>3. Searched(start, drawing, rows, cols)
  <2> DEFINE plotOf == [d \in Monitored |-> d]
             done == rows < MinPlotRows \/ \A d \in Monitored : drawing[d] = 0
  <2>1. start = [metrics |-> drawing, plotOf |-> plotOf, rows |-> rows, cols |-> cols,
                 stacks |-> 0, stackOf |-> <<>>, done |-> done]
    BY Zenon DEF Start
  <2>2. Grouped(plotOf, drawing, drawing)
    BY StartIsGrouped
  <2>3. plotOf \in [Monitored -> Monitored] /\ <<>> \in Seq(Nat) /\ 0 \in Nat
    OBVIOUS
  <2>4. done \in BOOLEAN /\ (done \/ rows >= 7)
    BY DEF MinPlotRows
  <2> HIDE DEF plotOf, done, start
  <2>5. /\ start.rows = rows /\ start.cols = cols /\ start.stacks = 0 /\ start.stackOf = <<>>
        /\ start.metrics = drawing /\ start.plotOf = plotOf /\ start.done = done
    BY <2>1
  <2>6. start \in SearchState
    BY <2>1, <2>3, <2>4, Zenon DEF SearchState
  <2>7. HasPlaces(start.stacks, start.stackOf, start.metrics, rows, cols)
    BY <2>5 DEF HasPlaces
  <2>8. start.done \/ Pending(start, rows)
    BY <2>4, <2>5, Zenon DEF Pending
  <2> QED
    BY <2>2, <2>5, <2>6, <2>7, <2>8, Zenon DEF Searched
<1> HIDE DEF rounds, start, n
<1>4. PICK f : /\ f[0] = start
               /\ \A k \in 1..n : f[k] = Search(f[k - 1], rounds[k])
               /\ f[n] = SearchLoop!Fold(start, rounds)
  BY <1>1, SearchLoop!Steps
<1> DEFINE T == {k \in Nat : k <= n => Searched(f[k], drawing, rows, cols)}
<1>5. 0 \in T
  BY <1>3, <1>4
<1>6. \A k \in 0..(n - 1) : k \in T => k + 1 \in T
  <2> SUFFICES ASSUME NEW k \in 0..(n - 1), k \in T
               PROVE  k + 1 \in T
    OBVIOUS
  <2>1. k + 1 \in 1..n /\ (k + 1) - 1 = k /\ k + 1 \in Nat /\ k <= n
    BY <1>1
  <2>2. f[k + 1] = Search(f[k], rounds[k + 1])
    BY <1>4, <2>1
  <2>3. Searched(f[k], drawing, rows, cols)
    BY <2>1
  <2>4. Searched(Search(f[k], rounds[k + 1]), drawing, rows, cols)
    BY <1>1, <2>3, SearchIs
  <2> QED
    BY <2>1, <2>2, <2>4
<1>7. n \in T
  <2> HIDE DEF T
  <2> QED
    BY <1>1, <1>5, <1>6, Along
<1> QED
  BY <1>1, <1>2, <1>4, <1>7

\* The n plots on the stacks have places, and every device that draws is in one
\* of them.
Chosen(first, n, rows, cols, drawing) ==
  /\ first.stacks * 7 <= rows
  /\ first.metrics \in [1..n -> 1..LinesPerPlot]
  /\ Fits(first.stackOf, n, first.stacks, cols, first.metrics)
  /\ \A k \in 1..n : first.metrics[k] = Total(Own(k, first.plotOf, drawing))
  /\ \A d \in Monitored : drawing[d] > 0 => first.plotOf[d] \in 1..n
  /\ \A d, e \in Monitored : drawing[d] > 0 /\ drawing[e] > 0 /\ d < e =>
       first.plotOf[d] <= first.plotOf[e]

IsPositioned(first, rows, cols, drawing) ==
  /\ first.stacks \in Nat /\ Len(first.stackOf) \in Nat
  /\ first.plotOf \in [Monitored -> Nat]
  /\ first.stacks = 0 => first.stackOf = << >>
  /\ first.stacks > 0 => Chosen(first, Len(first.stackOf), rows, cols, drawing)

LEMMA CompactIs ==
  ASSUME NEW rows \in Nat, NEW cols \in Nat, NEW drawing \in [Monitored -> 0..LinesPerPlot],
         NEW c, Searched(c, drawing, rows, cols), c.stacks > 0
  PROVE  IsPositioned(Compact(c), rows, cols, drawing)
<1> DEFINE n == Cardinality(Drawn(c.metrics))
           metrics == Packed(c.metrics)
           plotOf == [d \in Monitored |->
                        IF c.metrics[c.plotOf[d]] = 0 THEN c.plotOf[d]
                        ELSE Preceding(c.plotOf[d], c.metrics) + 1]
           r == Compact(c)
<1>0. LinesPerPlot \in Nat /\ devices_count \in Nat
  BY LayoutAssumption
<1>1. /\ c \in SearchState /\ Grouped(c.plotOf, c.metrics, drawing)
      /\ HasPlaces(c.stacks, c.stackOf, c.metrics, rows, cols)
  BY Zenon DEF Searched
<1>2. /\ c.metrics \in [Monitored -> 0..LinesPerPlot] /\ c.plotOf \in [Monitored -> Monitored]
      /\ c.stacks \in Nat /\ c.stackOf \in Seq(Nat)
  BY <1>1 DEF SearchState
<1>3. c.stacks * 7 <= rows /\ Fits(c.stackOf, n, c.stacks, cols, metrics)
  BY <1>1 DEF HasPlaces
<1>4. n \in Nat /\ metrics \in [1..n -> 1..LinesPerPlot]
  BY <1>2, PackedIs
<1>5. c.metrics \in [Monitored -> Nat]
  BY <1>0, <1>2
<1>6. /\ \A p \in Monitored : c.metrics[p] > 0 =>
            Preceding(p, c.metrics) \in 0..(n - 1)
      /\ \A p, q \in Monitored : c.metrics[p] > 0 /\ c.metrics[q] > 0 =>
            /\ Preceding(p, c.metrics) = Preceding(q, c.metrics) => p = q
            /\ p <= q => Preceding(p, c.metrics) <= Preceding(q, c.metrics)
      /\ \A k \in 1..n : /\ Nth(k, c.metrics) \in Monitored /\ c.metrics[Nth(k, c.metrics)] > 0
                         /\ Preceding(Nth(k, c.metrics), c.metrics) = k - 1
  <2>1. \A p : p \in Drawn(c.metrics) <=> p \in Monitored /\ c.metrics[p] > 0
    BY Zenon DEF Drawn
  <2> QED
    BY <1>5, <2>1, DrawnIs
<1>7. Len(c.stackOf) = n
  BY <1>2, <1>3, <1>4 DEF Fits
<1>8. r = [c EXCEPT !.metrics = metrics, !.plotOf = plotOf]
  BY Zenon DEF Compact
<1>9. \A d \in Monitored : c.plotOf[d] \in Monitored /\ (drawing[d] > 0 => c.metrics[c.plotOf[d]] > 0)
  BY <1>1, <1>2 DEF Grouped
<1>10. \A d \in Monitored : /\ c.plotOf[d] \in Nat
                            /\ c.metrics[c.plotOf[d]] = 0 \/ c.metrics[c.plotOf[d]] > 0
  <2>1. \A p \in Monitored : p \in Nat /\ (c.metrics[p] = 0 \/ c.metrics[p] > 0)
    BY <1>0, <1>5 DEF Monitored
  <2> QED
    BY <1>9, <2>1
<1>11. /\ plotOf \in [Monitored -> Nat]
       /\ \A d \in Monitored : plotOf[d] = IF c.metrics[c.plotOf[d]] = 0 THEN c.plotOf[d]
                                           ELSE Preceding(c.plotOf[d], c.metrics) + 1
  <2>1. \A d \in Monitored : c.metrics[c.plotOf[d]] > 0 =>
          Preceding(c.plotOf[d], c.metrics) + 1 \in Nat
    BY <1>4, <1>6, <1>9
  <2> QED
    BY <1>10, <2>1
<1> HIDE DEF n, metrics, plotOf, r
<1>12. \A d \in Monitored : drawing[d] > 0 => plotOf[d] = Preceding(c.plotOf[d], c.metrics) + 1
  BY <1>5, <1>9, <1>11
<1>13. \A d \in Monitored : drawing[d] > 0 => plotOf[d] \in 1..n
  BY <1>4, <1>6, <1>9, <1>12
<1>14. ASSUME NEW d \in Monitored, NEW e \in Monitored, drawing[d] > 0, drawing[e] > 0, d < e
       PROVE  plotOf[d] <= plotOf[e]
  <2>1. c.plotOf[d] <= c.plotOf[e]
    BY <1>1, <1>14 DEF Grouped
  <2>2. Preceding(c.plotOf[d], c.metrics) <= Preceding(c.plotOf[e], c.metrics)
    BY <1>6, <1>9, <1>14, <2>1
  <2>3. /\ Preceding(c.plotOf[d], c.metrics) \in 0..(n - 1)
        /\ Preceding(c.plotOf[e], c.metrics) \in 0..(n - 1)
    BY <1>6, <1>9, <1>14
  <2> QED
    BY <1>4, <1>12, <1>14, <2>2, <2>3
<1>15. ASSUME NEW k \in 1..n
       PROVE  metrics[k] = Total(Own(k, plotOf, drawing))
  <2> DEFINE p == Nth(k, c.metrics)
  <2>1. p \in Monitored /\ c.metrics[p] > 0 /\ Preceding(p, c.metrics) = k - 1
    BY <1>6
  <2>2. metrics[k] = c.metrics[p]
    BY DEF metrics, Packed, n
  <2>3. c.metrics[p] = Total(Own(p, c.plotOf, drawing))
    BY <1>1, <2>1 DEF Grouped
  <2> HIDE DEF p
  <2>4. ASSUME NEW d \in Monitored, drawing[d] > 0
        PROVE  plotOf[d] = k <=> c.plotOf[d] = p
    <3>1. plotOf[d] = Preceding(c.plotOf[d], c.metrics) + 1 /\ c.metrics[c.plotOf[d]] > 0
          /\ c.plotOf[d] \in Monitored
      BY <1>9, <1>12, <2>4
    <3>2. Preceding(c.plotOf[d], c.metrics) \in 0..(n - 1)
      BY <1>6, <3>1
    <3>3. Preceding(c.plotOf[d], c.metrics) = k - 1 <=> c.plotOf[d] = p
      BY <1>6, <2>1, <3>1
    <3> QED
      BY <1>4, <3>1, <3>2, <3>3
  <2>5. \A d \in Monitored : drawing[d] = 0 \/ drawing[d] > 0
    BY <1>0
  <2>6. \A d \in Monitored : (IF plotOf[d] = k THEN drawing[d] ELSE 0)
                               = (IF c.plotOf[d] = p THEN drawing[d] ELSE 0)
    BY <2>4, <2>5, Zenon
  <2>7. Own(k, plotOf, drawing) = Own(p, c.plotOf, drawing)
    BY <2>6 DEF Own
  <2> QED
    BY <2>2, <2>3, <2>7
<1>16. /\ r.stacks = c.stacks /\ r.stackOf = c.stackOf /\ r.metrics = metrics /\ r.plotOf = plotOf
  BY <1>1, <1>8 DEF SearchState
<1>17. Chosen(r, n, rows, cols, drawing)
  BY <1>3, <1>4, <1>13, <1>14, <1>15, <1>16, Zenon DEF Chosen
<1> QED
  BY <1>2, <1>4, <1>7, <1>11, <1>16, <1>17 DEF IsPositioned, r

LEMMA PositionedIs ==
  ASSUME NEW rows \in Nat, NEW cols \in Nat, NEW drawing \in [Monitored -> 0..LinesPerPlot]
  PROVE  IsPositioned(Positioned(rows, cols, drawing), rows, cols, drawing)
<1> DEFINE c == Found(rows, cols, drawing)
<1>1. Positioned(rows, cols, drawing) = IF c.stacks = 0 THEN c ELSE Compact(c)
  BY Zenon DEF Positioned, Found, Start
<1>2. Searched(c, drawing, rows, cols)
  BY FoundIs
<1> HIDE DEF c
<1>3. /\ c \in SearchState /\ HasPlaces(c.stacks, c.stackOf, c.metrics, rows, cols)
  BY <1>2, Zenon DEF Searched
<1>4. /\ c.stacks \in Nat /\ c.stackOf \in Seq(Nat) /\ c.plotOf \in [Monitored -> Nat]
  BY <1>3, LayoutAssumption DEF SearchState, Monitored
<1>5. CASE c.stacks = 0
  <2>1. c.stackOf = << >>
    BY <1>3, <1>5 DEF HasPlaces
  <2> QED
    BY <1>1, <1>4, <1>5, <2>1 DEF IsPositioned
<1>6. CASE c.stacks # 0
  <2>1. c.stacks > 0
    BY <1>4, <1>6
  <2> QED
    BY <1>1, <1>2, <1>6, <2>1, CompactIs
<1> QED
  BY <1>5, <1>6

-----------------------------------------------------------------------------
(* Balancing the stacks.                                                    *)

LEMMA GreatestExists ==
  ASSUME NEW n \in Nat, NEW S \in SUBSET (1..n), S # {}
  PROVE  \E m \in S : \A k \in S : k <= m
<1> DEFINE left == {n - k : k \in S}
<1>1. PICK least \in left : \A other \in left : least <= other
  <2>1. left \in SUBSET Nat /\ left # {}
    <3>1. \A k \in S : n - k \in Nat
      OBVIOUS
    <3>2. \E k \in S : TRUE
      OBVIOUS
    <3> QED
      BY <3>1, <3>2
  <2> HIDE DEF left
  <2> QED
    BY <2>1, LeastExists
<1>2. PICK m \in S : least = n - m
  BY <1>1
<1>3. ASSUME NEW k \in S
      PROVE  k <= m
  <2>1. n - m <= n - k
    BY <1>1, <1>2
  <2> QED
    BY <2>1
<1> QED
  BY <1>3

\* With more stacks than before.
LEMMA FitsMore ==
  ASSUME NEW n \in Nat, NEW metrics, \A p \in 1..n : metrics[p] \in Nat, NEW cols \in Nat,
         NEW few \in Nat, NEW stacks \in Nat, few <= stacks, NEW stackOf,
         Fits(stackOf, n, few, cols, metrics)
  PROVE  Fits(stackOf, n, stacks, cols, metrics)
<1>1. stackOf \in [1..n -> 1..few] /\ \A s \in 1..few : UsedBy(s, stackOf, metrics) <= cols
  BY DEF Fits
<1>2. stackOf \in [1..n -> 1..stacks] /\ stackOf \in [1..n -> Nat]
  BY <1>1
<1>3. ASSUME NEW s \in 1..stacks, s \notin 1..few
      PROVE  UsedBy(s, stackOf, metrics) = 0
  <2>1. \A p \in 1..n : stackOf[p] # s
    BY <1>1, <1>3
  <2> QED
    BY <1>2, <2>1, UsedByNone
<1> QED
  BY <1>1, <1>2, <1>3 DEF Fits

\* A plot that fits into another stack is moved there.
LEMMA MovedFits ==
  ASSUME NEW n \in Nat, NEW metrics, \A p \in 1..n : metrics[p] \in Nat, NEW cols \in Nat,
         NEW stacks \in Nat, NEW stackOf, Fits(stackOf, n, stacks, cols, metrics),
         NEW last \in 1..n, NEW next \in 1..stacks, next # stackOf[last],
         UsedBy(next, stackOf, metrics) + MinPlotCols(metrics[last]) <= cols
  PROVE  Fits([stackOf EXCEPT ![last] = next], n, stacks, cols, metrics)
<1> DEFINE after == [stackOf EXCEPT ![last] = next]
           width == 5 + 10 * metrics[last]
<1>1. stackOf \in [1..n -> 1..stacks] /\ \A s \in 1..stacks : UsedBy(s, stackOf, metrics) <= cols
  BY DEF Fits
<1>2. /\ after \in [1..n -> 1..stacks] /\ after[last] = next
      /\ \A p \in (1..n) \ {last} : after[p] = stackOf[p]
  BY <1>1
<1>3. width \in Nat /\ MinPlotCols(metrics[last]) = width
  BY DEF MinPlotCols, BoxCols
<1> HIDE DEF after
<1>4. stackOf \in [1..n -> Nat] /\ after \in [1..n -> Nat]
  BY <1>1, <1>2
<1>5. ASSUME NEW s \in 1..stacks
      PROVE  UsedBy(s, after, metrics) <= cols
  <2> DEFINE u == ColsOf(s, stackOf, metrics)
             v == ColsOf(s, after, metrics)
  <2>1. /\ u \in [1..n -> Nat] /\ UsedBy(s, stackOf, metrics) = Total(u)
        /\ \A p \in 1..n : u[p] = IF stackOf[p] = s THEN 5 + 10 * metrics[p] ELSE 0
    <3>1. SumOfCols(UsedBy(s, stackOf, metrics), u, n, s, stackOf, metrics)
      BY <1>4, UsedIs
    <3> QED
      BY <3>1, Zenon DEF SumOfCols
  <2>2. /\ v \in [1..n -> Nat] /\ UsedBy(s, after, metrics) = Total(v)
        /\ \A p \in 1..n : v[p] = IF after[p] = s THEN 5 + 10 * metrics[p] ELSE 0
    <3>1. SumOfCols(UsedBy(s, after, metrics), v, n, s, after, metrics)
      BY <1>4, UsedIs
    <3> QED
      BY <3>1, Zenon DEF SumOfCols
  <2> HIDE DEF u, v, width
  <2>3. \A p \in (1..n) \ {last} : v[p] = u[p]
    BY <1>2, <2>1, <2>2
  <2>4. Total(v) + u[last] = Total(u) + v[last]
    <3>1. v \in [1..n -> Nat] /\ u \in [1..n -> Nat]
      BY <2>1, <2>2
    <3> QED
      BY <2>3, <3>1, TotalChanged
  <2>5. Total(u) \in Nat /\ Total(v) \in Nat /\ u[last] \in Nat
    BY <2>1, <2>2, TotalNat
  <2>6. /\ u[last] = (IF stackOf[last] = s THEN width ELSE 0)
        /\ v[last] = (IF next = s THEN width ELSE 0)
    BY <1>2, <2>1, <2>2 DEF width
  <2>7. Total(u) <= cols /\ (s = next => Total(u) + width <= cols)
    BY <1>1, <1>3, <2>1
  <2>8. CASE s = next
    BY <1>3, <2>2, <2>4, <2>5, <2>6, <2>7, <2>8
  <2>9. CASE s # next
    BY <1>3, <2>2, <2>4, <2>5, <2>6, <2>7, <2>9
  <2> QED
    BY <2>8, <2>9
<1> QED
  BY <1>2, <1>5 DEF Fits, after

\* As the balancing goes on the plots 1..n fit.
Balancing(b, n, stacks, cols, metrics) ==
  /\ b = [stackOf |-> b.stackOf, stacks |-> stacks, cols |-> cols, metrics |-> metrics]
  /\ Fits(b.stackOf, n, stacks, cols, metrics)

LEMMA MoveIs ==
  ASSUME NEW n \in Nat, NEW metrics, \A p \in 1..n : metrics[p] \in Nat, NEW cols \in Nat,
         NEW stacks \in Nat, NEW round, NEW b, Balancing(b, n, stacks, cols, metrics)
  PROVE  Balancing(Move(b, round), n, stacks, cols, metrics)
<1> DEFINE movable == Movable(b)
           last == CHOOSE p \in movable : \A q \in movable : q <= p
           stackOf == b.stackOf
           next == stackOf[last] + 1
           after == [stackOf EXCEPT ![last] = next]
           r == Move(b, round)
<1>1. /\ b = [stackOf |-> stackOf, stacks |-> stacks, cols |-> cols, metrics |-> metrics]
      /\ Fits(stackOf, n, stacks, cols, metrics)
  BY Zenon DEF Balancing
<1>2. b.stacks = stacks /\ b.cols = cols /\ b.metrics = metrics
  BY <1>1
<1>3. stackOf \in [1..n -> 1..stacks]
  BY <1>1 DEF Fits
<1>4. CASE movable = {}
  <2>1. r = b
    BY <1>4, Zenon DEF Move
  <2> QED
    BY <2>1
<1>5. CASE movable # {}
  <2>1. r = [b EXCEPT !.stackOf = after]
    BY <1>5, Zenon DEF Move
  <2>2. /\ movable \subseteq 1..n
        /\ \A p \in movable : /\ stackOf[p] + 1 <= Least(stacks, Len(stackOf))
                              /\ UsedBy(stackOf[p] + 1, stackOf, metrics) + MinPlotCols(metrics[p]) <= cols
    <3>1. DOMAIN stackOf = 1..n
      BY <1>3
    <3> QED
      BY <1>2, <3>1, Zenon DEF Movable
  <2>3. Len(stackOf) = n
    BY <1>3
  <2>4. last \in movable
    <3>1. movable \in SUBSET (1..n)
      BY <2>2
    <3>2. \E p \in movable : \A q \in movable : q <= p
      <4> HIDE DEF movable
      <4> QED
        BY <1>5, <3>1, GreatestExists
    <3> QED
      BY <3>2, Zenon
  <2> HIDE DEF last, movable
  <2>5. /\ last \in 1..n /\ next <= Least(stacks, n)
        /\ UsedBy(next, stackOf, metrics) + MinPlotCols(metrics[last]) <= cols
    BY <2>2, <2>3, <2>4
  <2>6. next \in 1..stacks /\ next # stackOf[last]
    <3>1. stackOf[last] \in 1..stacks
      BY <1>3, <2>5
    <3>2. Least(stacks, n) <= stacks /\ Least(stacks, n) \in Nat
      BY DEF Least
    <3>3. next <= Least(stacks, n)
      BY <2>5
    <3> QED
      BY <3>1, <3>2, <3>3
  <2> HIDE DEF next
  <2>7. Fits(after, n, stacks, cols, metrics)
    BY <1>1, <2>5, <2>6, MovedFits
  <2> HIDE DEF after, r
  <2>8. r = [stackOf |-> after, stacks |-> stacks, cols |-> cols, metrics |-> metrics]
    BY <1>1, <2>1
  <2>9. r.stackOf = after
    BY <2>8
  <2> QED
    BY <2>7, <2>8, <2>9, Zenon DEF Balancing, r
<1> QED
  BY <1>4, <1>5

LEMMA BalancedIs ==
  ASSUME NEW n \in Nat, NEW metrics, \A p \in 1..n : metrics[p] \in Nat, NEW cols \in Nat,
         NEW stacks \in Nat, NEW stackOf, Fits(stackOf, n, stacks, cols, metrics)
  PROVE  Fits(Balanced(stackOf, stacks, cols, metrics), n, stacks, cols, metrics)
<1> DEFINE start == [stackOf |-> stackOf, stacks |-> stacks, cols |-> cols, metrics |-> metrics]
           m == Len(stackOf) * stacks
           rounds == [i \in 1..m |-> i]
<1>1. m \in Nat /\ DOMAIN rounds = 1..m
  <2>1. Len(stackOf) = n
    BY DEF Fits
  <2> QED
    BY <2>1
<1>2. Balanced(stackOf, stacks, cols, metrics) = MoveLoop!Fold(start, rounds).stackOf
  BY Zenon DEF Balanced, FoldLeft, MapThenFoldSet, Max, MoveLoop!Fold
<1>3. Balancing(start, n, stacks, cols, metrics)
  <2>1. start.stackOf = stackOf
    OBVIOUS
  <2> QED
    BY <2>1, Zenon DEF Balancing
<1> HIDE DEF rounds, start, m
<1>4. PICK f : /\ f[0] = start
               /\ \A k \in 1..m : f[k] = Move(f[k - 1], rounds[k])
               /\ f[m] = MoveLoop!Fold(start, rounds)
  BY <1>1, MoveLoop!Steps
<1> DEFINE T == {k \in Nat : k <= m => Balancing(f[k], n, stacks, cols, metrics)}
<1>5. 0 \in T
  BY <1>3, <1>4
<1>6. \A k \in 0..(m - 1) : k \in T => k + 1 \in T
  <2> SUFFICES ASSUME NEW k \in 0..(m - 1), k \in T
               PROVE  k + 1 \in T
    OBVIOUS
  <2>1. k + 1 \in 1..m /\ (k + 1) - 1 = k /\ k + 1 \in Nat /\ k <= m
    BY <1>1
  <2>2. f[k + 1] = Move(f[k], rounds[k + 1])
    BY <1>4, <2>1
  <2>3. Balancing(f[k], n, stacks, cols, metrics)
    BY <2>1
  <2>4. Balancing(Move(f[k], rounds[k + 1]), n, stacks, cols, metrics)
    BY <2>3, MoveIs
  <2> QED
    BY <2>1, <2>2, <2>4
<1>7. m \in T
  <2> HIDE DEF T
  <2> QED
    BY <1>1, <1>5, <1>6, Along
<1>8. Balancing(MoveLoop!Fold(start, rounds), n, stacks, cols, metrics)
  BY <1>1, <1>4, <1>7
<1> QED
  BY <1>2, <1>8, Zenon DEF Balancing

-----------------------------------------------------------------------------
(* The rows of the screen.                                                  *)

LEMMA Division ==
  ASSUME NEW a \in Nat, NEW b \in Nat \ {0}
  PROVE  /\ a \div b \in Nat /\ a % b \in 0..(b - 1) /\ a % b = a - b * (a \div b)
         /\ b * (a \div b) <= a /\ a < b * ((a \div b) + 1)
<1>1. a \div b \in Nat
  OBVIOUS
<1>2. a % b \in 0..(b - 1)
  OBVIOUS
<1>3. a % b = a - b * (a \div b)
  OBVIOUS
<1>4. b * (a \div b) <= a
  OBVIOUS
<1>5. a < b * ((a \div b) + 1)
  OBVIOUS
<1> QED
  BY <1>1, <1>2, <1>3, <1>4, <1>5

\* Rows of headers for all devices.
IsLine(line) ==
  /\ line.perRow \in Nat \ {0} /\ line.stacks \in Nat \ {0}
  /\ devices_count <= line.perRow * line.stacks

LEMMA PerRowIs ==
  ASSUME NEW cols \in Nat
  PROVE  IsLine(PerRow(cols))
<1> DEFINE n == devices_count
           fit == Most(1, cols \div HeaderCols)
           stacks == (n + fit - 1) \div fit
           perRow == IF n % stacks = 0 THEN n \div stacks ELSE fit
           line == PerRow(cols)
<1>1. n \in Nat \ {0} /\ HeaderCols \in Nat \ {0}
  BY LayoutAssumption
<1>2. fit \in Nat \ {0}
  <2>1. cols \div HeaderCols \in Nat
    BY <1>1, Division
  <2> QED
    BY <2>1 DEF Most
<1>3. line = [perRow |-> perRow, stacks |-> stacks]
  BY Zenon DEF PerRow
<1> HIDE DEF n, fit
<1>4. stacks \in Nat /\ fit * stacks <= n + fit - 1 /\ n + fit - 1 < fit * (stacks + 1)
  <2>1. n + fit - 1 \in Nat
    BY <1>1, <1>2
  <2> DEFINE a == n + fit - 1
  <2> HIDE DEF a
  <2>2. a \div fit \in Nat /\ fit * (a \div fit) <= a /\ a < fit * ((a \div fit) + 1)
    BY <1>2, <2>1, Division DEF a
  <2> QED
    BY <2>2 DEF a
<1> HIDE DEF stacks
<1>5. n <= fit * stacks
  <2>1. fit * (stacks + 1) = fit * stacks + fit
    BY <1>2, <1>4
  <2>2. fit * stacks \in Nat
    BY <1>2, <1>4
  <2> HIDE DEF stacks
  <2> QED
    BY <1>1, <1>2, <1>4, <2>1, <2>2
<1>6. stacks \in Nat \ {0}
  <2>1. stacks # 0
    BY <1>1, <1>2, <1>4, <1>5
  <2> QED
    BY <1>4, <2>1
<1>7. perRow \in Nat \ {0} /\ n <= perRow * stacks
  <2>1. CASE n % stacks = 0
    <3> DEFINE q == n \div stacks
    <3>1. q \in Nat /\ n % stacks = n - stacks * q
      BY <1>1, <1>6, Division
    <3> HIDE DEF q
    <3>2. stacks * q \in Nat /\ stacks * q = q * stacks
      BY <1>6, <3>1
    <3>3. n = q * stacks
      BY <1>1, <2>1, <3>1, <3>2
    <3>4. q # 0
      BY <1>1, <1>6, <3>3
    <3>5. perRow = q
      BY <2>1, Zenon DEF q
    <3> QED
      BY <1>1, <3>1, <3>3, <3>4, <3>5
  <2>2. CASE n % stacks # 0
    <3>1. perRow = fit
      BY <2>2, Zenon
    <3> QED
      BY <1>2, <1>5, <3>1
  <2> QED
    BY <2>1, <2>2
<1> HIDE DEF perRow
<1>8. line.perRow = perRow /\ line.stacks = stacks
  BY <1>3
<1> QED
  BY <1>6, <1>7, <1>8 DEF IsLine, n

\* The headers have their rows, or all rows.
IsBudget(budget, rows, stacks) ==
  /\ budget.header \in Nat /\ budget.process \in Nat /\ budget.header + budget.process <= rows
  /\ budget.header = stacks * HeaderRows \/ budget.header = rows

LEMMA BudgetIs ==
  ASSUME NEW rows \in Nat, NEW stacks \in Nat, NEW shown, NEW hidden
  PROVE  IsBudget(Budget(rows, stacks, shown, hidden), rows, stacks)
<1> DEFINE header == stacks * HeaderRows
           process == IF shown THEN ProcessRows(rows) ELSE 0
           both == CASE rows >= header + process -> <<header, process>>
                     [] rows < header + process /\ rows >= header + 2 /\ shown ->
                          <<header, rows - header>>
                     [] OTHER -> <<rows, 0>>
           budget == Budget(rows, stacks, shown, hidden)
<1>1. HeaderRows \in Nat /\ devices_count \in Nat
  BY LayoutAssumption
<1>2. header \in Nat
  BY <1>1
<1>3. ProcessRows(rows) \in Nat
  BY <1>1 DEF ProcessRows, Most, Least
<1>4. process \in Nat
  BY <1>3, Zenon
<1>5. budget = [header |-> both[1], process |-> IF hidden THEN 0 ELSE both[2]]
  BY Zenon DEF Budget
<1> HIDE DEF header, process
<1>6. /\ both \in {<<header, process>>, <<header, rows - header>>, <<rows, 0>>}
      /\ both = <<header, process>> => rows >= header + process \/ both = <<rows, 0>> \/ both = <<header, rows - header>>
      /\ both = <<header, rows - header>> => rows >= header + 2 \/ both = <<rows, 0>> \/ rows >= header + process
  <2>1. ~(rows >= header + process /\ rows < header + process)
    BY <1>2, <1>4
  <2>2. CASE rows >= header + process
    <3>1. both = <<header, process>>
      BY <2>1, <2>2, Zenon
    <3> QED
      BY <2>2, <3>1, Zenon
  <2>3. CASE ~(rows >= header + process) /\ rows < header + process /\ rows >= header + 2 /\ shown
    <3>1. both = <<header, rows - header>>
      BY <2>1, <2>3, Zenon
    <3> QED
      BY <2>3, <3>1, Zenon
  <2>4. CASE ~(rows >= header + process) /\ ~(rows < header + process /\ rows >= header + 2 /\ shown)
    <3>1. both = <<rows, 0>>
      BY <2>4, Zenon
    <3> QED
      BY <3>1, Zenon
  <2> QED
    BY <2>2, <2>3, <2>4, Zenon
<1>7. /\ both[1] \in Nat /\ both[2] \in Nat /\ both[1] + both[2] <= rows
      /\ both[1] = header \/ both[1] = rows
  <2> HIDE DEF both
  <2>1. CASE both = <<rows, 0>>
    BY <2>1
  <2>2. CASE both # <<rows, 0>> /\ both = <<header, rows - header>>
    <3>1. rows >= header
      BY <1>2, <1>4, <1>6, <2>2
    <3> QED
      BY <1>2, <2>2, <3>1
  <2>3. CASE both # <<rows, 0>> /\ both # <<header, rows - header>>
    <3>1. both = <<header, process>> /\ rows >= header + process
      BY <1>6, <2>3, Zenon
    <3> QED
      BY <1>2, <1>4, <3>1
  <2> QED
    BY <2>1, <2>2, <2>3
<1> HIDE DEF both, budget
<1>8. budget.header = both[1] /\ budget.process = IF hidden THEN 0 ELSE both[2]
  BY <1>5
<1>9. budget.process = 0 \/ budget.process = both[2]
  BY <1>8, Zenon
<1> QED
  BY <1>7, <1>8, <1>9 DEF IsBudget, header, budget

\* What is left of the rows, and the rows of the block.
IsShares(shares, rows) ==
  /\ shares.header \in Nat /\ shares.free \in Nat /\ shares.stats \in Nat
  /\ shares.header + shares.free <= rows /\ shares.stats <= shares.free
  /\ shares.header = shares.line.stacks * HeaderRows \/ shares.header = rows

LEMMA SharesIs ==
  ASSUME NEW rows \in Nat, NEW line, IsLine(line), NEW budget, IsBudget(budget, rows, line.stacks),
         NEW shown, NEW hidden, NEW lower \in Nat
  PROVE  /\ IsShares(Shares(rows, line, budget, shown, hidden, lower), rows)
         /\ Shares(rows, line, budget, shown, hidden, lower).line = line
<1> DEFINE shares == Shares(rows, line, budget, shown, hidden, lower)
           free == Most(0, rows - budget.header - budget.process - lower)
           stats == StatsTaken(free, budget.process, shown, hidden)
<1>1. /\ budget.header \in Nat /\ budget.process \in Nat /\ budget.header + budget.process <= rows
      /\ budget.header = line.stacks * HeaderRows \/ budget.header = rows
  BY DEF IsBudget
<1>2. free \in Nat /\ budget.header + free <= rows
  <2>1. budget.header \in Nat /\ budget.process \in Nat /\ budget.header + budget.process <= rows
    BY <1>1
  <2> QED
    BY <2>1 DEF Most
<1> HIDE DEF free
<1>3. Least(StatsRows, Most(free - budget.process, 0)) \in 0..free
  BY <1>1, <1>2, LayoutAssumption DEF Least, Most
<1>4. stats = Least(StatsRows, Most(free - budget.process, 0)) \/ stats = 0
  BY Zenon DEF StatsTaken
<1>5. stats \in 0..free
  BY <1>2, <1>3, <1>4
<1>6. shares = [line |-> line, header |-> budget.header, free |-> free, stats |-> stats]
  BY Zenon DEF Shares, free
<1> HIDE DEF stats, shares
<1>7. /\ shares.line = line /\ shares.header = budget.header /\ shares.free = free
      /\ shares.stats = stats
  BY <1>6
<1> QED
  BY <1>1, <1>2, <1>5, <1>7 DEF IsShares, shares

\* Headers and a line between their rows, rows for plots, and the block.
IsSpaced(space, shares, stacks, rows) ==
  /\ space.between \in {0, 1} /\ space.header \in Nat /\ space.forPlots \in Nat
  /\ stacks * 7 <= space.forPlots /\ space.header + space.forPlots + shares.stats <= rows
  /\ \/ space.header = rows
     \/ space.header = shares.line.stacks * HeaderRows + space.between * (shares.line.stacks - 1)

LEMMA SpacedIs ==
  ASSUME NEW rows \in Nat, NEW shares, IsShares(shares, rows), IsLine(shares.line),
         NEW first, first.stacks \in Nat, first.stacks * 7 <= shares.free - shares.stats
  PROVE  IsSpaced(Spaced(shares, first), shares, first.stacks, rows)
<1> DEFINE space == Spaced(shares, first)
           lines == shares.line.stacks - 1
           left == shares.free - shares.stats
           between == IF left - first.stacks * MinPlotRows >= lines THEN 1 ELSE 0
           forPlots == left - between * lines
           header == shares.header + between * lines
           x == first.stacks * 7
<1>1. /\ shares.header \in Nat /\ shares.free \in Nat /\ shares.stats \in Nat
      /\ shares.header + shares.free <= rows /\ shares.stats <= shares.free
      /\ shares.header = shares.line.stacks * HeaderRows \/ shares.header = rows
  BY DEF IsShares
<1>2. lines \in Nat /\ x \in Nat /\ x <= left /\ left \in Nat
  BY <1>1 DEF IsLine
<1>3. space = [between |-> between, header |-> header, forPlots |-> forPlots]
  BY Zenon DEF Spaced
<1>4. first.stacks * MinPlotRows = x
  BY DEF MinPlotRows
<1> HIDE DEF x
<1>5. between \in {0, 1} /\ (between = 1 => left - x >= lines)
  BY <1>4
<1>6. shares.header + left + shares.stats <= rows
  BY <1>1
<1> HIDE DEF lines, left, between
<1>7. between * lines = 0 \/ (between * lines = lines /\ left - x >= lines)
  <2>1. CASE between = 0
    BY <1>2, <2>1
  <2>2. CASE between = 1
    BY <1>2, <1>5, <2>2
  <2> QED
    BY <1>5, <2>1, <2>2
<1>8. /\ forPlots \in Nat /\ x <= forPlots /\ header \in Nat
      /\ header + forPlots + shares.stats <= rows
  BY <1>1, <1>2, <1>6, <1>7
<1>9. header = rows \/ header = shares.line.stacks * HeaderRows + between * lines
  BY <1>1, <1>2, <1>7, <1>8
<1> HIDE DEF forPlots, header, space
<1>10. space.between = between /\ space.header = header /\ space.forPlots = forPlots
  BY <1>3
<1> QED
  <2>1. /\ space.between \in {0, 1} /\ space.header \in Nat /\ space.forPlots \in Nat
        /\ x <= space.forPlots /\ space.header + space.forPlots + shares.stats <= rows
        /\ \/ space.header = rows
           \/ space.header = shares.line.stacks * HeaderRows + space.between * lines
    BY <1>5, <1>8, <1>9, <1>10
  <2> QED
    BY <2>1, Zenon DEF IsSpaced, x, lines, space

LEMMA MoreStacksIs ==
  ASSUME NEW stacks \in Nat, NEW plots \in Nat, NEW rows \in Nat, stacks * 7 <= rows
  PROVE  /\ MoreStacks(stacks, plots, rows) \in Nat /\ stacks <= MoreStacks(stacks, plots, rows)
         /\ MoreStacks(stacks, plots, rows) * 7 <= rows
         /\ stacks = 0 => MoreStacks(stacks, plots, rows) = 0
<1>1. CASE stacks = 0
  <2>1. MoreStacks(stacks, plots, rows) = 0
    BY <1>1, Zenon DEF MoreStacks
  <2> QED
    BY <1>1, <2>1
<1>2. CASE stacks # 0
  <2> DEFINE Enough(k) == rows \div k >= 11 /\ k * MinPlotRows <= rows
             Chose(s) == (\A k \in (stacks + 1)..s : Enough(k)) /\ (s < plots => ~Enough(s + 1))
             top == Most(stacks, plots)
             S == {s \in stacks..top : s < plots => ~Enough(s + 1)}
             chosen == CHOOSE s \in stacks..top : Chose(s)
  <2>1. top \in Nat /\ stacks <= top /\ ~(top < plots)
    BY DEF Most
  <2>2. MoreStacks(stacks, plots, rows) = chosen
    BY <1>2, Zenon DEF MoreStacks
  <2>3. \A k \in Nat : Enough(k) => k * 7 <= rows
    BY DEF MinPlotRows
  <2> HIDE DEF top, Enough
  <2>4. PICK least \in S : \A s \in S : least <= s
    <3>1. S \in SUBSET Nat
      OBVIOUS
    <3>2. top \in S
      BY <2>1
    <3> HIDE DEF S
    <3> QED
      BY <3>1, <3>2, LeastExists
  <2>5. least \in stacks..top /\ Chose(least)
    <3>1. ASSUME NEW k \in (stacks + 1)..least
          PROVE  Enough(k)
      <4>1. k - 1 \in stacks..top /\ k - 1 < least /\ (k - 1) + 1 = k
        BY <2>1
      <4>2. k - 1 \notin S
        BY <2>4, <4>1
      <4>3. ~(k - 1 < plots => ~Enough((k - 1) + 1))
        BY <4>1, <4>2
      <4>4. Enough((k - 1) + 1)
        BY <4>3, Zenon
      <4> QED
        BY <4>1, <4>4, Zenon
    <3> QED
      BY <3>1
  <2>6. chosen \in stacks..top /\ Chose(chosen)
    BY <2>5, Zenon
  <2> HIDE DEF chosen
  <2>7. chosen \in Nat /\ stacks <= chosen
    BY <2>1, <2>6
  <2>8. chosen * 7 <= rows
    <3>1. CASE chosen = stacks
      BY <3>1
    <3>2. CASE chosen # stacks
      <4>1. chosen \in (stacks + 1)..chosen
        BY <2>7, <3>2
      <4>2. Enough(chosen)
        BY <2>6, <4>1
      <4> QED
        BY <2>3, <2>7, <4>2
    <3> QED
      BY <3>1, <3>2
  <2> QED
    BY <1>2, <2>2, <2>7, <2>8
<1> QED
  BY <1>1, <1>2

\* Stacks of the same height, seven rows or more, on the rows for plots.
IsStacked(stack, stacks, rows) ==
  /\ stack.height \in Nat /\ stack.rows = stacks * stack.height /\ stack.rows <= rows
  /\ stacks > 0 => stack.height >= 7

LEMMA StackedIs ==
  ASSUME NEW stacks \in Nat, NEW space, space.forPlots \in Nat, stacks * 7 <= space.forPlots,
         NEW first, NEW cols, NEW hidden
  PROVE  /\ IsStacked(Stacked(space, first, cols, hidden, stacks), stacks, space.forPlots)
         /\ Stacked(space, first, cols, hidden, stacks).stackOf
              = Balanced(first.stackOf, stacks, cols, first.metrics)
<1> DEFINE each == space.forPlots \div Most(1, stacks)
           height == IF ~hidden THEN Least(each, 12) ELSE each
           stackOf == Balanced(first.stackOf, stacks, cols, first.metrics)
           stack == Stacked(space, first, cols, hidden, stacks)
           rows == space.forPlots
           divisor == Most(1, stacks)
<1>1. divisor \in Nat \ {0} /\ (stacks = 0 \/ divisor = stacks)
  BY DEF Most
<1>2. stack = [stackOf |-> stackOf, height |-> height, rows |-> stacks * height]
  BY Zenon DEF Stacked
<1> HIDE DEF divisor
<1>3. each \in Nat /\ divisor * each <= rows /\ rows < divisor * (each + 1)
  <2> DEFINE e == rows \div divisor
  <2>1. e \in Nat /\ divisor * e <= rows /\ rows < divisor * (e + 1)
    BY <1>1, Division
  <2>2. each = e
    BY Zenon DEF divisor
  <2> QED
    BY <2>1, <2>2, Zenon
<1> HIDE DEF each, rows
<1>4. stacks > 0 => each >= 7
  <2> SUFFICES ASSUME stacks > 0, ~(each >= 7)
               PROVE  FALSE
    OBVIOUS
  <2>1. divisor = stacks /\ each + 1 <= 7
    BY <1>1, <1>3
  <2>2. stacks * (each + 1) <= stacks * 7
    BY <1>3, <2>1
  <2>3. stacks * (each + 1) \in Nat /\ stacks * 7 \in Nat /\ rows \in Nat /\ stacks * 7 <= rows
    BY <1>3 DEF rows
  <2> QED
    BY <1>3, <2>1, <2>2, <2>3
<1>5. Least(each, 12) \in Nat /\ Least(each, 12) <= each /\ (each >= 7 => Least(each, 12) >= 7)
  BY <1>3 DEF Least
<1>6. height = each \/ height = Least(each, 12)
  BY Zenon
<1> HIDE DEF height
<1>7. height \in Nat /\ height <= each /\ (stacks > 0 => height >= 7)
  BY <1>3, <1>4, <1>5, <1>6
<1>8. stacks * height <= rows
  <2>1. rows \in Nat
    BY DEF rows
  <2>2. CASE stacks = 0
    BY <1>7, <2>1, <2>2
  <2>3. CASE stacks # 0
    <3>1. stacks * height <= stacks * each
      BY <1>3, <1>7
    <3>2. stacks * each <= rows
      BY <1>1, <1>3, <2>3
    <3>3. stacks * height \in Nat /\ stacks * each \in Nat
      BY <1>3, <1>7
    <3> QED
      BY <2>1, <3>1, <3>2, <3>3
  <2> QED
    BY <2>2, <2>3
<1> HIDE DEF stackOf, stack
<1>9. stack.stackOf = stackOf /\ stack.height = height /\ stack.rows = stacks * height
  BY <1>2
<1> QED
  BY <1>7, <1>8, <1>9 DEF IsStacked, rows, stackOf, stack

-----------------------------------------------------------------------------
(* The headers.                                                             *)

LEMMA NextStarts ==
  ASSUME NEW a \in Nat, NEW b \in Nat, NEW w \in Nat, NEW h \in Nat, a < b, h <= w
  PROVE  a * w + h <= b * w
<1>1. (a + 1) * w <= b * w
  OBVIOUS
<1>2. (a + 1) * w = a * w + w
  OBVIOUS
<1>3. a * w \in Nat /\ b * w \in Nat
  OBVIOUS
<1> QED
  BY <1>1, <1>2, <1>3

IsWindow(w, x, y, width, height) ==
  w.x = x /\ w.y = y /\ w.width = width /\ w.height = height

LEMMA WindowIs ==
  ASSUME NEW x, NEW y, NEW width, NEW height
  PROVE  IsWindow(Window(x, y, width, height), x, y, width, height)
BY DEF Window, IsWindow

\* Headers do not overlap, and end with their rows and the lines between.
HeadersFit(device, stacks, between) ==
  /\ \A d \in Monitored :
       /\ device[d].y + device[d].height \in Nat
       /\ device[d].y + device[d].height <= stacks * HeaderRows + between * (stacks - 1)
  /\ \A d, e \in Monitored : d # e => Apart(device[d], device[e])

LEMMA HeadersIs ==
  ASSUME NEW cols \in Nat, NEW line, IsLine(line), NEW between \in {0, 1}
  PROVE  HeadersFit(Headers(cols, line.perRow, between), line.stacks, between)
<1> DEFINE device == Headers(cols, line.perRow, between)
           left == cols - line.perRow * HeaderCols
           gap == IF left < 0 \/ left > line.perRow THEN 1 ELSE 0
           margin == IF left # 0 THEN 1 ELSE 0
           across == HeaderCols + gap
           down == HeaderRows + between
           per == line.perRow
           stacks == line.stacks
           col(d) == (d - 1) % per
           row(d) == (d - 1) \div per
<1>1. /\ per \in Nat \ {0} /\ stacks \in Nat \ {0} /\ devices_count <= per * stacks
      /\ devices_count \in Nat /\ HeaderCols \in Nat /\ HeaderRows \in Nat
  BY LayoutAssumption DEF IsLine
<1>2. gap \in {0, 1} /\ margin \in {0, 1}
  BY Zenon
<1>3. \A d \in Monitored : device[d] = Window(margin + col(d) * across, row(d) * down, HeaderCols, HeaderRows)
  BY Zenon DEF Headers
<1> HIDE DEF gap, margin, left, device
<1>4. /\ across \in Nat /\ HeaderCols <= across /\ down \in Nat /\ HeaderRows <= down
      /\ margin \in Nat
  BY <1>1, <1>2
<1>5. down = HeaderRows + between
  OBVIOUS
<1> HIDE DEF across, down, per, stacks
<1>6. ASSUME NEW d \in Monitored
      PROVE  /\ row(d) \in 0..(stacks - 1) /\ col(d) \in Nat
             /\ d - 1 = per * row(d) + col(d)
  <2> DEFINE a == d - 1
  <2>1. a \in Nat /\ a < devices_count
    BY <1>1 DEF Monitored
  <2> HIDE DEF a
  <2>2. /\ a \div per \in Nat /\ a % per \in 0..(per - 1) /\ a % per = a - per * (a \div per)
        /\ per * (a \div per) <= a
    BY <1>1, <2>1, Division
  <2> DEFINE q == a \div per
             r == a % per
  <2> HIDE DEF q, r
  <2>3. q \in Nat /\ r \in Nat /\ r = a - per * q /\ per * q <= a
    BY <1>1, <2>2 DEF q, r
  <2>4. per * q \in Nat /\ per * stacks \in Nat
    BY <1>1, <2>3
  <2>5. q < stacks
    <3>1. SUFFICES ASSUME stacks <= q
                   PROVE  FALSE
      BY <1>1, <2>3
    <3>2. per * stacks <= per * q
      BY <1>1, <2>3, <3>1
    <3> QED
      BY <1>1, <2>1, <2>3, <2>4, <3>2
  <2>6. a = per * q + r
    BY <2>1, <2>3, <2>4
  <2> QED
    BY <1>1, <2>3, <2>5, <2>6 DEF a, q, r
<1> HIDE DEF row, col
<1>7. \A d \in Monitored : /\ device[d].x = margin + col(d) * across /\ device[d].width = HeaderCols
                           /\ device[d].y = row(d) * down /\ device[d].height = HeaderRows
  <2> SUFFICES ASSUME NEW d \in Monitored
               PROVE  /\ device[d].x = margin + col(d) * across /\ device[d].width = HeaderCols
                      /\ device[d].y = row(d) * down /\ device[d].height = HeaderRows
    OBVIOUS
  <2>1. IsWindow(Window(margin + col(d) * across, row(d) * down, HeaderCols, HeaderRows),
                 margin + col(d) * across, row(d) * down, HeaderCols, HeaderRows)
    BY WindowIs
  <2> QED
    BY <1>3, <2>1, Zenon DEF IsWindow
<1>8. ASSUME NEW d \in Monitored
      PROVE  /\ device[d].y + device[d].height \in Nat
             /\ device[d].y + device[d].height <= stacks * HeaderRows + between * (stacks - 1)
  <2>1. row(d) \in Nat /\ row(d) < stacks
    BY <1>1, <1>6
  <2>2. row(d) * down + down <= stacks * down
    BY <1>1, <1>4, <2>1, NextStarts
  <2>3. stacks * down = stacks * HeaderRows + between * (stacks - 1) + between
    BY <1>1, <1>5
  <2>4. row(d) * down \in Nat /\ stacks * HeaderRows \in Nat /\ between * (stacks - 1) \in Nat
    BY <1>1, <1>4, <2>1
  <2> QED
    BY <1>1, <1>4, <1>5, <1>7, <2>2, <2>3, <2>4
<1>9. ASSUME NEW d \in Monitored, NEW e \in Monitored, d < e
      PROVE  Apart(device[d], device[e])
  <2>1. /\ row(d) \in Nat /\ col(d) \in Nat /\ row(e) \in Nat /\ col(e) \in Nat
        /\ d - 1 = per * row(d) + col(d) /\ e - 1 = per * row(e) + col(e)
    BY <1>1, <1>6
  <2>2. CASE col(d) < col(e)
    <3>1. col(d) * across + HeaderCols <= col(e) * across
      BY <1>1, <1>4, <2>1, <2>2, NextStarts
    <3>2. col(d) * across \in Nat /\ col(e) * across \in Nat
      BY <1>4, <2>1
    <3> QED
      BY <1>1, <1>4, <1>7, <3>1, <3>2 DEF Apart
  <2>3. CASE col(e) < col(d)
    <3>1. col(e) * across + HeaderCols <= col(d) * across
      BY <1>1, <1>4, <2>1, <2>3, NextStarts
    <3>2. col(d) * across \in Nat /\ col(e) * across \in Nat
      BY <1>4, <2>1
    <3> QED
      BY <1>1, <1>4, <1>7, <3>1, <3>2 DEF Apart
  <2>4. CASE col(e) = col(d)
    <3>1. row(d) < row(e)
      <4>1. d \in Int /\ e \in Int
        BY <1>1 DEF Monitored
      <4>2. SUFFICES ASSUME row(e) <= row(d)
                     PROVE  FALSE
        BY <2>1
      <4>3. per * row(e) <= per * row(d) /\ per * row(e) \in Nat /\ per * row(d) \in Nat
        BY <1>1, <2>1, <4>2
      <4> QED
        BY <1>9, <2>1, <2>4, <4>1, <4>3
    <3>2. row(d) * down + HeaderRows <= row(e) * down
      BY <1>1, <1>4, <2>1, <3>1, NextStarts
    <3>3. Beneath(device[e], device[d])
      BY <1>7, <3>2 DEF Beneath
    <3> QED
      BY <3>3, Zenon DEF Apart
  <2> QED
    BY <2>1, <2>2, <2>3, <2>4
<1>10. ASSUME NEW d \in Monitored, NEW e \in Monitored, d # e
       PROVE  Apart(device[d], device[e])
  <2>1. d < e \/ e < d
    BY <1>1, <1>10 DEF Monitored
  <2>2. \A v, w : Apart(v, w) => Apart(w, v)
    BY Zenon DEF Apart
  <2> QED
    BY <1>9, <2>1, <2>2, Zenon
<1> QED
  BY <1>8, <1>10, Zenon DEF HeadersFit, device, stacks

-----------------------------------------------------------------------------
(* The plots.                                                               *)

\* The columns of the plots 1..n of a stack.
SharesOf(stack, stackOf, metrics, cols) ==
  LET members == InStack(stack, stackOf, [q \in DOMAIN stackOf |-> 1])
      lines == InStack(stack, stackOf, metrics)
  IN  [q \in DOMAIN stackOf |->
         IF stackOf[q] = stack
         THEN BoxCols + ((cols - members * BoxCols) * metrics[q]) \div lines ELSE 0]

SharesFit(shares, n, stack, stackOf, cols) ==
  /\ shares \in [1..n -> Nat] /\ Total(shares) <= cols
  /\ \A q \in 1..n : stackOf[q] = stack => shares[q] >= 5

LEMMA SharesOfIs ==
  ASSUME NEW n \in Nat, NEW metrics \in [1..n -> 1..LinesPerPlot], NEW cols \in Nat,
         NEW stacks \in Nat, NEW stackOf, Fits(stackOf, n, stacks, cols, metrics), NEW p \in 1..n
  PROVE  SharesFit(SharesOf(stackOf[p], stackOf, metrics, cols), n, stackOf[p], stackOf, cols)
<1> DEFINE stack == stackOf[p]
           one == [q \in DOMAIN stackOf |-> 1]
           ones == OfStack(stack, stackOf, one)
           own == OfStack(stack, stackOf, metrics)
           u == ColsOf(stack, stackOf, metrics)
           members == InStack(stack, stackOf, one)
           lines == InStack(stack, stackOf, metrics)
           F == cols - members * 5
           t == [q \in 1..n |-> IF stackOf[q] = stack THEN (F * metrics[q]) \div lines ELSE 0]
           shares == SharesOf(stack, stackOf, metrics, cols)
<1>1. /\ stackOf \in [1..n -> 1..stacks] /\ UsedBy(stack, stackOf, metrics) <= cols
  BY DEF Fits
<1>2. /\ stackOf \in [1..n -> Nat] /\ metrics \in [1..n -> Nat] /\ one \in [1..n -> Nat]
      /\ \A q \in 1..n : metrics[q] \in Nat /\ metrics[q] > 0 /\ one[q] = 1
  <2>1. LinesPerPlot \in Nat
    BY LayoutAssumption
  <2> QED
    BY <1>1, <2>1
<1> HIDE DEF one, stack
<1>3. /\ ones \in [1..n -> Nat] /\ members = Total(ones)
      /\ \A q \in 1..n : ones[q] = IF stackOf[q] = stack THEN 1 ELSE 0
  <2>1. SumOfStack(members, ones, n, stack, stackOf, one)
    BY <1>2, InStackIs
  <2> QED
    BY <1>2, <2>1, Zenon DEF SumOfStack
<1>4. /\ own \in [1..n -> Nat] /\ lines = Total(own)
      /\ \A q \in 1..n : own[q] = IF stackOf[q] = stack THEN metrics[q] ELSE 0
  <2>1. SumOfStack(lines, own, n, stack, stackOf, metrics)
    BY <1>2, InStackIs
  <2> QED
    BY <2>1, Zenon DEF SumOfStack
<1>5. /\ u \in [1..n -> Nat] /\ Total(u) <= cols
      /\ \A q \in 1..n : u[q] = IF stackOf[q] = stack THEN 5 + 10 * metrics[q] ELSE 0
  <2>1. SumOfCols(UsedBy(stack, stackOf, metrics), u, n, stack, stackOf, metrics)
    BY <1>2, UsedIs
  <2> QED
    BY <1>1, <2>1, Zenon DEF SumOfCols, stack
<1>6. shares = [q \in 1..n |-> IF stackOf[q] = stack THEN 5 + (F * metrics[q]) \div lines ELSE 0]
  <2>1. DOMAIN stackOf = 1..n
    BY <1>1
  <2> QED
    BY <2>1, Zenon DEF SharesOf, BoxCols, one
<1> HIDE DEF ones, own, u, members, lines
<1>7. Total(ones) \in Nat /\ Total(own) \in Nat
  BY <1>3, <1>4, TotalNat
<1>8. lines \in Nat \ {0}
  <2>1. own[p] = metrics[p]
    BY <1>4 DEF stack
  <2>2. own[p] <= Total(own)
    BY <1>4, TermOf
  <2> QED
    BY <1>2, <1>4, <1>7, <2>1, <2>2
<1>9. members * 5 + 10 * lines <= cols /\ members \in Nat
  <2> DEFINE a == 5  b == 10
  <2>1. a \in Nat /\ b \in Nat
    OBVIOUS
  <2>2. \A q \in 1..n : u[q] = a * ones[q] + b * own[q]
    <3> SUFFICES ASSUME NEW q \in 1..n
                 PROVE  u[q] = a * ones[q] + b * own[q]
      OBVIOUS
    <3>1. CASE stackOf[q] = stack
      <4>1. u[q] = 5 + 10 * metrics[q] /\ ones[q] = 1 /\ own[q] = metrics[q]
        BY <1>3, <1>4, <1>5, <3>1
      <4> QED
        BY <1>2, <4>1
    <3>2. CASE stackOf[q] # stack
      <4>1. u[q] = 0 /\ ones[q] = 0 /\ own[q] = 0
        BY <1>3, <1>4, <1>5, <3>2
      <4> QED
        BY <4>1
    <3> QED
      BY <3>1, <3>2
  <2> HIDE DEF a, b
  <2>3. Combined(n, u, a, ones, b, own)
    BY <1>3, <1>4, <1>5, <2>1, <2>2, TotalCombined
  <2>4. Total(u) = a * members + b * lines
    BY <1>3, <1>4, <2>3, Zenon DEF Combined
  <2> QED
    BY <1>3, <1>5, <1>7, <1>8, <2>4 DEF a, b
<1>10. F \in Nat
  BY <1>8, <1>9
<1> HIDE DEF F
<1>11. \A q \in 1..n : /\ (F * metrics[q]) \div lines \in Nat
                       /\ lines * ((F * metrics[q]) \div lines) <= F * metrics[q]
  <2> SUFFICES ASSUME NEW q \in 1..n
               PROVE  /\ (F * metrics[q]) \div lines \in Nat
                      /\ lines * ((F * metrics[q]) \div lines) <= F * metrics[q]
    OBVIOUS
  <2> DEFINE a == F * metrics[q]
  <2>1. a \in Nat
    BY <1>2, <1>10
  <2> HIDE DEF a
  <2>2. a \div lines \in Nat /\ lines * (a \div lines) <= a
    BY <1>8, <2>1, Division
  <2> QED
    BY <2>2, Zenon DEF a
<1>12. /\ t \in [1..n -> Nat]
       /\ \A q \in 1..n : t[q] = IF stackOf[q] = stack THEN (F * metrics[q]) \div lines ELSE 0
  BY <1>11
<1>13. /\ shares \in [1..n -> Nat]
       /\ \A q \in 1..n : shares[q] = IF stackOf[q] = stack THEN 5 + (F * metrics[q]) \div lines ELSE 0
  <2>1. \A q \in 1..n : 5 + (F * metrics[q]) \div lines \in Nat
    BY <1>11
  <2> QED
    BY <1>6, <2>1
<1> HIDE DEF t, shares
<1>14. Total(t) \in Nat /\ Total(t) <= F
  <2>1. \A q \in 1..n : lines * t[q] <= F * own[q]
    <3> SUFFICES ASSUME NEW q \in 1..n
                 PROVE  lines * t[q] <= F * own[q]
      OBVIOUS
    <3>1. CASE stackOf[q] = stack
      <4>1. t[q] = (F * metrics[q]) \div lines /\ own[q] = metrics[q]
        BY <1>4, <1>12, <3>1
      <4> QED
        BY <1>11, <4>1, Zenon
    <3>2. CASE stackOf[q] # stack
      <4>1. t[q] = 0 /\ own[q] = 0
        BY <1>4, <1>12, <3>2
      <4> QED
        BY <1>8, <1>10, <4>1
    <3> QED
      BY <3>1, <3>2
  <2>2. lines * Total(t) <= F * Total(own)
    <3>1. lines \in Nat
      BY <1>8
    <3> QED
      BY <1>4, <1>10, <1>12, <2>1, <3>1, TotalShares
  <2>3. Total(t) \in Nat
    BY <1>12, TotalNat
  <2> DEFINE x == Total(t)
  <2> HIDE DEF x
  <2>4. lines * x <= F * lines /\ x \in Nat
    BY <1>4, <2>2, <2>3, Zenon DEF x
  <2>5. x <= F
    <3>1. SUFFICES ASSUME F + 1 <= x
                   PROVE  FALSE
      BY <1>10, <2>4
    <3>2. lines * (F + 1) <= lines * x
      BY <1>8, <1>10, <2>4, <3>1
    <3>3. lines * (F + 1) = F * lines + lines /\ F * lines \in Nat /\ lines * x \in Nat
      BY <1>8, <1>10, <2>4
    <3> QED
      BY <1>8, <2>4, <3>2, <3>3
  <2> QED
    BY <2>4, <2>5 DEF x
<1>15. Total(shares) <= cols
  <2> DEFINE a == 5  b == 1
  <2>1. a \in Nat /\ b \in Nat
    OBVIOUS
  <2>2. \A q \in 1..n : shares[q] = a * ones[q] + b * t[q]
    <3> SUFFICES ASSUME NEW q \in 1..n
                 PROVE  shares[q] = a * ones[q] + b * t[q]
      OBVIOUS
    <3>1. CASE stackOf[q] = stack
      <4>1. shares[q] = 5 + t[q] /\ ones[q] = 1 /\ t[q] \in Nat
        BY <1>3, <1>12, <1>13, <3>1
      <4> QED
        BY <4>1
    <3>2. CASE stackOf[q] # stack
      <4>1. shares[q] = 0 /\ ones[q] = 0 /\ t[q] = 0
        BY <1>3, <1>12, <1>13, <3>2
      <4> QED
        BY <4>1
    <3> QED
      BY <3>1, <3>2
  <2> HIDE DEF a, b
  <2>3. Combined(n, shares, a, ones, b, t)
    BY <1>3, <1>12, <1>13, <2>1, <2>2, TotalCombined
  <2>4. Total(shares) = a * members + b * Total(t)
    BY <1>3, <2>3, Zenon DEF Combined
  <2> QED
    BY <1>9, <1>14, <2>4 DEF a, b, F
<1>16. \A q \in 1..n : stackOf[q] = stack => shares[q] >= 5
  BY <1>11, <1>13
<1> QED
  BY <1>13, <1>15, <1>16, Zenon DEF SharesFit, shares, stack

\* Plot p is made at the beginning of its share.
IsPlot(w, p, shares, lines, y, height) ==
  /\ w.x = Upto(shares, p - 1) /\ w.y = y /\ w.height = height
  /\ w.width \in Nat /\ 5 <= w.width /\ w.width <= shares[p]
  /\ (w.width - 5) % lines = 0

LEMMA PlotWindowIs ==
  ASSUME NEW n \in Nat, NEW metrics \in [1..n -> 1..LinesPerPlot], NEW cols \in Nat,
         NEW stacks \in Nat, NEW stackOf, Fits(stackOf, n, stacks, cols, metrics), NEW p \in 1..n,
         NEW y, NEW height
  PROVE  IsPlot(PlotWindow(p, stackOf, metrics, cols, y, height), p,
                SharesOf(stackOf[p], stackOf, metrics, cols), metrics[p], y, height)
<1> DEFINE stack == stackOf[p]
           shares == SharesOf(stack, stackOf, metrics, cols)
           members == InStack(stack, stackOf, [q \in DOMAIN stackOf |-> 1])
           forLines == cols - members * BoxCols
           lines == InStack(stack, stackOf, metrics)
           share(q) == BoxCols + (forLines * metrics[q]) \div lines
           x == Total([q \in 1..(p - 1) |-> IF stackOf[q] = stack THEN share(q) ELSE 0])
           width == share(p) - ((share(p) - BoxCols) % metrics[p])
           w == PlotWindow(p, stackOf, metrics, cols, y, height)
<1>1. SharesFit(shares, n, stack, stackOf, cols)
  BY SharesOfIs
<1>2. DOMAIN stackOf = 1..n
  BY DEF Fits
<1>3. w = Window(x, y, width, height)
  BY Zenon DEF PlotWindow
<1>4. \A q \in 1..n : shares[q] = IF stackOf[q] = stack THEN share(q) ELSE 0
  <2>1. shares = [q \in 1..n |-> IF stackOf[q] = stack THEN share(q) ELSE 0]
    BY <1>2, Zenon DEF SharesOf
  <2> QED
    BY <2>1, Zenon
<1> HIDE DEF shares, share, w
<1>5. x = Upto(shares, p - 1)
  <2>1. \A q \in 1..(p - 1) : q \in 1..n
    OBVIOUS
  <2>2. [q \in 1..(p - 1) |-> IF stackOf[q] = stack THEN share(q) ELSE 0] = [q \in 1..(p - 1) |-> shares[q]]
    BY <1>4, <2>1
  <2> QED
    BY <2>2, Zenon DEF Upto
<1>6. shares[p] = share(p)
  BY <1>4
<1>7. shares[p] \in Nat /\ shares[p] >= 5
  BY <1>1 DEF SharesFit
<1> HIDE DEF x
<1>8. width \in Nat /\ 5 <= width /\ width <= shares[p] /\ (width - 5) % metrics[p] = 0
  <2> DEFINE e == share(p) - 5
             m == metrics[p]
  <2>1. e \in Nat /\ m \in Nat \ {0} /\ shares[p] = e + 5
    BY <1>6, <1>7, LayoutAssumption
  <2>2. width = share(p) - (e % m)
    BY Zenon DEF BoxCols
  <2>3. share(p) = e + 5
    BY <1>6, <2>1
  <2> HIDE DEF e, m, width
  <2>4. e \div m \in Nat /\ e % m \in 0..(m - 1) /\ e % m = e - m * (e \div m) /\ m * (e \div m) <= e
    BY <2>1, Division
  <2> DEFINE k == m * (e \div m)
  <2>5. k \in Nat /\ k <= e /\ width = 5 + k
    BY <2>1, <2>2, <2>3, <2>4
  <2>6. k % m = 0
    <3> DEFINE c == e \div m
    <3>1. c \in Nat /\ k = m * c
      BY <2>4
    <3> HIDE DEF c, k
    <3> QED
      BY <2>1, <2>5, <3>1
  <2> HIDE DEF k
  <2>7. width - 5 = k
    BY <2>5
  <2> QED
    BY <2>1, <2>5, <2>6, <2>7 DEF m
<1> HIDE DEF width
<1>9. w.x = x /\ w.y = y /\ w.width = width /\ w.height = height
  <2>1. IsWindow(Window(x, y, width, height), x, y, width, height)
    BY WindowIs
  <2> QED
    BY <1>3, <2>1, Zenon DEF IsWindow
<1> QED
  BY <1>5, <1>8, <1>9, Zenon DEF IsPlot, w, shares, stack

\* Of two plots of a stack one ends before the other begins; the stacks follow
\* each other.
LEMMA PlotsApart ==
  ASSUME NEW n \in Nat, NEW metrics \in [1..n -> 1..LinesPerPlot], NEW cols \in Nat,
         NEW stacks \in Nat, NEW stackOf, Fits(stackOf, n, stacks, cols, metrics),
         NEW p \in 1..n, NEW q \in 1..n, p < q, NEW top \in Nat, NEW height \in Nat
  PROVE  Apart(PlotWindow(p, stackOf, metrics, cols, top + (stackOf[p] - 1) * height, height),
               PlotWindow(q, stackOf, metrics, cols, top + (stackOf[q] - 1) * height, height))
<1> DEFINE a == stackOf[p] - 1
           b == stackOf[q] - 1
           v == PlotWindow(p, stackOf, metrics, cols, top + a * height, height)
           w == PlotWindow(q, stackOf, metrics, cols, top + b * height, height)
           shares == SharesOf(stackOf[p], stackOf, metrics, cols)
           others == SharesOf(stackOf[q], stackOf, metrics, cols)
<1>1. stackOf \in [1..n -> 1..stacks]
  BY DEF Fits
<1>2. a \in Nat /\ b \in Nat /\ (a = b => stackOf[p] = stackOf[q])
  BY <1>1
<1> HIDE DEF a, b
<1>3. IsPlot(v, p, shares, metrics[p], top + a * height, height)
  BY PlotWindowIs
<1>4. IsPlot(w, q, others, metrics[q], top + b * height, height)
  BY PlotWindowIs
<1>5. SharesFit(shares, n, stackOf[p], stackOf, cols)
  BY SharesOfIs
<1> HIDE DEF v, w, shares, others
<1>6. /\ v.y = top + a * height /\ v.height = height
      /\ w.y = top + b * height /\ w.height = height
  BY <1>3, <1>4 DEF IsPlot
<1>7. a * height \in Nat /\ b * height \in Nat
  BY <1>2
<1>8. CASE a < b
  <2>1. a * height + height <= b * height
    BY <1>2, <1>8, NextStarts
  <2>2. Beneath(w, v)
    BY <1>6, <1>7, <2>1 DEF Beneath
  <2> QED
    BY <2>2, Zenon DEF Apart, v, w, a, b
<1>9. CASE b < a
  <2>1. b * height + height <= a * height
    BY <1>2, <1>9, NextStarts
  <2>2. Beneath(v, w)
    BY <1>6, <1>7, <2>1 DEF Beneath
  <2> QED
    BY <2>2, Zenon DEF Apart, v, w, a, b
<1>10. CASE a = b
  <2>1. others = shares
    BY <1>2, <1>10, Zenon DEF shares, others
  <2>2. /\ v.x = Upto(shares, p - 1) /\ v.width \in Nat /\ v.width <= shares[p]
        /\ w.x = Upto(shares, q - 1)
    BY <1>3, <1>4, <2>1 DEF IsPlot
  <2>3. shares \in [1..n -> Nat]
    BY <1>5 DEF SharesFit
  <2>4. /\ p \in 0..n /\ p - 1 \in 0..n /\ q - 1 \in p..n
    OBVIOUS
  <2>5. Upto(shares, p) = Upto(shares, p - 1) + shares[p]
    BY <2>3, UptoIs
  <2>6. Upto(shares, p) <= Upto(shares, q - 1)
    BY <2>3, <2>4, UptoGrows
  <2>7. Upto(shares, p - 1) \in Nat /\ Upto(shares, p) \in Nat /\ Upto(shares, q - 1) \in Nat
    <3>1. q - 1 \in 0..n
      BY <2>4
    <3> QED
      BY <2>3, <2>4, <3>1, UptoNat
  <2>8. v.x + v.width <= w.x
    BY <2>2, <2>3, <2>5, <2>6, <2>7
  <2> QED
    BY <2>8, Zenon DEF Apart, v, w, a, b
<1> QED
  BY <1>2, <1>8, <1>9, <1>10

\* The windows of the plots 1..n lie on their stacks, and each plot's data
\* divide if its window was made for it.
PlotsFit(plot, n, metrics, stackOf, stacks, cols, top, height) ==
  /\ DOMAIN plot = 1..n
  /\ \A k \in 1..n :
       /\ plot[k].width \in Nat /\ 5 <= plot[k].width /\ stacks > 0
       /\ plot[k].x \in Nat /\ plot[k].x + plot[k].width <= cols
       /\ plot[k].height = height /\ plot[k].y \in Nat
       /\ top <= plot[k].y /\ plot[k].y + height <= top + stacks * height
  /\ \A k, l \in 1..n : k # l => Apart(plot[k], plot[l])
  /\ (\A k, l \in 1..n : k < l => stackOf[k] <= stackOf[l]) =>
       \A k \in 1..n : (plot[k].width - 5) % metrics[k] = 0

\* The plot that the k-th window is made for.
MadeFor(k, stackOf) == CHOOSE p \in DOMAIN stackOf : Cardinality(Before(p, stackOf)) = k - 1

LEMMA PlotWindowsIs ==
  ASSUME NEW n \in Nat, NEW metrics \in [1..n -> 1..LinesPerPlot], NEW cols \in Nat,
         NEW stacks \in Nat, NEW stackOf, Fits(stackOf, n, stacks, cols, metrics),
         NEW top \in Nat, NEW height \in Nat
  PROVE  PlotsFit(PlotWindows(stackOf, metrics, cols, top, height), n, metrics, stackOf, stacks,
                  cols, top, height)
<1> DEFINE plot == PlotWindows(stackOf, metrics, cols, top, height)
           p(k) == MadeFor(k, stackOf)
           win(q) == PlotWindow(q, stackOf, metrics, cols, top + (stackOf[q] - 1) * height, height)
<1>1. stackOf \in [1..n -> 1..stacks] /\ DOMAIN stackOf = 1..n /\ stackOf \in [1..n -> Nat]
  BY DEF Fits
<1>2. plot = [k \in 1..n |-> win(p(k))]
  BY <1>1, Zenon DEF PlotWindows, MadeFor
<1>3. DOMAIN plot = 1..n /\ \A k \in 1..n : plot[k] = win(p(k))
  BY <1>2, Zenon
<1>4. \A k \in 1..n : p(k) \in 1..n /\ Cardinality(Before(p(k), stackOf)) = k - 1
  <2>1. \A k \in 1..n : \E q \in 1..n : Cardinality(Before(q, stackOf)) = k - 1
    BY <1>1, BeforeIs
  <2> QED
    BY <1>1, <2>1, Zenon DEF MadeFor
<1> HIDE DEF plot, p
<1>5. ASSUME NEW q \in 1..n
      PROVE  /\ win(q).width \in Nat /\ 5 <= win(q).width
             /\ win(q).x \in Nat /\ win(q).x + win(q).width <= cols
             /\ win(q).height = height /\ win(q).y \in Nat
             /\ top <= win(q).y /\ win(q).y + height <= top + stacks * height
             /\ (win(q).width - 5) % metrics[q] = 0 /\ stacks > 0
  <2> DEFINE w == win(q)
             a == stackOf[q] - 1
             shares == SharesOf(stackOf[q], stackOf, metrics, cols)
  <2>1. IsPlot(win(q), q, shares, metrics[q], top + a * height, height)
    BY PlotWindowIs
  <2>2. SharesFit(shares, n, stackOf[q], stackOf, cols)
    BY SharesOfIs
  <2>3. a \in Nat /\ a < stacks /\ stacks > 0
    BY <1>1
  <2> HIDE DEF a, shares, win
  <2>4. /\ w.x = Upto(shares, q - 1) /\ w.width \in Nat /\ 5 <= w.width /\ w.width <= shares[q]
        /\ w.y = top + a * height /\ w.height = height /\ (w.width - 5) % metrics[q] = 0
    BY <2>1, Zenon DEF IsPlot
  <2>5. shares \in [1..n -> Nat] /\ Total(shares) <= cols
    BY <2>2, Zenon DEF SharesFit
  <2>6. q \in 0..n /\ q - 1 \in 0..n /\ n \in q..n
    OBVIOUS
  <2>7. Upto(shares, q) = Upto(shares, q - 1) + shares[q] /\ Upto(shares, n) = Total(shares)
    BY <2>5, UptoIs
  <2>8. Upto(shares, q) <= Upto(shares, n)
    BY <2>5, <2>6, UptoGrows
  <2>9. Upto(shares, q - 1) \in Nat /\ Upto(shares, q) \in Nat /\ Total(shares) \in Nat
        /\ shares[q] \in Nat
    BY <2>5, <2>6, UptoNat, TotalNat
  <2>10. w.x \in Nat /\ w.x + w.width <= cols
    <3>1. w.x = Upto(shares, q - 1) /\ w.width \in Nat /\ w.width <= shares[q]
      BY <2>4
    <3>2. Upto(shares, q - 1) + shares[q] <= cols
      BY <2>5, <2>7, <2>8, <2>9
    <3>3. shares[q] \in Nat /\ Upto(shares, q - 1) \in Nat
      BY <2>9
    <3> QED
      BY <3>1, <3>2, <3>3
  <2>11. a * height + height <= stacks * height
    BY <2>3, NextStarts
  <2>12. a * height \in Nat /\ stacks * height \in Nat
    BY <2>3
  <2>13. w.y \in Nat /\ top <= w.y /\ w.y + height <= top + stacks * height
    <3>1. w.y = top + a * height
      BY <2>4
    <3> QED
      BY <2>11, <2>12, <3>1
  <2> QED
    BY <2>3, <2>4, <2>10, <2>13
<1>6. ASSUME NEW k \in 1..n, NEW l \in 1..n, k # l
      PROVE  Apart(plot[k], plot[l])
  <2>1. p(k) \in 1..n /\ p(l) \in 1..n /\ p(k) # p(l)
    <3>1. k - 1 # l - 1
      BY <1>6
    <3> QED
      BY <1>4, <3>1
  <2>2. plot[k] = win(p(k)) /\ plot[l] = win(p(l))
    BY <1>3
  <2>3. \A v, w : Apart(v, w) => Apart(w, v)
    BY Zenon DEF Apart
  <2> DEFINE i == p(k)
             j == p(l)
  <2>4. i \in 1..n /\ j \in 1..n /\ i # j /\ plot[k] = win(i) /\ plot[l] = win(j)
    BY <2>1, <2>2, Zenon
  <2> HIDE DEF i, j
  <2>5. i < j \/ j < i
    BY <2>4
  <2>6. CASE i < j
    <3>1. Apart(win(i), win(j))
      BY <2>4, <2>6, PlotsApart
    <3> QED
      BY <2>4, <3>1, Zenon
  <2>7. CASE j < i
    <3>1. Apart(win(j), win(i))
      BY <2>4, <2>7, PlotsApart
    <3> QED
      BY <2>3, <2>4, <3>1, Zenon
  <2> QED
    BY <2>5, <2>6, <2>7
<1>7. ASSUME \A k, l \in 1..n : k < l => stackOf[k] <= stackOf[l], NEW k \in 1..n
      PROVE  (plot[k].width - 5) % metrics[k] = 0
  <2>1. p(k) \in 1..n /\ Cardinality(Before(p(k), stackOf)) = k - 1
    BY <1>4
  <2>2. \A q \in 1..n : Cardinality(Before(q, stackOf)) = q - 1
    BY <1>1, <1>7, BeforeIs
  <2> DEFINE i == p(k)
  <2>3. i \in 1..n /\ i - 1 = k - 1
    BY <2>1, <2>2
  <2> HIDE DEF i
  <2>4. i = k
    BY <2>3
  <2>5. plot[k] = win(k)
    BY <1>3, <2>4, Zenon DEF i
  <2> HIDE DEF win
  <2> QED
    BY <1>5, <2>5
<1> HIDE DEF win
<1>8. \A k \in 1..n :
        /\ plot[k].width \in Nat /\ 5 <= plot[k].width /\ stacks > 0
        /\ plot[k].x \in Nat /\ plot[k].x + plot[k].width <= cols
        /\ plot[k].height = height /\ plot[k].y \in Nat
        /\ top <= plot[k].y /\ plot[k].y + height <= top + stacks * height
  BY <1>3, <1>4, <1>5, Zenon
<1> QED
  BY <1>3, <1>6, <1>7, <1>8, Zenon DEF PlotsFit, plot

\* With or without plots.
LEMMA PlacedPlotsFit ==
  ASSUME NEW rows \in Nat, NEW cols \in Nat, NEW drawing, NEW first,
         IsPositioned(first, rows, cols, drawing),
         NEW stacks \in Nat, first.stacks <= stacks, first.stacks = 0 => stacks = 0,
         NEW top \in Nat, NEW height \in Nat, NEW stackOf,
         stackOf = Balanced(first.stackOf, stacks, cols, first.metrics)
  PROVE  PlotsFit(PlotWindows(stackOf, first.metrics, cols, top, height), Len(first.stackOf),
                  first.metrics, stackOf, stacks, cols, top, height)
<1> DEFINE n == Len(first.stackOf)
           metrics == first.metrics
<1>1. n \in Nat /\ first.stacks \in Nat
  BY DEF IsPositioned
<1>2. CASE first.stacks = 0
  <2>1. first.stackOf = << >> /\ stacks = 0
    BY <1>2 DEF IsPositioned
  <2> DEFINE z == 0
             none == << >>
  <2>2. z \in Nat /\ (\A q \in 1..z : metrics[q] \in Nat) /\ n = z
    BY <2>1
  <2>3. Fits(none, z, z, cols, metrics)
    BY DEF Fits
  <2> HIDE DEF z, none, n
  <2>4. Fits(Balanced(none, z, cols, metrics), z, z, cols, metrics)
    BY <2>2, <2>3, BalancedIs
  <2>5. Fits(stackOf, z, z, cols, metrics)
    BY <2>1, <2>4, Zenon DEF z, none
  <2>6. DOMAIN stackOf = 1..z
    BY <2>5 DEF Fits
  <2>7. DOMAIN PlotWindows(stackOf, metrics, cols, top, height) = 1..z
    BY <2>6, Zenon DEF PlotWindows
  <2>8. \A k : k \notin 1..z
    BY DEF z
  <2>9. PlotsFit(PlotWindows(stackOf, metrics, cols, top, height), z, metrics, stackOf, stacks,
                 cols, top, height)
    BY <2>7, <2>8, Zenon DEF PlotsFit
  <2> QED
    BY <2>2, <2>9, Zenon DEF n
<1>3. CASE first.stacks # 0
  <2>1. Chosen(first, n, rows, cols, drawing)
    BY <1>1, <1>3 DEF IsPositioned
  <2>2. metrics \in [1..n -> 1..LinesPerPlot] /\ Fits(first.stackOf, n, first.stacks, cols, metrics)
    BY <2>1, Zenon DEF Chosen
  <2> HIDE DEF n, metrics
  <2>3. \A q \in 1..n : metrics[q] \in Nat
    BY <2>2, LayoutAssumption
  <2>4. Fits(first.stackOf, n, stacks, cols, metrics)
    BY <1>1, <2>2, <2>3, FitsMore
  <2>5. Fits(Balanced(first.stackOf, stacks, cols, metrics), n, stacks, cols, metrics)
    BY <1>1, <2>3, <2>4, BalancedIs
  <2>6. Fits(stackOf, n, stacks, cols, metrics)
    BY <2>5, Zenon DEF metrics
  <2>7. PlotsFit(PlotWindows(stackOf, metrics, cols, top, height), n, metrics, stackOf, stacks,
                 cols, top, height)
    BY <1>1, <2>2, <2>6, PlotWindowsIs
  <2> QED
    BY <2>7, Zenon DEF n, metrics
<1> QED
  BY <1>2, <1>3

-----------------------------------------------------------------------------
(* The layout.                                                              *)

\* Of windows laid out on a screen of that size.
Within(w, size) == /\ w.x >= 0 /\ w.x + w.width <= size[2]
                   /\ w.y >= 0 /\ w.y + w.height <= size[1]

AreFit(layout, size) ==
  LET plots == layout.plot IN
  /\ \A d, e \in Monitored : d # e => Apart(layout.device[d], layout.device[e])
  /\ \A k \in DOMAIN plots :
       /\ ~Vacant(plots[k]) /\ Within(plots[k], size)
       /\ \A d \in Monitored : Beneath(plots[k], layout.device[d])
       /\ \A l \in DOMAIN plots : l # k => Apart(plots[k], plots[l])
       /\ Beneath(layout.stats, plots[k])
  /\ Beneath(layout.process, layout.stats)
  /\ \A w \in {layout.stats, layout.process, layout.setup} :
       /\ w.height >= 0 /\ Within(w, size)
       /\ ~Vacant(w) => \A d \in Monitored : Beneath(w, layout.device[d])

\* The plots of windows laid out when the devices draw that many metrics.
ArePlotted(layout, drawing) ==
  LET plots == DOMAIN layout.plot
      lines(k) == Total(Own(k, layout.plotOf, drawing))
  IN
  /\ \A k \in plots : lines(k) \in 1..LinesPerPlot
  /\ (\A d \in Monitored : drawing[d] > 0) =>
       \A k \in plots : Cardinality({d \in Monitored : layout.plotOf[d] = k}) <= LinesPerPlot
  /\ plots # {} => \A d, e \in {i \in Monitored : drawing[i] > 0} :
       layout.plotOf[d] \in plots /\ (d < e => layout.plotOf[d] <= layout.plotOf[e])
  /\ (\A k, l \in plots : k < l => layout.stackOf[k] <= layout.stackOf[l]) =>
       \A k \in plots : (layout.plot[k].width - BoxCols) % lines(k) = 0

\* What the steps of a layout have made: the headers with the lines between
\* them, the plots on their stacks, the block, the table and the setup window.
Made(layout, size, shares, first, space, stack, stacks) ==
  LET bottom == space.header + stack.rows IN
  /\ HeadersFit(layout.device, shares.line.stacks, space.between)
  /\ IsSpaced(space, shares, first.stacks, size[1]) /\ shares.stats \in Nat
  /\ PlotsFit(layout.plot, Len(first.stackOf), first.metrics, stack.stackOf, stacks, size[2],
              space.header, stack.height)
  /\ IsStacked(stack, stacks, space.forPlots) /\ stacks \in Nat /\ stacks * 7 <= space.forPlots
  /\ IsWindow(layout.stats, 0, bottom, size[2], shares.stats)
  /\ IsWindow(layout.process, 0, bottom + shares.stats, size[2], size[1] - bottom - shares.stats)
  /\ IsWindow(layout.setup, 0, space.header, size[2], size[1] - space.header)
  /\ layout.stackOf = stack.stackOf /\ layout.plotOf = first.plotOf

LEMMA MadeIsFit ==
  ASSUME NEW size \in Nat \X Nat, NEW layout, NEW shares, NEW first, NEW space, NEW stack, NEW stacks,
         Made(layout, size, shares, first, space, stack, stacks)
  PROVE  AreFit(layout, size)
<1> DEFINE n == Len(first.stackOf)
           rows == size[1]
           cols == size[2]
           H == space.header
           P == stack.rows
           S == shares.stats
           F == space.forPlots
           plots == layout.plot
           stats == layout.stats
           process == layout.process
           setup == layout.setup
<1>1. rows \in Nat /\ cols \in Nat
  OBVIOUS
<1>2. /\ H \in Nat /\ F \in Nat /\ S \in Nat /\ H + F + S <= rows
      /\ \/ H = rows
         \/ H = shares.line.stacks * HeaderRows + space.between * (shares.line.stacks - 1)
  BY Zenon DEF Made, IsSpaced
<1>3. /\ stack.height \in Nat /\ P = stacks * stack.height /\ P <= F /\ stacks \in Nat
      /\ stacks * 7 <= F /\ (stacks > 0 => stack.height >= 7)
  BY Zenon DEF Made, IsStacked
<1>4. P \in Nat
  BY <1>3
<1>5. /\ DOMAIN plots = 1..n
      /\ \A k \in 1..n :
           /\ plots[k].width \in Nat /\ 5 <= plots[k].width /\ stacks > 0
           /\ plots[k].x \in Nat /\ plots[k].x + plots[k].width <= cols
           /\ plots[k].height = stack.height /\ plots[k].y \in Nat
           /\ H <= plots[k].y /\ plots[k].y + stack.height <= H + P
      /\ \A k, l \in 1..n : k # l => Apart(plots[k], plots[l])
  <2>1. PlotsFit(plots, n, first.metrics, stack.stackOf, stacks, cols, H, stack.height)
    BY Zenon DEF Made
  <2> QED
    BY <1>3, <2>1, Zenon DEF PlotsFit
<1>6. /\ stats.x = 0 /\ stats.y = H + P /\ stats.width = cols /\ stats.height = S
      /\ process.x = 0 /\ process.y = H + P + S /\ process.width = cols
      /\ process.height = rows - (H + P) - S
      /\ setup.x = 0 /\ setup.y = H /\ setup.width = cols /\ setup.height = rows - H
  BY Zenon DEF Made, IsWindow
<1>7. /\ \A d, e \in Monitored : d # e => Apart(layout.device[d], layout.device[e])
      /\ \A d \in Monitored :
           /\ layout.device[d].y + layout.device[d].height \in Nat
           /\ layout.device[d].y + layout.device[d].height
                <= shares.line.stacks * HeaderRows + space.between * (shares.line.stacks - 1)
  BY Zenon DEF Made, HeadersFit
<1>8. (\A d \in Monitored : layout.device[d].y + layout.device[d].height <= H)
        \/ (H = rows /\ F = 0 /\ S = 0 /\ stacks = 0 /\ P = 0)
  <2>1. CASE H = rows
    <3>1. F = 0 /\ S = 0
      BY <1>1, <1>2, <2>1
    <3>2. stacks = 0 /\ P = 0
      BY <1>3, <1>4, <3>1
    <3> QED
      BY <2>1, <3>1, <3>2
  <2>2. CASE H # rows
    <3>1. H = shares.line.stacks * HeaderRows + space.between * (shares.line.stacks - 1)
      BY <1>2, <2>2, Zenon
    <3> QED
      BY <1>7, <3>1, Zenon
  <2> QED
    BY <2>1, <2>2
<1> HIDE DEF n, rows, cols, H, P, S, F, plots, stats, process, setup
<1>9. ASSUME NEW k \in 1..n
      PROVE  /\ ~Vacant(plots[k]) /\ Within(plots[k], size)
             /\ \A d \in Monitored : Beneath(plots[k], layout.device[d])
             /\ \A l \in 1..n : l # k => Apart(plots[k], plots[l])
             /\ Beneath(stats, plots[k])
  <2>1. /\ plots[k].width \in Nat /\ 5 <= plots[k].width /\ stacks > 0
        /\ plots[k].x \in Nat /\ plots[k].x + plots[k].width <= cols
        /\ plots[k].height = stack.height /\ plots[k].y \in Nat
        /\ H <= plots[k].y /\ plots[k].y + stack.height <= H + P
    BY <1>5
  <2>2. ~Vacant(plots[k])
    BY <1>3, <2>1 DEF Vacant
  <2>3. Within(plots[k], size)
    <3>1. H + P <= rows
      BY <1>1, <1>2, <1>3, <1>4
    <3>2. plots[k].y + stack.height <= rows
      BY <1>1, <1>2, <1>3, <1>4, <2>1, <3>1
    <3> QED
      BY <2>1, <3>2 DEF Within, rows, cols
  <2>4. ASSUME NEW d \in Monitored
        PROVE  Beneath(plots[k], layout.device[d])
    <3>1. \A e \in Monitored : layout.device[e].y + layout.device[e].height <= H
      BY <1>3, <1>8, <2>1
    <3> DEFINE z == layout.device[d].y + layout.device[d].height
    <3>2. z <= H /\ z \in Nat
      BY <1>7, <3>1
    <3> HIDE DEF z
    <3>3. z <= plots[k].y
      BY <1>2, <2>1, <3>2
    <3> QED
      BY <3>3 DEF Beneath, z
  <2>5. Beneath(stats, plots[k])
    BY <1>6, <2>1 DEF Beneath
  <2> QED
    BY <1>5, <2>2, <2>3, <2>4, <2>5
<1>10. Beneath(process, stats)
  <2>1. process.y = stats.y + stats.height
    BY <1>6
  <2>2. stats.y + stats.height \in Nat
    BY <1>2, <1>4, <1>6
  <2> QED
    BY <2>1, <2>2 DEF Beneath
<1>11. ASSUME NEW w \in {stats, process, setup}
       PROVE  /\ w.height >= 0 /\ Within(w, size)
              /\ ~Vacant(w) => \A d \in Monitored : Beneath(w, layout.device[d])
  <2>1. /\ w.height >= 0 /\ w.height \in Int /\ w.x = 0 /\ w.width = cols /\ w.y \in Nat
        /\ w.y + w.height <= rows /\ w.y >= H
        /\ H = rows /\ F = 0 /\ S = 0 /\ P = 0 => w.height = 0
    <3>1. H + P + S <= rows
      BY <1>1, <1>2, <1>3, <1>4
    <3>2. CASE w = stats
      BY <1>1, <1>2, <1>4, <1>6, <3>1, <3>2
    <3>3. CASE w = process
      BY <1>1, <1>2, <1>4, <1>6, <3>1, <3>3
    <3>4. CASE w = setup
      BY <1>1, <1>2, <1>4, <1>6, <3>1, <3>4
    <3> QED
      BY <3>2, <3>3, <3>4
  <2>2. Within(w, size)
    BY <1>1, <2>1 DEF Within, rows, cols
  <2>3. ASSUME ~Vacant(w), NEW d \in Monitored
        PROVE  Beneath(w, layout.device[d])
    <3>1. w.height # 0
      BY <2>3 DEF Vacant
    <3> DEFINE z == layout.device[d].y + layout.device[d].height
    <3>2. z <= H /\ z \in Nat
      BY <1>7, <1>8, <2>1, <3>1
    <3> HIDE DEF z
    <3>3. z <= w.y
      BY <1>2, <2>1, <3>2
    <3> QED
      BY <3>3 DEF Beneath, z
  <2> QED
    BY <2>1, <2>2, <2>3
<1> QED
  BY <1>5, <1>7, <1>9, <1>10, <1>11, Zenon DEF AreFit, plots, stats, process, setup

LEMMA MadeIsPlotted ==
  ASSUME NEW size \in Nat \X Nat, NEW drawing \in [Monitored -> 0..LinesPerPlot],
         NEW layout, NEW shares, NEW first, NEW space, NEW stack, NEW stacks,
         Made(layout, size, shares, first, space, stack, stacks),
         NEW rows \in Nat, IsPositioned(first, rows, size[2], drawing)
  PROVE  ArePlotted(layout, drawing)
<1> DEFINE n == Len(first.stackOf)
           metrics == first.metrics
           plotOf == layout.plotOf
           own(k) == Own(k, plotOf, drawing)
<1>1. /\ DOMAIN layout.plot = 1..n
      /\ (\A k, l \in 1..n : k < l => layout.stackOf[k] <= layout.stackOf[l]) =>
           \A k \in 1..n : (layout.plot[k].width - 5) % metrics[k] = 0
  <2>1. PlotsFit(layout.plot, n, metrics, stack.stackOf, stacks, size[2], space.header, stack.height)
    BY Zenon DEF Made
  <2>2. layout.stackOf = stack.stackOf
    BY Zenon DEF Made
  <2> QED
    BY <2>1, <2>2, Zenon DEF PlotsFit
<1>2. plotOf = first.plotOf
  BY Zenon DEF Made
<1>3. plotOf \in [Monitored -> Nat] /\ first.stacks \in Nat
  BY <1>2, Zenon DEF IsPositioned
<1>4. CASE first.stacks = 0
  <2>1. first.stackOf = << >>
    BY <1>4, Zenon DEF IsPositioned
  <2>2. DOMAIN layout.plot = {}
    BY <1>1, <2>1
  <2> QED
    BY <2>2, Zenon DEF ArePlotted
<1>5. CASE first.stacks # 0
  <2>1. Chosen(first, n, rows, size[2], drawing)
    <3>1. first.stacks > 0
      BY <1>3, <1>5
    <3> QED
      BY <3>1, Zenon DEF IsPositioned
  <2>2. /\ metrics \in [1..n -> 1..LinesPerPlot]
        /\ \A k \in 1..n : metrics[k] = Total(own(k))
        /\ \A d \in Monitored : drawing[d] > 0 => plotOf[d] \in 1..n
        /\ \A d, e \in Monitored : drawing[d] > 0 /\ drawing[e] > 0 /\ d < e => plotOf[d] <= plotOf[e]
    BY <1>2, <2>1, Zenon DEF Chosen
  <2>3. LinesPerPlot \in Nat /\ devices_count \in Nat /\ drawing \in [Monitored -> Nat]
    BY LayoutAssumption
  <2> HIDE DEF n, metrics, plotOf
  <2>4. \A k \in 1..n : Total(own(k)) \in 1..LinesPerPlot
    BY <2>2
  <2>5. ASSUME \A d \in Monitored : drawing[d] > 0, NEW k \in 1..n
        PROVE  Cardinality({d \in Monitored : plotOf[d] = k}) <= LinesPerPlot
    <3> DEFINE m == devices_count
               members == {d \in Monitored : plotOf[d] = k}
               one == [d \in 1..m |-> IF d \in members THEN 1 ELSE 0]
               t == own(k)
    <3>1. members \in SUBSET (1..m)
      BY DEF Monitored
    <3>2. Cardinality(members) = Total(one)
      <4> HIDE DEF members
      <4> QED
        BY <2>3, <3>1, CountIs
    <3>3. one \in [1..m -> Nat] /\ \A d \in 1..m : one[d] = IF plotOf[d] = k THEN 1 ELSE 0
      BY DEF Monitored
    <3>4. t \in [1..m -> Nat] /\ \A d \in 1..m : t[d] = IF plotOf[d] = k THEN drawing[d] ELSE 0
      BY <2>3 DEF Own, Monitored
    <3>5. \A d \in 1..m : drawing[d] \in Nat /\ drawing[d] > 0
      BY <2>3, <2>5 DEF Monitored
    <3> HIDE DEF one, t, m, members
    <3>6. \A d \in 1..m : one[d] <= t[d]
      BY <3>3, <3>4, <3>5
    <3>7. Total(one) <= Total(t)
      BY <2>3, <3>3, <3>4, <3>6, TotalEach DEF m
    <3>8. Total(one) \in Nat /\ Total(t) \in 1..LinesPerPlot
      BY <2>3, <2>4, <3>3, TotalNat DEF m, t
    <3> QED
      BY <2>3, <3>2, <3>7, <3>8 DEF members
  <2>6. ASSUME \A k, l \in 1..n : k < l => layout.stackOf[k] <= layout.stackOf[l], NEW k \in 1..n
        PROVE  (layout.plot[k].width - BoxCols) % Total(own(k)) = 0
    <3>1. (layout.plot[k].width - 5) % metrics[k] = 0
      BY <1>1, <2>6
    <3> QED
      BY <2>2, <3>1, Zenon DEF BoxCols
  <2>7. \A d, e \in {i \in Monitored : drawing[i] > 0} :
          plotOf[d] \in 1..n /\ (d < e => plotOf[d] <= plotOf[e])
    BY <2>2, Zenon
  <2> QED
    BY <1>1, <2>4, <2>5, <2>6, <2>7, Zenon DEF ArePlotted, plotOf
<1> QED
  BY <1>4, <1>5

LEMMA LaidOutIs ==
  ASSUME NEW size \in Nat \X Nat, NEW drawing \in [Monitored -> 0..LinesPerPlot],
         NEW shown, NEW hidden, NEW lower \in Nat
  PROVE  /\ AreFit(LaidOut(size, drawing, shown, hidden, lower), size)
         /\ ArePlotted(LaidOut(size, drawing, shown, hidden, lower), drawing)
<1> DEFINE rows == size[1]
           cols == size[2]
           line == PerRow(cols)
           budget == Budget(rows, line.stacks, shown, hidden)
           shares == Shares(rows, line, budget, shown, hidden, lower)
           left == shares.free - shares.stats
           first == Positioned(left, cols, drawing)
           space == Spaced(shares, first)
           n == Len(first.stackOf)
           stacks == MoreStacks(first.stacks, n, space.forPlots)
           stack == Stacked(space, first, cols, hidden, stacks)
           layout == LaidOut(size, drawing, shown, hidden, lower)
           bottom == space.header + stack.rows
<1>1. layout = WindowsOf(size, shares, first, space, stack)
  BY Zenon DEF LaidOut
<1>2. rows \in Nat /\ cols \in Nat
  OBVIOUS
<1> HIDE DEF rows, cols
<1>3. IsLine(line)
  BY <1>2, PerRowIs
<1> HIDE DEF line
<1>4. IsBudget(budget, rows, line.stacks)
  BY <1>2, <1>3, BudgetIs DEF IsLine
<1> HIDE DEF budget
<1>5. IsShares(shares, rows) /\ shares.line = line
  BY <1>2, <1>3, <1>4, SharesIs
<1> HIDE DEF shares
<1>6. left \in Nat /\ shares.stats \in Nat
  BY <1>5 DEF IsShares
<1> HIDE DEF left
<1>7. IsPositioned(first, left, cols, drawing)
  BY <1>2, <1>6, PositionedIs
<1> HIDE DEF first
<1>8. first.stacks \in Nat /\ n \in Nat /\ first.stacks * 7 <= left
  BY <1>6, <1>7 DEF IsPositioned, Chosen
<1> HIDE DEF n
<1>9. IsSpaced(space, shares, first.stacks, rows)
  BY <1>2, <1>3, <1>5, <1>8, SpacedIs DEF left
<1> HIDE DEF space
<1>10. /\ space.forPlots \in Nat /\ space.header \in Nat /\ first.stacks * 7 <= space.forPlots
       /\ space.between \in {0, 1}
  BY <1>9, Zenon DEF IsSpaced
<1>11. /\ stacks \in Nat /\ first.stacks <= stacks /\ stacks * 7 <= space.forPlots
       /\ first.stacks = 0 => stacks = 0
  BY <1>8, <1>10, MoreStacksIs
<1> HIDE DEF stacks
<1>12. /\ IsStacked(stack, stacks, space.forPlots)
       /\ stack.stackOf = Balanced(first.stackOf, stacks, cols, first.metrics)
  BY <1>10, <1>11, StackedIs
<1> HIDE DEF stack
<1>13. stack.height \in Nat
  BY <1>12, Zenon DEF IsStacked
<1>14. layout = [device |-> Headers(cols, shares.line.perRow, space.between),
                 plot |-> PlotWindows(stack.stackOf, first.metrics, cols, space.header, stack.height),
                 plotOf |-> first.plotOf,
                 stackOf |-> stack.stackOf,
                 stats |-> Window(0, bottom, cols, shares.stats),
                 process |-> Window(0, bottom + shares.stats, cols, rows - bottom - shares.stats),
                 setup |-> Window(0, space.header, cols, rows - space.header)]
  BY <1>1, Zenon DEF WindowsOf, rows, cols
<1> HIDE DEF layout, bottom
<1>15. /\ layout.device = Headers(cols, shares.line.perRow, space.between)
       /\ layout.plot = PlotWindows(stack.stackOf, first.metrics, cols, space.header, stack.height)
       /\ layout.plotOf = first.plotOf /\ layout.stackOf = stack.stackOf
       /\ layout.stats = Window(0, bottom, cols, shares.stats)
       /\ layout.process = Window(0, bottom + shares.stats, cols, rows - bottom - shares.stats)
       /\ layout.setup = Window(0, space.header, cols, rows - space.header)
  BY <1>14
<1>16. HeadersFit(layout.device, shares.line.stacks, space.between)
  <2>1. HeadersFit(Headers(cols, line.perRow, space.between), line.stacks, space.between)
    BY <1>2, <1>3, <1>10, HeadersIs
  <2> QED
    BY <1>5, <1>15, <2>1
<1>17. PlotsFit(layout.plot, n, first.metrics, stack.stackOf, stacks, cols, space.header, stack.height)
  <2> DEFINE stackOf == stack.stackOf
             top == space.header
             height == stack.height
  <2>1. /\ top \in Nat /\ height \in Nat
        /\ stackOf = Balanced(first.stackOf, stacks, cols, first.metrics)
    BY <1>10, <1>12, <1>13
  <2> HIDE DEF stackOf, top, height
  <2>2. PlotsFit(PlotWindows(stackOf, first.metrics, cols, top, height), Len(first.stackOf),
                 first.metrics, stackOf, stacks, cols, top, height)
    BY <1>2, <1>6, <1>7, <1>11, <2>1, PlacedPlotsFit
  <2> QED
    BY <1>15, <2>2, Zenon DEF n, stackOf, top, height
<1>18. /\ IsWindow(layout.stats, 0, bottom, cols, shares.stats)
       /\ IsWindow(layout.process, 0, bottom + shares.stats, cols, rows - bottom - shares.stats)
       /\ IsWindow(layout.setup, 0, space.header, cols, rows - space.header)
  BY <1>15, WindowIs
<1>19. Made(layout, size, shares, first, space, stack, stacks)
  BY <1>6, <1>9, <1>11, <1>12, <1>15, <1>16, <1>17, <1>18, Zenon DEF Made, n, rows, cols, bottom
<1>20. AreFit(layout, size)
  BY <1>19, MadeIsFit
<1>21. ArePlotted(layout, drawing)
  BY <1>6, <1>7, <1>19, MadeIsPlotted DEF cols
<1> QED
  BY <1>20, <1>21 DEF layout

-----------------------------------------------------------------------------
(* What the steps keep.                                                     *)

LayoutTyped ==
  terminal \in Terminals /\ draws \in [Monitored -> 0..LinesPerPlot] /\ modifier \in Nat

\* Windows and terminal change together; metrics change under the windows only
\* while the setup window is open, and closing it lays the windows out again.
LayoutInv ==
  /\ LayoutTyped /\ AreFit(windows, terminal)
  /\ setupVisible \/ ArePlotted(windows, draws)

LEMMA InvIsSafe == LayoutInv => WindowsFit /\ EveryMetricPlotted
<1>1. AreFit(windows, terminal) => WindowsFit
  BY Zenon DEF AreFit, WindowsFit, Within, Inside
<1>2. ArePlotted(windows, draws) => EveryMetricPlotted
  <2>1. \A k : LinesOf(k) = Total(Own(k, windows.plotOf, draws))
    BY Zenon DEF LinesOf, Own
  <2>2. \A k : DevicesOf(k) = {d \in Monitored : windows.plotOf[d] = k}
    BY Zenon DEF DevicesOf
  <2> QED
    BY <2>1, <2>2, Zenon DEF ArePlotted, EveryMetricPlotted, PlotDataDivides
<1>3. setupVisible => EveryMetricPlotted
  BY Zenon DEF EveryMetricPlotted
<1> QED
  BY <1>1, <1>2, <1>3, Zenon DEF LayoutInv

LEMMA LaidOutInv ==
  ASSUME NEW size \in Terminals, NEW drawing \in [Monitored -> 0..LinesPerPlot],
         NEW shown, NEW hidden, NEW lower \in Nat
  PROVE  /\ AreFit(LaidOut(size, drawing, shown, hidden, lower), size)
         /\ ArePlotted(LaidOut(size, drawing, shown, hidden, lower), drawing)
<1>1. size \in Nat \X Nat
  BY LayoutAssumption
<1> QED
  BY <1>1, LaidOutIs

LEMMA LayoutInitInv == LayoutInit => LayoutInv
<1> SUFFICES ASSUME LayoutInit
             PROVE  LayoutInv
  OBVIOUS
<1>1. LayoutTyped
  BY DEF LayoutInit, LayoutTyped
<1>2. windows = LaidOut(terminal, draws, fields, hide, modifier)
  BY Zenon DEF LayoutInit
<1>3. AreFit(windows, terminal) /\ ArePlotted(windows, draws)
  BY <1>1, <1>2, LaidOutInv DEF LayoutTyped
<1> QED
  BY <1>1, <1>3, Zenon DEF LayoutInv

\* A step that lays the windows out makes them right.
LEMMA LayOutInv ==
  ASSUME LayoutTyped', LayOut
  PROVE  LayoutInv'
<1>1. windows' = LaidOut(terminal', draws', fields', hide', modifier')
  BY Zenon DEF LayOut
<1>2. AreFit(windows', terminal') /\ ArePlotted(windows', draws')
  BY <1>1, LaidOutInv DEF LayoutTyped
<1> QED
  BY <1>2, Zenon DEF LayoutInv

LEMMA LayoutStepInv ==
  ASSUME LayoutInv, [LayoutNext]_layoutVars
  PROVE  LayoutInv'
<1>1. LayoutTyped /\ AreFit(windows, terminal)
  BY Zenon DEF LayoutInv
<1>2. LinesPerPlot \in Nat
  BY LayoutAssumption
<1>3. CASE Resize
  <2>1. LayoutTyped' /\ LayOut
    BY <1>1, <1>3 DEF LayoutTyped, Resize
  <2> QED
    BY <2>1, LayOutInv
<1>4. CASE PlotHeight
  <2>1. modifier' \in Nat
    BY <1>1, <1>4 DEF LayoutTyped, PlotHeight, Most
  <2>2. LayoutTyped' /\ LayOut
    BY <1>1, <1>4, <2>1 DEF LayoutTyped, PlotHeight
  <2> QED
    BY <2>2, LayOutInv
<1>5. CASE OpenSetup
  <2>1. LayoutTyped'
    BY <1>1, <1>5 DEF LayoutTyped, OpenSetup
  <2>2. setupVisible' /\ windows' = windows /\ terminal' = terminal
    BY <1>5, Zenon DEF OpenSetup
  <2> QED
    BY <1>1, <2>1, <2>2, Zenon DEF LayoutInv
<1>6. CASE CloseSetup
  <2>1. LayoutTyped' /\ LayOut
    BY <1>1, <1>6 DEF LayoutTyped, CloseSetup
  <2> QED
    BY <2>1, LayOutInv
<1>7. ASSUME NEW d \in Monitored, ToggleMetric(d)
      PROVE  LayoutInv'
  <2>1. draws' \in [Monitored -> 0..LinesPerPlot]
    <3>1. draws[d] \in 0..LinesPerPlot
      BY <1>1 DEF LayoutTyped
    <3>2. CASE draws[d] > 0 /\ draws' = [draws EXCEPT ![d] = @ - 1]
      <4>1. draws[d] - 1 \in 0..LinesPerPlot
        BY <1>2, <3>1, <3>2
      <4> QED
        BY <1>1, <3>2, <4>1 DEF LayoutTyped
    <3>3. CASE draws[d] < LinesPerPlot /\ draws' = [draws EXCEPT ![d] = @ + 1]
      <4>1. draws[d] + 1 \in 0..LinesPerPlot
        BY <1>2, <3>1, <3>3
      <4> QED
        BY <1>1, <3>3, <4>1 DEF LayoutTyped
    <3> QED
      BY <1>7, <3>2, <3>3, Zenon DEF ToggleMetric
  <2>2. /\ setupVisible' /\ windows' = windows /\ terminal' = terminal
        /\ modifier' = modifier
    BY <1>7, Zenon DEF ToggleMetric
  <2> QED
    BY <1>1, <2>1, <2>2, Zenon DEF LayoutInv, LayoutTyped
<1>8. CASE ToggleMetricOfAll
  <2>1. draws' \in [Monitored -> 0..LinesPerPlot]
    <3>1. PICK having \in SUBSET {d \in Monitored : draws[d] > 0} :
            draws' = [d \in Monitored |->
                        CASE having = Monitored -> draws[d] - 1
                          [] having # Monitored /\ d \notin having -> Least(draws[d] + 1, LinesPerPlot)
                          [] OTHER -> draws[d]]
      BY <1>8, Zenon DEF ToggleMetricOfAll
    <3>2. \A d \in Monitored : draws[d] \in 0..LinesPerPlot
      BY <1>1 DEF LayoutTyped
    <3>3. \A d \in Monitored : Least(draws[d] + 1, LinesPerPlot) \in 0..LinesPerPlot
      BY <1>2, <3>2 DEF Least
    <3>4. \A d \in Monitored : d \in having => draws[d] - 1 \in 0..LinesPerPlot
      BY <1>2, <3>1, <3>2
    <3>5. CASE having = Monitored
      <4>1. draws' = [d \in Monitored |-> draws[d] - 1]
        BY <3>1, <3>5, Zenon
      <4> QED
        BY <3>4, <3>5, <4>1
    <3>6. CASE having # Monitored
      <4>1. draws' = [d \in Monitored |-> IF d \notin having THEN Least(draws[d] + 1, LinesPerPlot)
                                          ELSE draws[d]]
        BY <3>1, <3>6
      <4> QED
        BY <3>2, <3>3, <4>1, Zenon
    <3> QED
      BY <3>5, <3>6
  <2>2. /\ setupVisible' /\ windows' = windows /\ terminal' = terminal
        /\ modifier' = modifier
    BY <1>8, Zenon DEF ToggleMetricOfAll
  <2> QED
    BY <1>1, <2>1, <2>2, Zenon DEF LayoutInv, LayoutTyped
<1>9. CASE ToggleProcessOptions
  <2>1. /\ setupVisible' /\ windows' = windows /\ terminal' = terminal
        /\ modifier' = modifier /\ draws' = draws
    BY <1>9, Zenon DEF ToggleProcessOptions
  <2> QED
    BY <1>1, <2>1, Zenon DEF LayoutInv, LayoutTyped
<1>10. CASE UNCHANGED layoutVars
  <2>1. /\ setupVisible' = setupVisible /\ windows' = windows /\ terminal' = terminal
        /\ modifier' = modifier /\ draws' = draws
    BY <1>10, Zenon DEF layoutVars
  <2> QED
    BY <2>1, Zenon DEF LayoutInv, LayoutTyped
<1> QED
  BY <1>3, <1>4, <1>5, <1>6, <1>7, <1>8, <1>9, <1>10, Zenon DEF LayoutNext

\* On every screen, whatever the devices draw, the windows do not overlap, stay
\* on the screen and are not empty if they must not be.
THEOREM LayoutFits == LayoutSpec => []WindowsFit
<1>1. LayoutInit => LayoutInv
  BY LayoutInitInv
<1>2. LayoutInv /\ [LayoutNext]_layoutVars => LayoutInv'
  BY LayoutStepInv
<1>3. LayoutInv => WindowsFit
  BY InvIsSafe
<1> QED
  BY <1>1, <1>2, <1>3, PTL DEF LayoutSpec

\* Unless the user is choosing, what every device draws is in one plot that has
\* the lines for it, and the data of the plots divide if none was moved past
\* the next.
THEOREM LayoutPlotsMetrics == LayoutSpec => []EveryMetricPlotted
<1>1. LayoutInit => LayoutInv
  BY LayoutInitInv
<1>2. LayoutInv /\ [LayoutNext]_layoutVars => LayoutInv'
  BY LayoutStepInv
<1>3. LayoutInv => EveryMetricPlotted
  BY InvIsSafe
<1> QED
  BY <1>1, <1>2, <1>3, PTL DEF LayoutSpec
=============================================================================
