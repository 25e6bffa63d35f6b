----------------------------- MODULE FoldLemmas -----------------------------
(***************************************************************************)
(* Facts about recursion over finite sets, and about the folds of the      *)
(* community modules that are defined by it (MapThenFoldSet and what rests *)
(* on it: MapThenSumSet and FoldLeft).  A step of a fold is a function     *)
(* here, so that the facts can be used for any fold.                       *)
(***************************************************************************)
EXTENDS Integers, FiniteSetTheorems, WellFoundedInduction, TLAPS

\* first chooses an element of each non-empty subset.
Chooses(first, S) == \A s \in SUBSET S : s # {} => first[s] \in s

\* g folds the subsets of S into V, the chosen element last.
Computes(g, S, V, first, step, base) ==
    /\ g \in [SUBSET S -> V]
    /\ g[{}] = base
    /\ \A s \in SUBSET S : s # {} => g[s] = step[<<first[s], g[s \ {first[s]}]>>]

\* h takes the same steps wherever it has stayed in V.
Follows(h, S, V, first, step, base) ==
    /\ h[{}] = base
    /\ \A s \in SUBSET S : s # {} /\ h[s \ {first[s]}] \in V =>
          h[s] = step[<<first[s], h[s \ {first[s]}]>>]

\* A set of finite sets has a member that no other member is a subset of.
LEMMA SmallestSet ==
  ASSUME NEW S, IsFiniteSet(S), NEW Bad \in SUBSET SUBSET S, Bad # {}
  PROVE  \E T \in Bad : \A s \in SUBSET T : s # T => s \notin Bad
  <1>1. Bad \subseteq FiniteSubsetsOf(S)
    BY FS_Subset DEF FiniteSubsetsOf
  <1>2. PICK T \in Bad : \A s \in Bad : <<s, T>> \notin StrictSubsetOrdering(S)
    BY <1>1, FS_StrictSubsetOrderingWellFounded, WFMin
  <1>3. ASSUME NEW s \in SUBSET T, s # T
        PROVE  s \notin Bad
    <2>1. s \in SUBSET S /\ T \in SUBSET S
      OBVIOUS
    <2>2. <<s, T>> \in StrictSubsetOrdering(S)
      BY <1>3, <2>1 DEF StrictSubsetOrdering
    <2> QED
      BY <1>2, <2>2
  <1> QED
    BY <1>3

\* A set of naturals has a least member.
LEMMA LeastNatural ==
  ASSUME NEW Bad \in SUBSET Nat, Bad # {}
  PROVE  \E n \in Bad : \A m \in Bad : n <= m
  <1>1. PICK k \in Bad : TRUE
    OBVIOUS
  <1> DEFINE Below == {1..n : n \in {m \in Bad : m <= k}}
  <1>2. PICK all : all = 1..k
    OBVIOUS
  <1>3. IsFiniteSet(all) /\ Below \in SUBSET SUBSET all /\ all \in Below
    <2>1. IsFiniteSet(all)
      <3>1. 1 \in Int /\ k \in Int
        OBVIOUS
      <3> QED
        BY <1>2, <3>1, FS_Interval
    <2>2. \A n \in Nat : n <= k => 1..n \subseteq all
      BY <1>2
    <2>3. all \in Below
      BY <1>2
    <2> QED
      BY <2>1, <2>2, <2>3
  <1>4. PICK T \in Below : \A s \in SUBSET T : s # T => s \notin Below
    <2>1. Below # {}
      BY <1>3
    <2> HIDE DEF Below
    <2> QED
      BY <1>3, <2>1, SmallestSet
  <1>5. PICK n \in Bad : n <= k /\ T = 1..n
    OBVIOUS
  <1>6. ASSUME NEW m \in Bad, m < n
        PROVE  FALSE
    <2>1. m \in Nat /\ n \in Nat /\ k \in Nat
      OBVIOUS
    <2>2. 1..m \in SUBSET (1..n) /\ n \in 1..n /\ n \notin 1..m
      BY <1>6, <2>1
    <2>3. 1..m \in Below
      BY <1>5, <1>6, <2>1
    <2> QED
      BY <1>4, <1>5, <2>2, <2>3
  <1> QED
    BY <1>6

\* Whatever is computed by the same steps, as long as they stay in V, is equal.
LEMMA FoldUnique ==
  ASSUME NEW S, IsFiniteSet(S), NEW V, NEW first, Chooses(first, S), NEW step, NEW base,
         NEW g, Computes(g, S, V, first, step, base),
         NEW h, Follows(h, S, V, first, step, base)
  PROVE  \A s \in SUBSET S : h[s] = g[s]
  <1> DEFINE Bad == {s \in SUBSET S : h[s] # g[s]}
  <1> SUFFICES ASSUME Bad # {} PROVE FALSE
    OBVIOUS
  <1>1. PICK T \in Bad : \A s \in SUBSET T : s # T => s \notin Bad
    <2> HIDE DEF Bad
    <2>1. Bad \in SUBSET SUBSET S
      BY DEF Bad
    <2> QED
      BY <2>1, SmallestSet
  <1>2. T \in SUBSET S /\ h[T] # g[T]
    OBVIOUS
  <1>3. T # {}
    BY <1>2 DEF Computes, Follows
  <1> DEFINE r == T \ {first[T]}
  <1>4. first[T] \in T /\ r \in SUBSET T /\ r # T
    BY <1>2, <1>3 DEF Chooses
  <1>5. h[r] = g[r] /\ g[r] \in V
    BY <1>1, <1>2, <1>4 DEF Computes
  <1> QED
    BY <1>2, <1>3, <1>5 DEF Computes, Follows

\* The recursion that defines a fold has a solution.
THEOREM FoldExists ==
  ASSUME NEW S, IsFiniteSet(S), NEW V, NEW first, Chooses(first, S),
         NEW base \in V, NEW step \in [S \X V -> V]
  PROVE  \E g : Computes(g, S, V, first, step, base)
  <1> DEFINE Has(T) == \E g : Computes(g, T, V, first, step, base)
             Bad == {T \in SUBSET S : ~Has(T)}
  <1> SUFFICES ASSUME Bad # {} PROVE FALSE
    OBVIOUS
  <1>1. PICK T \in Bad : \A s \in SUBSET T : s # T => s \notin Bad
    <2> HIDE DEF Bad
    <2>1. Bad \in SUBSET SUBSET S
      BY DEF Bad
    <2> QED
      BY <2>1, SmallestSet
  <1>2. T \in SUBSET S /\ ~Has(T) /\ \A s \in SUBSET T : s # T => Has(s)
    BY <1>1
  <1> DEFINE G(s) == CHOOSE g : Computes(g, s, V, first, step, base)
  <1>3. \A s \in SUBSET T : s # T => Computes(G(s), s, V, first, step, base)
    BY <1>2
  <1> HIDE DEF G, Bad
  <1>4. \A s \in SUBSET T : s # {} => /\ first[s] \in s /\ first[s] \in S
                                      /\ s \ {first[s]} \in SUBSET T /\ s \ {first[s]} # T
    BY <1>2 DEF Chooses
  <1> DEFINE h == [s \in SUBSET T |->
                     IF s = {} THEN base
                     ELSE step[<<first[s], G(s \ {first[s]})[s \ {first[s]}]>>]]
  <1>5. \A s \in SUBSET T : s # T => G(s)[s] \in V /\ G(s)[{}] = base
    BY <1>3 DEF Computes
  <1>6. h \in [SUBSET T -> V]
    <2>1. ASSUME NEW s \in SUBSET T, s # {}
          PROVE  step[<<first[s], G(s \ {first[s]})[s \ {first[s]}]>>] \in V
      BY <1>4, <1>5, <2>1
    <2> QED
      BY <2>1
  <1>7. h[{}] = base
    OBVIOUS
  <1>8. ASSUME NEW s \in SUBSET T, s # T
        PROVE  h[s] = G(s)[s]
    <2>1. CASE s = {}
      BY <1>5, <1>7, <1>8, <2>1
    <2>2. CASE s # {}
      <3>0. PICK r : r = s \ {first[s]}
        OBVIOUS
      <3>1. r \in SUBSET T /\ r # T /\ r \in SUBSET s
        BY <1>4, <2>2, <3>0
      <3>2. h[s] = step[<<first[s], G(r)[r]>>]
        BY <2>2, <3>0
      <3>3. Computes(G(r), r, V, first, step, base) /\ Computes(G(s), s, V, first, step, base)
        BY <1>3, <1>8, <3>1
      <3>4. G(s)[s] = step[<<first[s], G(s)[r]>>]
        BY <2>2, <3>0, <3>3 DEF Computes
      <3>5. G(s)[r] = G(r)[r]
        <4>1. IsFiniteSet(r) /\ Chooses(first, r)
          BY <1>2, <3>1, FS_Subset DEF Chooses
        <4>2. \A q \in SUBSET r : q # {} /\ G(s)[q \ {first[q]}] \in V =>
                 G(s)[q] = step[<<first[q], G(s)[q \ {first[q]}]>>]
          BY <3>1, <3>3 DEF Computes
        <4>3. G(s)[{}] = base
          BY <3>3 DEF Computes
        <4>4. \A q \in SUBSET r : G(s)[q] = G(r)[q]
          <5>0. PICK h1, h2 : h1 = G(s) /\ h2 = G(r)
            OBVIOUS
          <5>1. Computes(h2, r, V, first, step, base)
            BY <3>3, <5>0
          <5>3. Follows(h1, r, V, first, step, base)
            BY <4>2, <4>3, <5>0 DEF Follows
          <5>2. \A q \in SUBSET r : h1[q] = h2[q]
            BY <4>1, <5>1, <5>3, FoldUnique
          <5> QED
            BY <5>0, <5>2
        <4> QED
          BY <4>4
      <3> QED
        BY <3>2, <3>4, <3>5
    <2> QED
      BY <2>1, <2>2
  <1>9. ASSUME NEW s \in SUBSET T, s # {}
        PROVE  h[s] = step[<<first[s], h[s \ {first[s]}]>>]
    BY <1>4, <1>8, <1>9
  <1> HIDE DEF h
  <1>10. Computes(h, T, V, first, step, base)
    BY <1>6, <1>7, <1>9 DEF Computes
  <1> QED
    BY <1>2, <1>10

\* A part of a set is folded as the set is.
LEMMA FoldOfPart ==
  ASSUME NEW S, NEW T \in SUBSET S, NEW V, NEW first, NEW step, NEW base, NEW g,
         Computes(g, S, V, first, step, base),
         NEW k, k = [s \in SUBSET T |-> g[s]]
  PROVE  Computes(k, T, V, first, step, base)
  BY DEF Computes

-----------------------------------------------------------------------------
(* Sums.                                                                   *)

\* g adds up the values v of the members of a set, whichever comes first.
Adds(g, S, v) ==
    /\ g \in [SUBSET S -> Nat]
    /\ g[{}] = 0
    /\ \A T \in SUBSET S : \A x \in T : g[T] = v[x] + g[T \ {x}]

\* The order in which a sum is computed does not matter.
LEMMA AnyOrder ==
  ASSUME NEW S, IsFiniteSet(S), NEW v \in [S -> Nat], NEW first, Chooses(first, S),
         NEW g, Computes(g, S, Nat, first, [p \in S \X Nat |-> v[p[1]] + p[2]], 0)
  PROVE  Adds(g, S, v)
  <1>1. g \in [SUBSET S -> Nat] /\ g[{}] = 0
    BY DEF Computes
  <1>2. ASSUME NEW s \in SUBSET S, s # {}
        PROVE  g[s] = v[first[s]] + g[s \ {first[s]}]
    <2>1. first[s] \in S /\ g[s \ {first[s]}] \in Nat
      BY <1>1, <1>2 DEF Chooses
    <2> QED
      BY <1>2, <2>1 DEF Computes
  <1> DEFINE Bad == {T \in SUBSET S : \E x \in T : g[T] # v[x] + g[T \ {x}]}
  <1>3. Bad = {}
    <2> SUFFICES ASSUME Bad # {} PROVE FALSE
      OBVIOUS
    <2>1. PICK T \in Bad : \A s \in SUBSET T : s # T => s \notin Bad
      <3> HIDE DEF Bad
      <3>1. Bad \in SUBSET SUBSET S
        BY DEF Bad
      <3> QED
        BY <3>1, SmallestSet
    <2>2. PICK x \in T : g[T] # v[x] + g[T \ {x}]
      OBVIOUS
    <2>3. PICK y : y = first[T]
      OBVIOUS
    <2>4. T \in SUBSET S /\ y \in T /\ g[T] = v[y] + g[T \ {y}]
      BY <1>2, <2>2, <2>3 DEF Chooses
    <2>5. x # y
      BY <2>2, <2>4
    <2> DEFINE r == T \ {x, y}
    <2>6. /\ T \ {y} \in SUBSET T /\ T \ {y} # T /\ x \in T \ {y} /\ (T \ {y}) \ {x} = r
          /\ T \ {x} \in SUBSET T /\ T \ {x} # T /\ y \in T \ {x} /\ (T \ {x}) \ {y} = r
      BY <2>2, <2>4, <2>5
    <2>7. T \ {y} \notin Bad /\ T \ {x} \notin Bad
      BY <2>1, <2>6
    <2>8. g[T \ {y}] = v[x] + g[r] /\ g[T \ {x}] = v[y] + g[r]
      BY <2>4, <2>6, <2>7
    <2>9. v[x] \in Nat /\ v[y] \in Nat /\ g[r] \in Nat
      BY <1>1, <2>2, <2>4
    <2> QED
      BY <2>2, <2>4, <2>8, <2>9
  <1> QED
    BY <1>1, <1>3 DEF Adds

\* A set that is larger does not sum up to less.
LEMMA LargerSum ==
  ASSUME NEW S, IsFiniteSet(S), NEW v \in [S -> Nat], NEW g, Adds(g, S, v),
         NEW U \in SUBSET S, NEW T \in SUBSET U
  PROVE  g[T] <= g[U]
  <1> DEFINE Bad == {W \in SUBSET U : T \subseteq W /\ ~(g[T] <= g[W])}
  <1> SUFFICES ASSUME Bad # {} PROVE FALSE
    OBVIOUS
  <1>1. PICK W \in Bad : \A s \in SUBSET W : s # W => s \notin Bad
    <2> HIDE DEF Bad
    <2>1. Bad \in SUBSET SUBSET S
      BY DEF Bad
    <2> QED
      BY <2>1, SmallestSet
  <1>2. W \in SUBSET S /\ T \in SUBSET S /\ T \subseteq W /\ ~(g[T] <= g[W])
    OBVIOUS
  <1>3. g[T] \in Nat /\ g[W] \in Nat
    BY <1>2 DEF Adds
  <1>4. PICK x \in W : x \notin T
    BY <1>2, <1>3
  <1> DEFINE r == W \ {x}
  <1>5. r \in SUBSET W /\ r # W /\ T \subseteq r
    BY <1>2, <1>4
  <1>6. g[T] <= g[r]
    BY <1>1, <1>5
  <1>7. g[W] = v[x] + g[r] /\ v[x] \in Nat /\ g[r] \in Nat
    BY <1>2, <1>4 DEF Adds
  <1> QED
    BY <1>2, <1>3, <1>6, <1>7

-----------------------------------------------------------------------------
(* Recursion over an interval of the naturals.                             *)

\* r starts at base and takes a step of V for each of 1..n.
Counts(r, n, V, step, base) ==
    /\ r \in [0..n -> V]
    /\ r[0] = base
    /\ \A k \in 1..n : r[k] = step[<<k, r[k - 1]>>]

THEOREM CountExists ==
  ASSUME NEW n \in Nat, NEW V, NEW base \in V, NEW step \in [(1..n) \X V -> V]
  PROVE  \E r : Counts(r, n, V, step, base)
  <1> DEFINE Has(m) == \E r : Counts(r, m, V, step, base)
             Bad == {m \in 0..n : ~Has(m)}
  <1> SUFFICES ASSUME Bad # {} PROVE FALSE
    OBVIOUS
  <1>1. PICK m \in Bad : \A k \in Bad : m <= k
    <2>1. Bad \in SUBSET Nat
      OBVIOUS
    <2> HIDE DEF Bad
    <2> QED
      BY <2>1, LeastNatural
  <1>2. m \in 0..n /\ ~Has(m) /\ \A k \in 0..n : k < m => Has(k)
    BY <1>1
  <1>3. m # 0
    <2>1. [k \in {0} |-> base] \in [0..0 -> V]
      OBVIOUS
    <2>2. Counts([k \in 0..0 |-> base], 0, V, step, base)
      BY <2>1 DEF Counts
    <2> QED
      BY <1>2, <2>2
  <1>4. PICK r : Counts(r, m - 1, V, step, base)
    BY <1>2, <1>3
  <1> DEFINE q == [k \in 0..m |-> IF k = m THEN step[<<m, r[m - 1]>>] ELSE r[k]]
  <1>5. step[<<m, r[m - 1]>>] \in V
    BY <1>2, <1>3, <1>4 DEF Counts
  <1>6. q \in [0..m -> V] /\ q[0] = base
    BY <1>2, <1>3, <1>4, <1>5 DEF Counts
  <1>7. ASSUME NEW k \in 1..m
        PROVE  q[k] = step[<<k, q[k - 1]>>]
    <2>1. k - 1 \in 0..m /\ k - 1 # m /\ k \in 0..m
      BY <1>2, <1>7
    <2>2. q[k - 1] = r[k - 1] /\ q[k] = IF k = m THEN step[<<m, r[m - 1]>>] ELSE r[k]
      BY <2>1
    <2>3. k # m => k \in 1..(m - 1)
      BY <1>2, <1>7
    <2> HIDE DEF q
    <2> QED
      BY <1>4, <2>2, <2>3 DEF Counts
  <1> HIDE DEF q
  <1>8. Counts(q, m, V, step, base)
    BY <1>6, <1>7 DEF Counts
  <1> QED
    BY <1>2, <1>8

\* Whatever is counted by the same steps, as long as they stay in V, is equal.
LEMMA CountUnique ==
  ASSUME NEW n \in Nat, NEW V, NEW step, NEW base, NEW r, Counts(r, n, V, step, base),
         NEW h, h[0] = base,
         \A k \in 1..n : h[k - 1] \in V => h[k] = step[<<k, h[k - 1]>>]
  PROVE  \A k \in 0..n : h[k] = r[k]
  <1> DEFINE Bad == {k \in 0..n : h[k] # r[k]}
  <1> SUFFICES ASSUME Bad # {} PROVE FALSE
    OBVIOUS
  <1>1. PICK m \in Bad : \A k \in Bad : m <= k
    <2>1. Bad \in SUBSET Nat
      OBVIOUS
    <2> HIDE DEF Bad
    <2> QED
      BY <2>1, LeastNatural
  <1>2. m \in 0..n /\ h[m] # r[m] /\ \A k \in 0..n : k < m => h[k] = r[k]
    BY <1>1
  <1>3. m # 0 /\ m - 1 \in 0..n /\ m \in 1..n
    BY <1>2 DEF Counts
  <1>4. h[m - 1] = r[m - 1] /\ r[m - 1] \in V
    BY <1>2, <1>3 DEF Counts
  <1> QED
    BY <1>2, <1>3, <1>4 DEF Counts

-----------------------------------------------------------------------------
(* Folds from the left.                                                    *)

\* last chooses the greatest element of each non-empty subset of 1..n.
Lasts(last, n) ==
    \A s \in SUBSET (1..n) : s # {} => last[s] \in s /\ \A y \in s : last[s] >= y

\* There is a greatest element to choose.
LEMMA GreatestOf ==
  ASSUME NEW n \in Nat, NEW s \in SUBSET (1..n), s # {}
  PROVE  \E x \in s : \A y \in s : x >= y
  <1> DEFINE Above == {m \in Nat : \A y \in s : m >= y}
  <1>1. n \in Above
    OBVIOUS
  <1>2. PICK x \in Above : \A m \in Above : x <= m
    <2>1. Above \in SUBSET Nat /\ Above # {}
      BY <1>1
    <2> HIDE DEF Above
    <2> QED
      BY <2>1, LeastNatural
  <1>3. x \in Nat /\ \A y \in s : x >= y
    OBVIOUS
  <1>4. x # 0
    <2>1. PICK y \in s : y \in 1..n
      OBVIOUS
    <2> QED
      BY <1>3, <2>1
  <1>5. x - 1 \in Nat /\ x - 1 \notin Above
    BY <1>2, <1>3, <1>4
  <1>6. PICK y \in s : ~(x - 1 >= y)
    BY <1>5
  <1>7. y = x
    BY <1>3, <1>6
  <1> QED
    BY <1>3, <1>7

\* g computes what r counts, and so does whatever takes the same steps.
Folded(r, g, n, V, last, step, base) ==
    /\ Counts(r, n, V, step, base)
    /\ Computes(g, 1..n, V, last, step, base)
    /\ \A h : Follows(h, 1..n, V, last, step, base) => h[1..n] = r[n]

\* What is computed with the greatest element last is counted from 1 to n.
LEMMA LeftFold ==
  ASSUME NEW n \in Nat, NEW V, NEW base \in V, NEW step \in [(1..n) \X V -> V],
         NEW last, Lasts(last, n)
  PROVE  \E r, g : Folded(r, g, n, V, last, step, base)
  <1>1. IsFiniteSet(1..n) /\ Chooses(last, 1..n)
    <2>1. 1 \in Int /\ n \in Int
      OBVIOUS
    <2> QED
      BY <2>1, FS_Interval DEF Chooses, Lasts
  <1>2. PICK r : Counts(r, n, V, step, base)
    BY CountExists
  <1>3. PICK g : Computes(g, 1..n, V, last, step, base)
    BY <1>1, FoldExists
  <1> DEFINE upto == [k \in 0..n |-> g[1..k]]
  <1>4. upto[0] = base
    <2>1. 1..0 = {}
      OBVIOUS
    <2> QED
      BY <1>3, <2>1 DEF Computes
  <1>5. ASSUME NEW k \in 1..n
        PROVE  upto[k] = step[<<k, upto[k - 1]>>]
    <2>1. 1..k \in SUBSET (1..n) /\ 1..k # {} /\ k \in 0..n /\ k - 1 \in 0..n
      OBVIOUS
    <2>2. last[1..k] = k
      <3>1. PICK s, x : s = 1..k /\ x = last[s]
        OBVIOUS
      <3>2. x \in s /\ \A y \in s : x >= y
        BY <2>1, <3>1 DEF Lasts
      <3>3. k \in s /\ \A y \in s : y \in Nat /\ y <= k
        BY <3>1
      <3> QED
        BY <3>1, <3>2, <3>3
    <2>3. (1..k) \ {k} = 1..(k - 1)
      OBVIOUS
    <2>4. g[1..k] = step[<<k, g[1..(k - 1)]>>]
      BY <1>3, <2>1, <2>2, <2>3 DEF Computes
    <2> QED
      BY <2>1, <2>4
  <1>6. upto[n] = r[n]
    <2> HIDE DEF upto
    <2>1. \A k \in 1..n : upto[k - 1] \in V => upto[k] = step[<<k, upto[k - 1]>>]
      BY <1>5
    <2>2. \A k \in 0..n : upto[k] = r[k]
      BY <1>2, <1>4, <2>1, CountUnique
    <2> QED
      BY <2>2
  <1>7. ASSUME NEW h, Follows(h, 1..n, V, last, step, base)
        PROVE  h[1..n] = r[n]
    <2>1. h[1..n] = g[1..n]
      BY <1>1, <1>3, <1>7, FoldUnique
    <2> QED
      BY <1>6, <2>1
  <1> QED
    BY <1>2, <1>3, <1>7 DEF Folded
=============================================================================
