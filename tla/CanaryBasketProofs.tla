-------------------------- MODULE CanaryBasketProofs --------------------------
(***************************************************************************)
(* Proofs about CanaryBasket, for any routes, caps, sizes and target.      *)
(***************************************************************************)
EXTENDS CanaryBasket, FoldLemmas

-----------------------------------------------------------------------------
(* What is allocated.                                                      *)

\* An entry, or what is left of one that sent nothing.
Entry == [route : Routes, notional : Nat]

LEMMA CandidatesAreEntries == Candidate \subseteq Entry /\ Seq(Candidate) \subseteq Seq(Entry)
  <1>1. Candidate \subseteq Entry
    BY DEF Candidate, Entry
  <1>2. ASSUME NEW es \in Seq(Candidate)
        PROVE  es \in Seq(Entry)
    <2>1. \A i \in 1..Len(es) : es[i] \in Entry
      BY <1>1
    <2> QED
      BY <2>1
  <1> QED
    BY <1>1, <1>2

\* The greatest elements are those that a fold from the left takes last.
LEMMA MaxIsLast ==
  ASSUME NEW n \in Nat, NEW last, last = [s \in SUBSET (1..n) |-> Max(s)]
  PROVE  Lasts(last, n)
  <1>1. ASSUME NEW s \in SUBSET (1..n), s # {}
        PROVE  last[s] \in s /\ \A y \in s : last[s] >= y
    <2>1. \E x \in s : \A y \in s : x >= y
      BY <1>1, GreatestOf
    <2> QED
      BY <2>1 DEF Max
  <1> QED
    BY <1>1 DEF Lasts

\* The notionals are added up one entry after the other.
LEMMA AllocatedCounts ==
  ASSUME NEW es \in Seq(Entry), NEW n \in Nat, n = Len(es),
         NEW add, add = [p \in (1..n) \X Nat |-> p[2] + es[p[1]].notional]
  PROVE  \E r : Counts(r, n, Nat, add, 0) /\ Allocated(es) = r[n]
  <1>1. PICK last : last = [s \in SUBSET (1..n) |-> Max(s)]
    OBVIOUS
  <1>2. Lasts(last, n)
    BY <1>1, MaxIsLast
  <1>3. \A k \in 1..n : es[k].notional \in Nat
    <2>1. \A k \in 1..n : es[k] \in Entry
      OBVIOUS
    <2> QED
      BY <2>1 DEF Entry
  <1>4. add \in [(1..n) \X Nat -> Nat]
    BY <1>3
  <1>5. PICK r, g : Folded(r, g, n, Nat, last, add, 0)
    <2>1. 0 \in Nat
      OBVIOUS
    <2> QED
      BY <1>2, <1>4, <2>1, LeftFold
  <1> DEFINE Rec(h) == h = [s \in SUBSET (1..n) |->
                              IF s = {} THEN 0 ELSE h[s \ {Max(s)}] + es[Max(s)].notional]
             iter == CHOOSE h : Rec(h)
  <1>6. Allocated(es) = iter[1..n]
    <2>1. DOMAIN es = 1..n
      OBVIOUS
    <2> QED
      BY <2>1 DEF Allocated, FoldLeft, MapThenFoldSet
  <1>7. ASSUME NEW h, NEW s \in SUBSET (1..n), s # {}, h[s \ {last[s]}] \in Nat
        PROVE  /\ last[s] = Max(s)
               /\ add[<<last[s], h[s \ {last[s]}]>>] = h[s \ {Max(s)}] + es[Max(s)].notional
    <2>1. last[s] = Max(s) /\ last[s] \in 1..n
      BY <1>1, <1>2, <1>7 DEF Lasts
    <2> QED
      BY <1>7, <2>1
  <1>8. Rec(g)
    <2>1. ASSUME NEW s \in SUBSET (1..n), s # {}
          PROVE  g[s] = g[s \ {Max(s)}] + es[Max(s)].notional
      <3>1. g[s] = add[<<last[s], g[s \ {last[s]}]>>] /\ g[s \ {last[s]}] \in Nat
        BY <1>5, <2>1 DEF Folded, Computes
      <3> QED
        BY <1>7, <2>1, <3>1
    <2>2. g = [s \in SUBSET (1..n) |-> g[s]] /\ g[{}] = 0
      BY <1>5 DEF Folded, Computes
    <2> QED
      BY <2>1, <2>2
  <1>9. Rec(iter)
    BY <1>8
  <1> HIDE DEF iter
  <1>10. Follows(iter, 1..n, Nat, last, add, 0)
    <2>1. iter[{}] = 0
      BY <1>9
    <2>2. ASSUME NEW s \in SUBSET (1..n), s # {}, iter[s \ {last[s]}] \in Nat
          PROVE  iter[s] = add[<<last[s], iter[s \ {last[s]}]>>]
      <3>1. iter[s] = iter[s \ {Max(s)}] + es[Max(s)].notional
        BY <1>9, <2>2
      <3> QED
        BY <1>7, <2>2, <3>1
    <2> QED
      BY <2>1, <2>2 DEF Follows
  <1> QED
    BY <1>5, <1>6, <1>10 DEF Folded

LEMMA AllocatedType ==
  ASSUME NEW es \in Seq(Entry)
  PROVE  Allocated(es) \in Nat
  <1>1. PICK n \in Nat : n = Len(es)
    OBVIOUS
  <1>2. PICK add : add = [p \in (1..n) \X Nat |-> p[2] + es[p[1]].notional]
    OBVIOUS
  <1>3. PICK r : Counts(r, n, Nat, add, 0) /\ Allocated(es) = r[n]
    BY <1>1, <1>2, AllocatedCounts
  <1>4. n \in 0..n
    OBVIOUS
  <1> QED
    BY <1>3, <1>4 DEF Counts

LEMMA AllocatedNothing == Allocated(<<>>) = 0
  <1>1. PICK es \in Seq(Entry), n \in Nat : es = <<>> /\ n = Len(es) /\ n = 0
    <2>1. <<>> \in Seq(Entry) /\ Len(<<>>) = 0
      OBVIOUS
    <2> QED
      BY <2>1
  <1>2. PICK add : add = [p \in (1..n) \X Nat |-> p[2] + es[p[1]].notional]
    OBVIOUS
  <1>3. PICK r : Counts(r, n, Nat, add, 0) /\ Allocated(es) = r[n]
    BY <1>1, <1>2, AllocatedCounts
  <1> QED
    BY <1>1, <1>3 DEF Counts

\* Another entry adds its notional.
LEMMA AllocatedAppend ==
  ASSUME NEW es \in Seq(Entry), NEW e \in Entry
  PROVE  Allocated(Append(es, e)) = Allocated(es) + e.notional
  <1>1. PICK n \in Nat : n = Len(es)
    OBVIOUS
  <1>2. PICK fs : fs = Append(es, e)
    OBVIOUS
  <1>3. PICK m \in Nat : m = n + 1
    OBVIOUS
  <1>4. /\ fs \in Seq(Entry) /\ m = Len(fs)
        /\ fs[m] = e /\ \A k \in 1..n : fs[k] = es[k]
    BY <1>1, <1>2, <1>3
  <1>5. PICK add, more : /\ add = [p \in (1..n) \X Nat |-> p[2] + es[p[1]].notional]
                         /\ more = [p \in (1..m) \X Nat |-> p[2] + fs[p[1]].notional]
    OBVIOUS
  <1>6. PICK r : Counts(r, n, Nat, add, 0) /\ Allocated(es) = r[n]
    BY <1>1, <1>5, AllocatedCounts
  <1>7. PICK q : Counts(q, m, Nat, more, 0) /\ Allocated(fs) = q[m]
    BY <1>4, <1>5, AllocatedCounts
  <1>8. ASSUME NEW k \in 1..n, q[k - 1] \in Nat
        PROVE  q[k] = add[<<k, q[k - 1]>>]
    <2>1. k \in 1..m
      BY <1>3
    <2>2. q[k] = more[<<k, q[k - 1]>>]
      BY <1>7, <2>1 DEF Counts
    <2>3. more[<<k, q[k - 1]>>] = q[k - 1] + fs[k].notional
      BY <1>5, <1>8, <2>1
    <2>4. add[<<k, q[k - 1]>>] = q[k - 1] + es[k].notional
      BY <1>5, <1>8
    <2> QED
      BY <1>4, <2>2, <2>3, <2>4
  <1>9. q[0] = 0
    BY <1>7 DEF Counts
  <1>10. \A k \in 0..n : q[k] = r[k]
    BY <1>6, <1>8, <1>9, CountUnique
  <1>11. n \in 0..n /\ m - 1 = n /\ m \in 1..m /\ n \in 0..m
    BY <1>3
  <1>12. q[n] \in Nat /\ q[m] = more[<<m, q[n]>>]
    BY <1>7, <1>11 DEF Counts
  <1>13. more[<<m, q[n]>>] = q[n] + fs[m].notional
    BY <1>5, <1>11, <1>12
  <1> QED
    BY <1>2, <1>4, <1>6, <1>7, <1>10, <1>11, <1>12, <1>13

\* No more is allocated to fewer entries with smaller notionals.
LEMMA AllocatedLess ==
  ASSUME NEW es \in Seq(Entry), NEW fs \in Seq(Entry), Len(es) <= Len(fs),
         \A k \in 1..Len(es) : es[k].notional <= fs[k].notional
  PROVE  Allocated(es) <= Allocated(fs)
  <1>1. PICK n \in Nat, m \in Nat : n = Len(es) /\ m = Len(fs)
    OBVIOUS
  <1>2. PICK add, more : /\ add = [p \in (1..n) \X Nat |-> p[2] + es[p[1]].notional]
                         /\ more = [p \in (1..m) \X Nat |-> p[2] + fs[p[1]].notional]
    OBVIOUS
  <1>3. PICK r : Counts(r, n, Nat, add, 0) /\ Allocated(es) = r[n]
    BY <1>1, <1>2, AllocatedCounts
  <1>4. PICK q : Counts(q, m, Nat, more, 0) /\ Allocated(fs) = q[m]
    BY <1>1, <1>2, AllocatedCounts
  <1>5. ASSUME NEW k \in 1..n
        PROVE  r[k] = r[k - 1] + es[k].notional /\ r[k - 1] \in Nat /\ es[k].notional \in Nat
    <2>1. es[k] \in Entry
      BY <1>1
    <2>2. k - 1 \in 0..n
      OBVIOUS
    <2>3. r[k] = add[<<k, r[k - 1]>>] /\ r[k - 1] \in Nat
      BY <1>3, <2>2 DEF Counts
    <2> QED
      BY <1>2, <2>1, <2>3 DEF Entry
  <1>6. ASSUME NEW k \in 1..m
        PROVE  q[k] = q[k - 1] + fs[k].notional /\ q[k - 1] \in Nat /\ fs[k].notional \in Nat
    <2>1. fs[k] \in Entry
      BY <1>1
    <2>2. k - 1 \in 0..m
      OBVIOUS
    <2>3. q[k] = more[<<k, q[k - 1]>>] /\ q[k - 1] \in Nat
      BY <1>4, <2>2 DEF Counts
    <2> QED
      BY <1>2, <2>1, <2>3 DEF Entry
  <1> DEFINE Bad == {k \in 0..n : ~(r[k] <= q[k])}
             Low == {k \in n..m : ~(r[n] <= q[k])}
  <1>7. Bad = {}
    <2> SUFFICES ASSUME Bad # {} PROVE FALSE
      OBVIOUS
    <2>1. PICK k \in Bad : \A j \in Bad : k <= j
      <3>1. Bad \in SUBSET Nat
        OBVIOUS
      <3> HIDE DEF Bad
      <3> QED
        BY <3>1, LeastNatural
    <2>2. k \in 0..n /\ ~(r[k] <= q[k]) /\ \A j \in 0..n : j < k => r[j] <= q[j]
      BY <2>1
    <2>3. k # 0
      BY <1>3, <1>4, <2>2 DEF Counts
    <2>4. k \in 1..n /\ k \in 1..m /\ r[k - 1] <= q[k - 1] /\ es[k].notional <= fs[k].notional
      BY <1>1, <2>2, <2>3
    <2> QED
      BY <1>5, <1>6, <2>2, <2>4
  <1>8. Low = {}
    <2> SUFFICES ASSUME Low # {} PROVE FALSE
      OBVIOUS
    <2>1. PICK k \in Low : \A j \in Low : k <= j
      <3>1. Low \in SUBSET Nat
        OBVIOUS
      <3> HIDE DEF Low
      <3> QED
        BY <3>1, LeastNatural
    <2>2. k \in n..m /\ ~(r[n] <= q[k]) /\ \A j \in n..m : j < k => r[n] <= q[j]
      BY <2>1
    <2>3. n \in 0..n /\ r[n] \in Nat /\ r[n] <= q[n]
      <3>1. n \in 0..n
        OBVIOUS
      <3> QED
        BY <1>3, <1>7, <3>1 DEF Counts
    <2>4. k # n
      BY <2>2, <2>3
    <2>5. k \in 1..m /\ k - 1 \in n..m /\ k - 1 < k
      BY <2>2, <2>4
    <2>6. r[n] <= q[k - 1]
      BY <2>2, <2>5
    <2>7. q[k] = q[k - 1] + fs[k].notional /\ q[k - 1] \in Nat /\ fs[k].notional \in Nat
      BY <1>6, <2>5
    <2>8. r[n] <= q[k]
      BY <2>3, <2>6, <2>7
    <2> QED
      BY <2>2, <2>8
  <1>9. m \in n..m
    BY <1>1
  <1> QED
    BY <1>3, <1>4, <1>8, <1>9

-----------------------------------------------------------------------------
(* What is planned.                                                        *)

\* A candidate that is approved is kept within its cap.
LEMMA KeepType ==
  ASSUME TypeOK, NEW es \in Seq(Candidate), NEW c \in Routes \X Sizes
  PROVE  /\ Keep(es, c) \in Seq(Candidate)
         /\ \/ Keep(es, c) = es
            \/ \E e \in Candidate : e.route = c[1] /\ Keep(es, c) = Append(es, e)
  <1>1. CASE approval[c[1]] = None
    BY <1>1 DEF Keep
  <1>2. CASE approval[c[1]] # None
    <2>1. PICK e : e = [route |-> c[1], notional |-> Least(c[2], approval[c[1]])]
      OBVIOUS
    <2>2. c[1] \in Routes /\ c[2] \in Nat \ {0} /\ approval[c[1]] \in Nat \ {0}
      BY <1>2, BasketAssumption DEF TypeOK
    <2>3. Least(c[2], approval[c[1]]) \in Nat \ {0}
      BY <2>2 DEF Least
    <2>4. e \in Candidate /\ e.route = c[1]
      BY <2>1, <2>2, <2>3 DEF Candidate
    <2>5. Keep(es, c) = Append(es, e)
      BY <1>2, <2>1 DEF Keep
    <2> QED
      BY <2>4, <2>5
  <1> QED
    BY <1>1, <1>2

\* The entries that the target has room for.
Within == {es \in Seq(Candidate) : Allocated(es) <= Target}

\* A candidate takes no more than what is left of the target.
LEMMA AddType ==
  ASSUME TypeOK, NEW es \in Within, NEW c \in Candidate
  PROVE  /\ Add(es, c) \in Within
         /\ \/ Add(es, c) = es
            \/ \E e \in Candidate : e.route = c.route /\ Add(es, c) = Append(es, e)
  <1>1. es \in Seq(Candidate) /\ es \in Seq(Entry) /\ Allocated(es) <= Target
    BY CandidatesAreEntries DEF Within
  <1>2. CASE approval[c.route] = None \/ Allocated(es) >= Target
    BY <1>2 DEF Add
  <1>3. CASE ~(approval[c.route] = None \/ Allocated(es) >= Target)
    <2>1. PICK e : e = [c EXCEPT !.notional = Least(@, Target - Allocated(es))]
      OBVIOUS
    <2>2. Allocated(es) \in Nat /\ Target \in Nat /\ Allocated(es) < Target
      BY <1>1, <1>3, AllocatedType, BasketAssumption
    <2>3. c.route \in Routes /\ c.notional \in Nat \ {0}
      BY DEF Candidate
    <2>4. /\ Least(c.notional, Target - Allocated(es)) \in Nat \ {0}
          /\ Least(c.notional, Target - Allocated(es)) <= Target - Allocated(es)
      BY <2>2, <2>3 DEF Least
    <2>5. /\ e.route = c.route /\ e.notional = Least(c.notional, Target - Allocated(es))
          /\ e \in Candidate
      BY <2>1, <2>3, <2>4 DEF Candidate
    <2>6. Add(es, c) = Append(es, e)
      BY <1>3, <2>1 DEF Add
    <2>7. Append(es, e) \in Seq(Candidate)
      BY <1>1, <2>5
    <2>8. Allocated(Append(es, e)) = Allocated(es) + e.notional
      BY <1>1, <2>5, AllocatedAppend, CandidatesAreEntries
    <2>9. Allocated(Append(es, e)) <= Target
      BY <2>2, <2>4, <2>5, <2>8
    <2> QED
      BY <2>5, <2>6, <2>7, <2>9 DEF Within
  <1> QED
    BY <1>2, <1>3

\* The approved candidates are kept one after the other.
LEMMA CappedCounts ==
  ASSUME TypeOK, NEW scan \in Seq(Routes \X Sizes), NEW n \in Nat, n = Len(scan),
         NEW V, V = Seq(Candidate), NEW none, none = <<>>,
         NEW keep, keep = [p \in (1..n) \X V |-> Keep(p[2], scan[p[1]])]
  PROVE  \E r : Counts(r, n, V, keep, none) /\ Capped(scan) = r[n]
  <1>1. PICK last : last = [s \in SUBSET (1..n) |-> Max(s)]
    OBVIOUS
  <1>2. Lasts(last, n)
    BY <1>1, MaxIsLast
  <1>3. keep \in [(1..n) \X V -> V]
    <2>1. ASSUME NEW k \in 1..n, NEW es \in V
          PROVE  Keep(es, scan[k]) \in V
      <3>1. scan[k] \in Routes \X Sizes
        OBVIOUS
      <3> QED
        BY <3>1, KeepType
    <2> QED
      BY <2>1
  <1>4. none \in V
    OBVIOUS
  <1>5. PICK r, g : Folded(r, g, n, V, last, keep, none)
    BY <1>2, <1>3, <1>4, LeftFold
  <1> DEFINE Rec(h) == h = [s \in SUBSET (1..n) |->
                              IF s = {} THEN none ELSE Keep(h[s \ {Max(s)}], scan[Max(s)])]
             iter == CHOOSE h : Rec(h)
  <1>6. Capped(scan) = iter[1..n]
    <2>1. DOMAIN scan = 1..n
      OBVIOUS
    <2> QED
      BY <2>1 DEF Capped, FoldLeft, MapThenFoldSet
  <1>7. ASSUME NEW h, NEW s \in SUBSET (1..n), s # {}, h[s \ {last[s]}] \in V
        PROVE  /\ last[s] = Max(s)
               /\ keep[<<last[s], h[s \ {last[s]}]>>] = Keep(h[s \ {Max(s)}], scan[Max(s)])
    <2>1. last[s] = Max(s) /\ last[s] \in 1..n
      BY <1>1, <1>2, <1>7 DEF Lasts
    <2> QED
      BY <1>7, <2>1
  <1>8. Rec(g)
    <2>1. ASSUME NEW s \in SUBSET (1..n), s # {}
          PROVE  g[s] = Keep(g[s \ {Max(s)}], scan[Max(s)])
      <3>1. g[s] = keep[<<last[s], g[s \ {last[s]}]>>] /\ g[s \ {last[s]}] \in V
        BY <1>5, <2>1 DEF Folded, Computes
      <3> QED
        BY <1>7, <2>1, <3>1
    <2>2. g = [s \in SUBSET (1..n) |-> g[s]] /\ g[{}] = none
      BY <1>5 DEF Folded, Computes
    <2> QED
      BY <2>1, <2>2
  <1>9. Rec(iter)
    BY <1>8
  <1> HIDE DEF iter
  <1>10. Follows(iter, 1..n, V, last, keep, none)
    <2>1. iter[{}] = none
      BY <1>9
    <2>2. ASSUME NEW s \in SUBSET (1..n), s # {}, iter[s \ {last[s]}] \in V
          PROVE  iter[s] = keep[<<last[s], iter[s \ {last[s]}]>>]
      <3>1. iter[s] = Keep(iter[s \ {Max(s)}], scan[Max(s)])
        BY <1>9, <2>2
      <3> QED
        BY <1>7, <2>2, <3>1
    <2> QED
      BY <2>1, <2>2 DEF Follows
  <1> QED
    BY <1>5, <1>6, <1>10 DEF Folded

\* The target is shared by one candidate after the other.
LEMMA PlannedCounts ==
  ASSUME TypeOK, NEW cs \in Seq(Candidate), NEW n \in Nat, n = Len(cs),
         NEW V, V = Within, NEW none, none = <<>>,
         NEW add, add = [p \in (1..n) \X V |-> Add(p[2], cs[p[1]])]
  PROVE  \E r : Counts(r, n, V, add, none) /\ FoldLeft(Add, <<>>, cs) = r[n]
  <1>1. PICK last : last = [s \in SUBSET (1..n) |-> Max(s)]
    OBVIOUS
  <1>2. Lasts(last, n)
    BY <1>1, MaxIsLast
  <1>3. add \in [(1..n) \X V -> V]
    <2>1. ASSUME NEW k \in 1..n, NEW es \in V
          PROVE  Add(es, cs[k]) \in V
      <3>1. cs[k] \in Candidate
        OBVIOUS
      <3> QED
        BY <3>1, AddType
    <2> QED
      BY <2>1
  <1>4. none \in V
    <2>1. <<>> \in Seq(Candidate)
      OBVIOUS
    <2> QED
      BY <2>1, AllocatedNothing, BasketAssumption DEF Within
  <1>5. PICK r, g : Folded(r, g, n, V, last, add, none)
    BY <1>2, <1>3, <1>4, LeftFold
  <1> DEFINE Rec(h) == h = [s \in SUBSET (1..n) |->
                              IF s = {} THEN none ELSE Add(h[s \ {Max(s)}], cs[Max(s)])]
             iter == CHOOSE h : Rec(h)
  <1>6. FoldLeft(Add, <<>>, cs) = iter[1..n]
    <2>1. DOMAIN cs = 1..n
      OBVIOUS
    <2> QED
      BY <2>1 DEF FoldLeft, MapThenFoldSet
  <1>7. ASSUME NEW h, NEW s \in SUBSET (1..n), s # {}, h[s \ {last[s]}] \in V
        PROVE  /\ last[s] = Max(s)
               /\ add[<<last[s], h[s \ {last[s]}]>>] = Add(h[s \ {Max(s)}], cs[Max(s)])
    <2>1. last[s] = Max(s) /\ last[s] \in 1..n
      BY <1>1, <1>2, <1>7 DEF Lasts
    <2> QED
      BY <1>7, <2>1
  <1>8. Rec(g)
    <2>1. ASSUME NEW s \in SUBSET (1..n), s # {}
          PROVE  g[s] = Add(g[s \ {Max(s)}], cs[Max(s)])
      <3>1. g[s] = add[<<last[s], g[s \ {last[s]}]>>] /\ g[s \ {last[s]}] \in V
        BY <1>5, <2>1 DEF Folded, Computes
      <3> QED
        BY <1>7, <2>1, <3>1
    <2>2. g = [s \in SUBSET (1..n) |-> g[s]] /\ g[{}] = none
      BY <1>5 DEF Folded, Computes
    <2> QED
      BY <2>1, <2>2
  <1>9. Rec(iter)
    BY <1>8
  <1> HIDE DEF iter
  <1>10. Follows(iter, 1..n, V, last, add, none)
    <2>1. iter[{}] = none
      BY <1>9
    <2>2. ASSUME NEW s \in SUBSET (1..n), s # {}, iter[s \ {last[s]}] \in V
          PROVE  iter[s] = add[<<last[s], iter[s \ {last[s]}]>>]
      <3>1. iter[s] = Add(iter[s \ {Max(s)}], cs[Max(s)])
        BY <1>9, <2>2
      <3> QED
        BY <1>7, <2>2, <3>1
    <2> QED
      BY <2>1, <2>2 DEF Follows
  <1> QED
    BY <1>5, <1>6, <1>10 DEF Folded

\* No route is in these entries twice.
Distinct(es) == \A i, j \in 1..Len(es) : i # j => es[i].route # es[j].route

\* r goes through n names, which are distinct, and may take each of them.
Takes(r, n, name) ==
    /\ \A i, j \in 1..n : i # j => name[i] # name[j]
    /\ r[0] = <<>> /\ \A k \in 0..n : r[k] \in Seq(Candidate)
    /\ \A k \in 1..n : \/ r[k] = r[k - 1]
                       \/ \E e \in Candidate : e.route = name[k] /\ r[k] = Append(r[k - 1], e)

LEMMA TakenOnce ==
  ASSUME NEW n \in Nat, NEW name, NEW r, Takes(r, n, name)
  PROVE  Distinct(r[n])
  <1> DEFINE Taken(k) == \A i \in 1..Len(r[k]) : \E j \in 1..k : r[k][i].route = name[j]
             Bad == {k \in 0..n : ~(Distinct(r[k]) /\ Taken(k))}
  <1>1. Bad = {}
    <2> SUFFICES ASSUME Bad # {} PROVE FALSE
      OBVIOUS
    <2>1. PICK k \in Bad : \A j \in Bad : k <= j
      <3>1. Bad \in SUBSET Nat
        OBVIOUS
      <3> HIDE DEF Bad
      <3> QED
        BY <3>1, LeastNatural
    <2>2. k \in 0..n /\ ~(Distinct(r[k]) /\ Taken(k))
      OBVIOUS
    <2>3. k # 0
      <3>1. Len(<<>>) = 0
        OBVIOUS
      <3> QED
        BY <2>2, <3>1 DEF Distinct, Takes
    <2>4. k - 1 \in 0..n /\ k \in 1..n /\ k - 1 \notin Bad
      BY <2>1, <2>2, <2>3
    <2>5. Distinct(r[k - 1]) /\ Taken(k - 1)
      BY <2>4
    <2>6. PICK es : es = r[k - 1]
      OBVIOUS
    <2>7. /\ es \in Seq(Candidate) /\ Len(es) \in Nat /\ Distinct(es)
          /\ \A i \in 1..Len(es) : \E j \in 1..(k - 1) : es[i].route = name[j]
      BY <2>4, <2>5, <2>6 DEF Takes
    <2>8. \A i \in 1..Len(es) : es[i].route # name[k]
      <3>1. \A j \in 1..(k - 1) : j \in 1..n /\ j # k
        BY <2>4
      <3> QED
        BY <2>4, <2>7, <3>1 DEF Takes
    <2>9. CASE r[k] = es
      <3>1. \A j \in 1..(k - 1) : j \in 1..k
        BY <2>4
      <3> QED
        BY <2>2, <2>7, <2>9, <3>1
    <2>10. ASSUME NEW e \in Candidate, e.route = name[k], r[k] = Append(es, e)
           PROVE  FALSE
      <3>1. PICK fs : fs = Append(es, e)
        OBVIOUS
      <3>2. /\ Len(fs) = Len(es) + 1 /\ fs[Len(es) + 1] = e
            /\ \A i \in 1..Len(es) : fs[i] = es[i]
        BY <2>7, <3>1
      <3>3. \A i \in 1..Len(fs) : i \in 1..Len(es) \/ i = Len(es) + 1
        BY <2>7, <3>2
      <3>4. Distinct(fs)
        <4> SUFFICES ASSUME NEW i \in 1..Len(fs), NEW j \in 1..Len(fs), i # j
                     PROVE  fs[i].route # fs[j].route
          BY DEF Distinct
        <4>1. CASE i \in 1..Len(es) /\ j \in 1..Len(es)
          BY <2>7, <3>2, <4>1 DEF Distinct
        <4>2. CASE i \in 1..Len(es) /\ j = Len(es) + 1
          BY <2>8, <2>10, <3>2, <4>2
        <4>3. CASE i = Len(es) + 1 /\ j \in 1..Len(es)
          BY <2>8, <2>10, <3>2, <4>3
        <4> QED
          BY <3>3, <4>1, <4>2, <4>3
      <3>5. ASSUME NEW i \in 1..Len(fs)
            PROVE  \E j \in 1..k : fs[i].route = name[j]
        <4>1. CASE i = Len(es) + 1
          BY <2>4, <2>10, <3>2, <4>1
        <4>2. CASE i \in 1..Len(es)
          <5>1. PICK j \in 1..(k - 1) : es[i].route = name[j]
            BY <2>7, <4>2
          <5>2. j \in 1..k
            BY <2>4
          <5> QED
            BY <3>2, <4>2, <5>1, <5>2
        <4> QED
          BY <3>3, <4>1, <4>2
      <3> QED
        BY <2>2, <2>10, <3>1, <3>4, <3>5
    <2> QED
      BY <2>4, <2>6, <2>9, <2>10 DEF Takes
  <1> QED
    BY <1>1

\* A scan is planned as candidates, no route twice.
LEMMA CappedType ==
  ASSUME TypeOK, NEW scan \in Scans
  PROVE  Capped(scan) \in Seq(Candidate) /\ Distinct(Capped(scan))
  <1>1. PICK n \in Nat : /\ scan \in [1..n -> Routes \X Sizes]
                         /\ \A i, j \in 1..n : i # j => scan[i][1] # scan[j][1]
    <2>1. Cardinality(Routes) \in Nat
      BY FS_CardinalityType, BasketAssumption
    <2> QED
      BY <2>1 DEF Scans
  <1>2. scan \in Seq(Routes \X Sizes) /\ n = Len(scan)
    BY <1>1
  <1>3. PICK V, none, keep : /\ V = Seq(Candidate) /\ none = <<>>
                             /\ keep = [p \in (1..n) \X V |-> Keep(p[2], scan[p[1]])]
    OBVIOUS
  <1>4. PICK r : Counts(r, n, V, keep, none) /\ Capped(scan) = r[n]
    BY <1>2, <1>3, CappedCounts
  <1>5. PICK name : name = [i \in 1..n |-> scan[i][1]]
    OBVIOUS
  <1>6. \A k \in 0..n : r[k] \in Seq(Candidate)
    BY <1>3, <1>4 DEF Counts
  <1>7. ASSUME NEW k \in 1..n
        PROVE  \/ r[k] = r[k - 1]
               \/ \E e \in Candidate : e.route = name[k] /\ r[k] = Append(r[k - 1], e)
    <2>1. k - 1 \in 0..n
      OBVIOUS
    <2>2. PICK es \in Seq(Candidate) : es = r[k - 1]
      BY <1>6, <2>1
    <2>3. r[k] = keep[<<k, es>>]
      BY <1>4, <2>2 DEF Counts
    <2>4. keep[<<k, es>>] = Keep(es, scan[k])
      BY <1>3, <2>2
    <2>5. scan[k] \in Routes \X Sizes /\ name[k] = scan[k][1]
      BY <1>1, <1>5
    <2>6. \/ Keep(es, scan[k]) = es
          \/ \E e \in Candidate : e.route = scan[k][1] /\ Keep(es, scan[k]) = Append(es, e)
      BY <2>5, KeepType
    <2> QED
      BY <2>2, <2>3, <2>4, <2>5, <2>6
  <1>8. \A i, j \in 1..n : i # j => name[i] # name[j]
    BY <1>1, <1>5
  <1>9. r[0] = <<>> /\ n \in 0..n
    BY <1>3, <1>4 DEF Counts
  <1>10. Distinct(r[n])
    <2>1. Takes(r, n, name)
      BY <1>6, <1>7, <1>8, <1>9 DEF Takes
    <2> QED
      BY <2>1, TakenOnce
  <1> QED
    BY <1>4, <1>6, <1>9, <1>10

\* The basket is planned within its target, and no route twice.
LEMMA PlannedType ==
  ASSUME TypeOK, NEW cs \in Seq(Candidate)
  PROVE  /\ FoldLeft(Add, <<>>, cs) \in Within
         /\ Distinct(cs) => Distinct(FoldLeft(Add, <<>>, cs))
  <1>1. PICK n \in Nat : n = Len(cs)
    OBVIOUS
  <1>2. PICK V, none, add : /\ V = Within /\ none = <<>>
                            /\ add = [p \in (1..n) \X V |-> Add(p[2], cs[p[1]])]
    OBVIOUS
  <1>3. PICK r : Counts(r, n, V, add, none) /\ FoldLeft(Add, <<>>, cs) = r[n]
    BY <1>1, <1>2, PlannedCounts
  <1>4. PICK name : name = [i \in 1..n |-> cs[i].route]
    OBVIOUS
  <1>5. \A k \in 0..n : r[k] \in Within /\ r[k] \in Seq(Candidate)
    BY <1>2, <1>3 DEF Counts, Within
  <1>6. ASSUME NEW k \in 1..n
        PROVE  \/ r[k] = r[k - 1]
               \/ \E e \in Candidate : e.route = name[k] /\ r[k] = Append(r[k - 1], e)
    <2>1. k - 1 \in 0..n
      OBVIOUS
    <2>2. PICK es \in Within : es = r[k - 1]
      BY <1>5, <2>1
    <2>3. r[k] = add[<<k, es>>]
      BY <1>3, <2>2 DEF Counts
    <2>4. add[<<k, es>>] = Add(es, cs[k])
      BY <1>2, <2>2
    <2>5. cs[k] \in Candidate /\ name[k] = cs[k].route
      BY <1>1, <1>4
    <2>6. \/ Add(es, cs[k]) = es
          \/ \E e \in Candidate : e.route = cs[k].route /\ Add(es, cs[k]) = Append(es, e)
      BY <2>5, AddType
    <2> QED
      BY <2>2, <2>3, <2>4, <2>5, <2>6
  <1>7. Distinct(cs) => \A i, j \in 1..n : i # j => name[i] # name[j]
    BY <1>1, <1>4 DEF Distinct
  <1>8. r[0] = <<>> /\ n \in 0..n
    BY <1>2, <1>3 DEF Counts
  <1>9. ASSUME Distinct(cs)
        PROVE  Distinct(r[n])
    <2>1. Takes(r, n, name)
      BY <1>5, <1>6, <1>7, <1>8, <1>9 DEF Takes
    <2> QED
      BY <2>1, TakenOnce
  <1> QED
    BY <1>3, <1>5, <1>8, <1>9

-----------------------------------------------------------------------------
(* The steps.                                                              *)

\* The routes are begun after the plan, one after the other.
TradesInv ==
    /\ pc \in {"idle", "scanned"} => trades = <<>>
    /\ \A i \in 1..Len(trades) : i < Now => trades[i].phase = "over"

\* A step of the lifecycle moves the route that was begun last.
Moves(t) ==
    /\ pc = "running" /\ trades # <<>> /\ Current.phase # "over"
    /\ t \in Trade /\ t.phase # "approve" /\ (t.phase = "over" <=> t.outcome # None)
    /\ t.approved = Current.approved
    /\ Current.phase = "approve" =>
          t.exposure = "none" /\ (t.phase # "over" => Allows(plan[Now]))
    /\ trades' \in Seq(Trade) /\ Len(trades') = Len(trades)
    /\ \A i \in 1..Len(trades) : trades'[i] = IF i = Now THEN t ELSE trades[i]
    /\ UNCHANGED <<approval, pc, options, plan, record>>

\* new are these trades, t the one at n with another phase, exposure and outcome.
Moved(new, ts, n, t, phase, exposure, outcome) ==
    /\ t \in Trade /\ t.phase = phase /\ t.exposure = exposure /\ t.outcome = outcome
    /\ t.approved = ts[n].approved
    /\ new \in Seq(Trade) /\ Len(new) = Len(ts)
    /\ \A i \in 1..Len(ts) : new[i] = IF i = n THEN t ELSE ts[i]

LEMMA TradeMoved ==
  ASSUME NEW ts \in Seq(Trade), NEW n \in 1..Len(ts), NEW phase \in Phase,
         NEW exposure \in Exposure, NEW outcome \in {None, "completed", "failed"},
         NEW new, new = [ts EXCEPT ![n].phase = phase, ![n].exposure = exposure,
                                   ![n].outcome = outcome]
  PROVE  \E t : Moved(new, ts, n, t, phase, exposure, outcome)
  <1>1. ts[n] \in Trade
    OBVIOUS
  <1>2. PICK t : t = [ts[n] EXCEPT !.phase = phase, !.exposure = exposure, !.outcome = outcome]
    OBVIOUS
  <1>3. /\ t \in Trade
        /\ t.phase = phase /\ t.exposure = exposure /\ t.outcome = outcome
        /\ t.approved = ts[n].approved
    BY <1>1, <1>2 DEF Trade
  <1>4. new = [ts EXCEPT ![n] = t]
    BY <1>1, <1>2 DEF Trade
  <1>5. new \in Seq(Trade) /\ Len(new) = Len(ts)
    BY <1>3, <1>4
  <1>6. \A i \in 1..Len(ts) : new[i] = IF i = n THEN t ELSE ts[i]
    BY <1>4
  <1> QED
    BY <1>3, <1>5, <1>6 DEF Moved

LEMMA GoesMoves ==
  ASSUME TypeOK, pc = "running", trades # <<>>, Current.phase # "over",
         NEW phase \in Phase \ {"approve"}, NEW exposure \in Exposure, Goes(phase, exposure),
         Current.phase = "approve" =>
            exposure = "none" /\ (phase # "over" => Allows(plan[Now]))
  PROVE  \E t : Moves(t)
  <1>1. PICK outcome \in {None, "completed"} : outcome = IF phase = "over" THEN "completed" ELSE None
    OBVIOUS
  <1>2. trades \in Seq(Trade) /\ Now \in 1..Len(trades)
    BY DEF TypeOK, Now
  <1>3. trades' = [trades EXCEPT ![Now].phase = phase, ![Now].exposure = exposure,
                                 ![Now].outcome = outcome]
    BY <1>1 DEF Goes
  <1>4. PICK t : Moved(trades', trades, Now, t, phase, exposure, outcome)
    <2>1. PICK ts, n, new : ts = trades /\ n = Now /\ new = trades'
      OBVIOUS
    <2>2. /\ ts \in Seq(Trade) /\ n \in 1..Len(ts)
          /\ new = [ts EXCEPT ![n].phase = phase, ![n].exposure = exposure, ![n].outcome = outcome]
      BY <1>2, <1>3, <2>1
    <2>3. \E t : Moved(new, ts, n, t, phase, exposure, outcome)
      BY <2>2, TradeMoved
    <2> QED
      BY <2>1, <2>3
  <1>5. t.phase = "over" <=> t.outcome # None
    BY <1>1, <1>4, BasketAssumption DEF Moved
  <1>6. Moves(t)
    BY <1>4, <1>5 DEF Moves, Moved, Goes, Current
  <1> QED
    BY <1>6

LEMMA RaisesMoves ==
  ASSUME TypeOK, pc = "running", trades # <<>>, Current.phase # "over",
         NEW exposure \in Exposure, Raises(exposure),
         Current.phase = "approve" => exposure = "none"
  PROVE  \E t : Moves(t)
  <1>1. trades \in Seq(Trade) /\ Now \in 1..Len(trades)
    BY DEF TypeOK, Now
  <1>2. trades' = [trades EXCEPT ![Now].phase = "over", ![Now].exposure = exposure,
                                 ![Now].outcome = "failed"]
    BY DEF Raises
  <1>3. PICK t : Moved(trades', trades, Now, t, "over", exposure, "failed")
    <2>1. PICK ts, n, new : ts = trades /\ n = Now /\ new = trades'
      OBVIOUS
    <2>2. /\ ts \in Seq(Trade) /\ n \in 1..Len(ts)
          /\ new = [ts EXCEPT ![n].phase = "over", ![n].exposure = exposure, ![n].outcome = "failed"]
      BY <1>1, <1>2, <2>1
    <2>3. "over" \in Phase /\ "failed" \in {None, "completed", "failed"}
      BY DEF Phase
    <2>4. \E t : Moved(new, ts, n, t, "over", exposure, "failed")
      BY <2>2, <2>3, TradeMoved
    <2> QED
      BY <2>1, <2>4
  <1>4. Moves(t)
    BY <1>3, BasketAssumption DEF Moves, Moved, Raises, Current
  <1> QED
    BY <1>4

\* Every step of the lifecycle is such a move.
LEMMA LifecycleMoves ==
  ASSUME TypeOK, Lifecycle
  PROVE  \E t : Moves(t)
  <1> USE DEF Exposure, Phase
  <1>1. ASSUME NEW phase \in Phase \ {"over"}, At(phase)
        PROVE  pc = "running" /\ trades # <<>> /\ Current.phase = phase
    BY <1>1 DEF At, Doing
  <1>2. trades # <<>> => Current.exposure \in Exposure
    <2>1. trades # <<>> => trades[Now] \in Trade
      BY DEF TypeOK, Now
    <2> QED
      BY <2>1 DEF Current, Trade
  <1>3. CASE RequireApproval
    <2>1. pc = "running" /\ trades # <<>> /\ Current.phase = "approve"
      BY <1>1, <1>3 DEF RequireApproval
    <2> QED
      BY <1>3, <2>1, GoesMoves, RaisesMoves DEF RequireApproval
  <1>4. CASE Prepare
    <2>1. pc = "running" /\ trades # <<>> /\ Current.phase = "prepare"
      BY <1>1, <1>4 DEF Prepare
    <2> QED
      BY <1>4, <2>1, GoesMoves, RaisesMoves DEF Prepare
  <1>5. CASE Open
    <2>1. pc = "running" /\ trades # <<>> /\ Current.phase = "open"
      BY <1>1, <1>5 DEF Open
    <2> QED
      BY <1>5, <2>1, GoesMoves, RaisesMoves DEF Open
  <1>6. CASE Opened
    <2>1. pc = "running" /\ trades # <<>> /\ Current.phase = "opened"
      BY <1>1, <1>6 DEF Opened
    <2>2. AfterOpen \in {"close", "over"}
      BY DEF AfterOpen
    <2> QED
      BY <1>2, <1>6, <2>1, <2>2, GoesMoves, RaisesMoves DEF Opened
  <1>7. CASE Close
    <2>1. pc = "running" /\ trades # <<>> /\ Current.phase = "close"
      BY <1>1, <1>7 DEF Close
    <2> QED
      BY <1>7, <2>1, GoesMoves, RaisesMoves DEF Close
  <1>8. CASE Closed
    <2>1. pc = "running" /\ trades # <<>> /\ Current.phase = "closed"
      BY <1>1, <1>8 DEF Closed
    <2> QED
      BY <1>2, <1>8, <2>1, GoesMoves, RaisesMoves DEF Closed
  <1> QED
    BY <1>3, <1>4, <1>5, <1>6, <1>7, <1>8 DEF Lifecycle

\* A route is begun with the approval that it has.
Begun(t) ==
    /\ t \in Trade /\ t.phase = "approve" /\ t.exposure = "none" /\ t.outcome = None
    /\ Allows(plan[Now + 1]) => t.approved = TRUE
    /\ trades' \in Seq(Trade) /\ Len(trades') = Now + 1 /\ trades'[Now + 1] = t
    /\ \A i \in 1..Now : trades'[i] = trades[i]

LEMMA BeginRouteBegins ==
  ASSUME TypeOK, BeginRoute
  PROVE  \E t : Begun(t)
  <1>1. trades \in Seq(Trade) /\ Now \in Nat /\ Now = Len(trades)
    BY DEF TypeOK, Now
  <1>2. PICK a \in BOOLEAN : (a = TRUE) <=> Allows(plan[Now + 1])
    OBVIOUS
  <1>3. PICK t : t = [phase |-> "approve", exposure |-> "none", outcome |-> None,
                      approved |-> Allows(plan[Now + 1])]
    OBVIOUS
  <1>4. Allows(plan[Now + 1]) \in BOOLEAN
    BY DEF Allows
  <1>5. /\ t \in Trade /\ t.phase = "approve" /\ t.exposure = "none" /\ t.outcome = None
        /\ Allows(plan[Now + 1]) => t.approved = TRUE
    BY <1>3, <1>4 DEF Trade, Phase, Exposure
  <1>6. trades' = Append(trades, t)
    BY <1>3 DEF BeginRoute
  <1>7. /\ trades' \in Seq(Trade) /\ Len(trades') = Now + 1 /\ trades'[Now + 1] = t
        /\ \A i \in 1..Now : trades'[i] = trades[i]
    BY <1>1, <1>5, <1>6
  <1> QED
    BY <1>5, <1>7 DEF Begun

\* Another approval leaves the trades as they are, but is remembered of the
\* route that is under way if it allows it.
Approves ==
    /\ approval' \in [Routes -> Caps \cup {None}]
    /\ trades' \in Seq(Trade) /\ Len(trades') = Now
    /\ \A i \in 1..Now : /\ trades'[i].phase = trades[i].phase
                         /\ trades'[i].exposure = trades[i].exposure
                         /\ trades'[i].outcome = trades[i].outcome
                         /\ trades[i].approved = TRUE => trades'[i].approved = TRUE
                         /\ i = Now /\ trades[i].phase # "over" /\ Allows(plan[i])' =>
                               Allows(plan[i]) \/ trades'[i].approved = TRUE

LEMMA UpsertApproves ==
  ASSUME TypeOK, UpsertApproval
  PROVE  Approves
  <1>1. trades \in Seq(Trade) /\ Now \in Nat /\ Now = Len(trades) /\ DOMAIN trades = 1..Now
    BY DEF TypeOK, Now
  <1>2. PICK r \in Routes, cap \in Caps \cup {None} :
           /\ approval' = [approval EXCEPT ![r] = cap]
           /\ trades' = [i \in DOMAIN trades |->
                [trades[i] EXCEPT !.approved = @ \/ (i = Now /\ plan[i].route = r
                     /\ trades[i].phase # "over" /\ cap # None /\ plan[i].notional <= cap)]]
    BY DEF UpsertApproval
  <1>3. approval' \in [Routes -> Caps \cup {None}]
    BY <1>2 DEF TypeOK
  <1> DEFINE more(i) == i = Now /\ plan[i].route = r /\ trades[i].phase # "over" /\ cap # None
                          /\ plan[i].notional <= cap
  <1>4. ASSUME NEW i \in 1..Now
        PROVE  /\ trades'[i] \in Trade
               /\ trades'[i].phase = trades[i].phase
               /\ trades'[i].exposure = trades[i].exposure
               /\ trades'[i].outcome = trades[i].outcome
               /\ trades[i].approved = TRUE \/ more(i) => trades'[i].approved = TRUE
    <2>1. trades[i] \in Trade
      BY <1>1
    <2>2. trades'[i] = [trades[i] EXCEPT !.approved = trades[i].approved \/ more(i)]
      BY <1>1, <1>2
    <2>3. (trades[i].approved \/ more(i)) \in BOOLEAN
      OBVIOUS
    <2> HIDE DEF more
    <2> QED
      BY <2>1, <2>2, <2>3 DEF Trade
  <1>5. trades' \in Seq(Trade) /\ Len(trades') = Now
    <2>1. \A i \in 1..Now : trades'[i] \in Trade
      BY <1>4
    <2>2. trades' = [i \in 1..Now |-> trades'[i]]
      BY <1>1, <1>2
    <2> QED
      BY <1>1, <2>1, <2>2
  <1>6. ASSUME NEW i \in 1..Now, i = Now, trades[i].phase # "over", Allows(plan[i])'
        PROVE  Allows(plan[i]) \/ trades'[i].approved = TRUE
    <2>1. plan' = plan
      BY DEF UpsertApproval
    <2>2. plan[i].route \in Routes
      <3>1. i \in 1..Len(plan)
        BY <1>1 DEF TypeOK
      <3>2. plan[i] \in Candidate
        BY <3>1 DEF TypeOK
      <3> QED
        BY <3>2 DEF Candidate
    <2>3. CASE plan[i].route = r
      <3>1. approval'[r] = cap
        BY <1>2 DEF TypeOK
      <3>2. more(i)
        BY <1>6, <2>1, <2>3, <3>1 DEF Allows
      <3> QED
        BY <1>4, <3>2
    <2>4. CASE plan[i].route # r
      <3>1. approval'[plan[i].route] = approval[plan[i].route]
        BY <1>2, <2>2, <2>4 DEF TypeOK
      <3> QED
        BY <1>6, <2>1, <3>1 DEF Allows
    <2> QED
      BY <2>3, <2>4
  <1> QED
    BY <1>3, <1>4, <1>5, <1>6 DEF Approves

-----------------------------------------------------------------------------
(* Types.                                                                  *)

LEMMA InitType == Init => TypeOK /\ TradesInv
  <1>1. <<>> \in Seq(Candidate) /\ <<>> \in Seq(Trade) /\ Len(<<>>) = 0
    OBVIOUS
  <1>2. DOMAIN <<>> = {}
    OBVIOUS
  <1> QED
    BY <1>1, <1>2 DEF Init, TypeOK, TradesInv

\* The outcomes of routes that are over are stored.
LEMMA RecordType ==
  ASSUME TypeOK, TradesInv, StoreRecord
  PROVE  record' \in Record
  <1>1. trades \in Seq(Trade) /\ Now \in Nat /\ Now = Len(trades) /\ DOMAIN trades = 1..Now
    BY DEF TypeOK, Now
  <1>2. PICK routes : routes = [i \in DOMAIN trades |-> trades[i].outcome]
    OBVIOUS
  <1>3. \A i \in 1..Now : trades[i].phase = "over"
    BY <1>1 DEF StoreRecord, At, Doing, Current, TradesInv
  <1>4. \A i \in 1..Now : trades[i].outcome \in {"completed", "failed"}
    <2>1. \A i \in 1..Now : trades[i] \in Trade /\ trades[i].outcome # None
      BY <1>1, <1>3 DEF TypeOK
    <2> QED
      BY <2>1 DEF Trade
  <1>5. routes \in Seq({"completed", "failed"})
    BY <1>1, <1>2, <1>4
  <1>6. PICK status \in {"completed", "completed_with_failures"} :
           record' = [status |-> status, routes |-> routes]
    BY <1>2 DEF StoreRecord
  <1> QED
    BY <1>5, <1>6 DEF Record

LEMMA StepType == TypeOK /\ TradesInv /\ [Next]_vars => TypeOK' /\ TradesInv'
  <1> SUFFICES ASSUME TypeOK, TradesInv, [Next]_vars PROVE TypeOK' /\ TradesInv'
    OBVIOUS
  <1>1. /\ trades \in Seq(Trade) /\ Now \in Nat /\ Now = Len(trades) /\ DOMAIN trades = 1..Now
        /\ Now' = Len(trades') /\ Now <= Len(plan) /\ Len(plan) \in Nat
    BY DEF TypeOK, Now
  <1>2. ASSUME UNCHANGED trades, pc' = pc \/ pc' \in {"running", "stored", "raised", "dead"}
        PROVE  TradesInv'
    BY <1>2 DEF TradesInv, Now
  <1>3. CASE Scan
    <2>1. plan' \in Seq(Candidate)
      BY <1>3, CappedType DEF Scan
    <2>2. trades = <<>> /\ Len(trades) = 0
      BY <1>3 DEF Scan, TradesInv
    <2> QED
      BY <1>1, <1>3, <2>1, <2>2 DEF Scan, TypeOK, TradesInv, Now
  <1>4. CASE Allocate
    <2>1. plan' \in Seq(Candidate) /\ Len(plan') \in Nat
      <3>1. plan \in Seq(Candidate)
        BY DEF TypeOK
      <3>2. FoldLeft(Add, <<>>, plan) \in Within
        BY <3>1, PlannedType
      <3> QED
        BY <1>4, <3>2 DEF Allocate, Within
    <2>2. trades = <<>> /\ Len(trades) = 0
      BY <1>4 DEF Allocate, TradesInv
    <2>3. pc' \in {"raised", "running"} /\ UNCHANGED <<approval, options, trades, record>>
      BY <1>4 DEF Allocate
    <2> QED
      BY <1>1, <2>1, <2>2, <2>3 DEF TypeOK, TradesInv, Now
  <1>5. CASE BeginRoute
    <2>1. PICK t : Begun(t)
      BY <1>5, BeginRouteBegins
    <2>2. Now < Len(plan) /\ pc = "running" /\ (trades # <<>> => trades[Now].phase = "over")
      BY <1>5 DEF BeginRoute, At, Doing, Current
    <2>3. \A i \in 1..Now : trades'[i].phase = "over"
      BY <1>1, <2>1, <2>2 DEF Begun, TradesInv
    <2>4. \A i \in 1..(Now + 1) : (trades'[i].phase = "over") <=> trades'[i].outcome # None
      BY <1>1, <2>1 DEF Begun, TypeOK
    <2>5. UNCHANGED <<approval, pc, options, plan, record>>
      BY <1>5 DEF BeginRoute
    <2>6. trades' \in Seq(Trade) /\ Len(trades') = Now + 1 /\ DOMAIN trades' = 1..(Now + 1)
      BY <1>1, <2>1 DEF Begun
    <2>7. TypeOK'
      BY <1>1, <2>2, <2>4, <2>5, <2>6 DEF TypeOK
    <2>8. TradesInv'
      BY <1>1, <2>2, <2>3, <2>5, <2>6 DEF TradesInv
    <2> QED
      BY <2>7, <2>8
  <1>6. CASE RouteUnresolved
    BY <1>2, <1>6 DEF RouteUnresolved, TypeOK
  <1>7. CASE StoreRecord
    BY <1>2, <1>7, RecordType DEF StoreRecord, TypeOK
  <1>8. CASE Dies
    BY <1>2, <1>8 DEF Dies, TypeOK
  <1>9. CASE Lifecycle
    <2>1. PICK t : Moves(t)
      BY <1>9, LifecycleMoves
    <2>2. /\ trades' \in Seq(Trade) /\ Len(trades') = Now /\ DOMAIN trades' = 1..Now
          /\ \A i \in 1..Now : trades'[i] = IF i = Now THEN t ELSE trades[i]
          /\ UNCHANGED <<approval, pc, options, plan, record>>
      BY <1>1, <2>1 DEF Moves
    <2>3. \A i \in 1..Now : (trades'[i].phase = "over") <=> trades'[i].outcome # None
      BY <1>1, <2>1, <2>2 DEF TypeOK, Moves
    <2>4. TypeOK'
      BY <1>1, <2>2, <2>3 DEF TypeOK
    <2>5. TradesInv'
      BY <1>1, <2>1, <2>2 DEF TradesInv, Moves
    <2> QED
      BY <2>4, <2>5
  <1>10. CASE UpsertApproval
    <2>1. Approves /\ UNCHANGED <<pc, options, plan, record>>
      BY <1>10, UpsertApproves DEF UpsertApproval
    <2>2. DOMAIN trades' = 1..Now /\ trades' \in Seq(Trade) /\ Len(trades') = Now
      BY <1>1, <2>1 DEF Approves
    <2>3. \A i \in 1..Now : (trades'[i].phase = "over") <=> trades'[i].outcome # None
      BY <1>1, <2>1 DEF TypeOK, Approves
    <2>4. TypeOK'
      BY <1>1, <2>1, <2>2, <2>3 DEF TypeOK, Approves
    <2>5. trades = <<>> => trades' = <<>>
      BY <1>1, <2>2
    <2>6. TradesInv'
      BY <1>1, <2>1, <2>2, <2>5 DEF TradesInv, Approves
    <2> QED
      BY <2>4, <2>6
  <1>11. CASE UNCHANGED vars
    BY <1>2, <1>11 DEF vars, request, TypeOK
  <1> QED
    BY <1>3, <1>4, <1>5, <1>6, <1>7, <1>8, <1>9, <1>10, <1>11 DEF Next

\* TypeOK holds of every behaviour of a basket, with what its plan needs: the
\* notional of an entry is never zero, and no more routes are begun than planned.
THEOREM TypeCorrect == Spec => [](TypeOK /\ TradesInv)
  BY InitType, StepType, PTL DEF Spec

-----------------------------------------------------------------------------
(* Approvals.                                                              *)

\* A route that is allowed when its approval is required was so since it was
\* begun, and only such a route goes on.
ApprovalInv ==
    \A i \in 1..Len(trades) :
       /\ trades[i].exposure # "none" => trades[i].approved = TRUE
       /\ trades[i].phase \notin {"approve", "over"} => trades[i].approved = TRUE
       /\ trades[i].phase = "approve" =>
             /\ trades[i].exposure = "none"
             /\ Allows(plan[i]) => trades[i].approved = TRUE

LEMMA ApprovalStep ==
  TypeOK /\ TradesInv /\ ApprovalInv /\ [Next]_vars => ApprovalInv'
  <1> SUFFICES ASSUME TypeOK, TradesInv, ApprovalInv, [Next]_vars PROVE ApprovalInv'
    OBVIOUS
  <1>1. /\ trades \in Seq(Trade) /\ Now \in Nat /\ Now = Len(trades) /\ DOMAIN trades = 1..Now
        /\ Now' = Len(trades')
    BY DEF TypeOK, Now
  <1>2. CASE Scan \/ Allocate
    <2>1. trades = <<>> /\ trades' = <<>> /\ Len(trades') = 0
      BY <1>2 DEF Scan, Allocate, TradesInv
    <2> QED
      BY <2>1 DEF ApprovalInv
  <1>3. CASE BeginRoute
    <2>1. PICK t : Begun(t)
      BY <1>3, BeginRouteBegins
    <2>2. plan' = plan /\ approval' = approval
      BY <1>3 DEF BeginRoute
    <2>3. \A i \in 1..(Now + 1) : i \in 1..Now \/ i = Now + 1
      BY <1>1
    <2> QED
      BY <1>1, <2>1, <2>2, <2>3 DEF ApprovalInv, Begun, Allows
  <1>4. CASE RouteUnresolved \/ StoreRecord \/ Dies \/ UNCHANGED vars
    BY <1>4 DEF RouteUnresolved, StoreRecord, Dies, vars, request, ApprovalInv, Allows
  <1>5. CASE Lifecycle
    <2>1. PICK t : Moves(t)
      BY <1>5, LifecycleMoves
    <2>2. /\ Len(trades') = Now
          /\ \A i \in 1..Now : trades'[i] = IF i = Now THEN t ELSE trades[i]
          /\ plan' = plan /\ approval' = approval
          /\ Now \in 1..Now
      BY <1>1, <2>1 DEF Moves
    <2>3. /\ t.exposure # "none" => t.approved = TRUE
          /\ t.phase # "over" => t.approved = TRUE
          /\ t.phase # "approve"
      <3>1. t.approved = trades[Now].approved /\ t.phase # "approve" /\ trades[Now].phase # "over"
        BY <2>1 DEF Moves, Current
      <3>2. CASE trades[Now].phase = "approve"
        BY <2>1, <2>2, <3>1, <3>2, <1>1 DEF Moves, Current, ApprovalInv
      <3>3. CASE trades[Now].phase # "approve"
        BY <2>2, <3>1, <3>3, <1>1 DEF ApprovalInv
      <3> QED
        BY <3>1, <3>2, <3>3
    <2> QED
      BY <1>1, <2>2, <2>3 DEF ApprovalInv, Allows
  <1>6. CASE UpsertApproval
    <2>1. Approves /\ plan' = plan
      BY <1>6, UpsertApproves DEF UpsertApproval
    <2>2. ASSUME NEW i \in 1..Now
          PROVE  /\ trades'[i].exposure # "none" => trades'[i].approved = TRUE
                 /\ trades'[i].phase \notin {"approve", "over"} => trades'[i].approved = TRUE
                 /\ trades'[i].phase = "approve" => trades'[i].exposure = "none"
      BY <1>1, <2>1 DEF Approves, ApprovalInv
    <2>3. ASSUME NEW i \in 1..Now, trades'[i].phase = "approve", Allows(plan[i])'
          PROVE  trades'[i].approved = TRUE
      <3>1. trades[i].phase = "approve"
        BY <2>1, <2>3 DEF Approves
      <3>2. i = Now
        BY <1>1, <3>1 DEF TradesInv
      <3>3. Allows(plan[i]) \/ trades'[i].approved = TRUE
        BY <2>1, <2>3, <3>1, <3>2 DEF Approves
      <3>4. Allows(plan[i]) => trades[i].approved = TRUE
        BY <1>1, <3>1 DEF ApprovalInv
      <3> QED
        BY <2>1, <3>3, <3>4 DEF Approves
    <2> QED
      BY <1>1, <2>1, <2>2, <2>3 DEF ApprovalInv, Approves
  <1> QED
    BY <1>2, <1>3, <1>4, <1>5, <1>6 DEF Next

\* ApprovedWhenReached holds of every basket, whatever the approvals, the caps
\* and the operator's changes of them: nothing is sent for a route that was not
\* approved within its cap at some moment since it was begun.
THEOREM RouteApproved == Spec => []ApprovedWhenReached
  <1>1. Init => ApprovalInv
    <2>1. Len(<<>>) = 0
      OBVIOUS
    <2> QED
      BY <2>1 DEF Init, ApprovalInv
  <1>2. TypeOK /\ ApprovalInv => ApprovedWhenReached
    BY DEF TypeOK, ApprovalInv, ApprovedWhenReached, Sent
  <1> QED
    BY <1>1, <1>2, ApprovalStep, TypeCorrect, PTL DEF Spec

-----------------------------------------------------------------------------
(* Failures.                                                               *)

LEMMA FailureStep ==
  TypeOK /\ TradesInv /\ NothingAfterFailure /\ [Next]_vars => NothingAfterFailure'
  <1> SUFFICES ASSUME TypeOK, TradesInv, NothingAfterFailure, [Next]_vars,
                      ~options'.continues,
                      NEW i \in DOMAIN trades', trades'[i].outcome = "failed"
               PROVE  i = Now'
    BY DEF NothingAfterFailure
  <1>1. /\ trades \in Seq(Trade) /\ Now \in Nat /\ Now = Len(trades) /\ DOMAIN trades = 1..Now
        /\ Now' = Len(trades')
    BY DEF TypeOK, Now
  <1>2. options' = options
    BY DEF Next, vars, request, Scan, Allocate, BeginRoute, RouteUnresolved, StoreRecord, Dies,
       Lifecycle, RequireApproval, Prepare, Open, Opened, Close, Closed, Goes, Raises, UpsertApproval
  <1>3. CASE BeginRoute
    <2>1. PICK t : Begun(t)
      BY <1>3, BeginRouteBegins
    <2>2. i \in 1..(Now + 1) /\ Now' = Now + 1
      BY <1>1, <2>1 DEF Begun
    <2>3. ASSUME i # Now + 1
          PROVE  FALSE
      <3>1. i \in 1..Now /\ trades[i].outcome = "failed"
        BY <1>1, <2>1, <2>2, <2>3 DEF Begun
      <3>2. i = Now
        BY <1>1, <1>2, <3>1 DEF NothingAfterFailure
      <3>3. Stops
        BY <1>1, <1>2, <3>1, <3>2 DEF Stops, Current
      <3> QED
        BY <1>3, <3>3 DEF BeginRoute
    <2> QED
      BY <2>2, <2>3
  <1>4. CASE Lifecycle
    <2>1. PICK t : Moves(t)
      BY <1>4, LifecycleMoves
    <2>2. DOMAIN trades' = 1..Now /\ Now' = Now
      BY <1>1, <2>1 DEF Moves
    <2>3. i # Now => trades[i].outcome = "failed"
      BY <1>1, <2>1, <2>2 DEF Moves
    <2> QED
      BY <1>1, <1>2, <2>2, <2>3 DEF NothingAfterFailure
  <1>5. CASE UpsertApproval
    <2>1. Approves
      BY <1>5, UpsertApproves
    <2>2. DOMAIN trades' = 1..Now /\ Now' = Now /\ trades[i].outcome = "failed"
      BY <1>1, <2>1 DEF Approves
    <2> QED
      BY <1>1, <1>2, <2>2 DEF NothingAfterFailure
  <1>6. CASE trades' = trades
    BY <1>1, <1>2, <1>6 DEF NothingAfterFailure
  <1>7. CASE Scan \/ Allocate \/ RouteUnresolved \/ StoreRecord \/ Dies \/ UNCHANGED vars
    <2>1. trades' = trades
      BY <1>7 DEF Scan, Allocate, RouteUnresolved, StoreRecord, Dies, vars, request
    <2> QED
      BY <1>6, <2>1
  <1> QED
    BY <1>3, <1>4, <1>5, <1>7 DEF Next

\* NothingAfterFailure holds of every basket: a failed route, whose order may
\* have been sent, is the last that is begun unless the loop is told to continue.
THEOREM FailureIsLast == Spec => []NothingAfterFailure
  <1>1. Init => NothingAfterFailure
    BY DEF Init, NothingAfterFailure
  <1> QED
    BY <1>1, FailureStep, TypeCorrect, PTL DEF Spec

-----------------------------------------------------------------------------
(* The target.                                                             *)

\* What is planned is within the target before anything is begun, and stays so.
PlanInv ==
    /\ pc = "scanned" => Distinct(plan)
    /\ pc = "running" \/ trades # <<>> => plan \in Within /\ Distinct(plan)

LEMMA PlanStep == TypeOK /\ TradesInv /\ PlanInv /\ [Next]_vars => PlanInv'
  <1> SUFFICES ASSUME TypeOK, TradesInv, PlanInv, [Next]_vars PROVE PlanInv'
    OBVIOUS
  <1>1. CASE Scan
    <2>1. Distinct(plan')
      BY <1>1, CappedType DEF Scan
    <2> QED
      BY <1>1, <2>1 DEF Scan, TradesInv, PlanInv
  <1>2. CASE Allocate
    <2>1. plan \in Seq(Candidate) /\ Distinct(plan)
      BY <1>2 DEF TypeOK, Allocate, PlanInv
    <2>2. FoldLeft(Add, <<>>, plan) \in Within /\ Distinct(FoldLeft(Add, <<>>, plan))
      BY <2>1, PlannedType
    <2>3. plan' \in Within /\ Distinct(plan')
      BY <1>2, <2>2 DEF Allocate
    <2>4. pc' # "scanned"
      BY <1>2 DEF Allocate
    <2> QED
      BY <2>3, <2>4 DEF PlanInv
  <1>3. ASSUME plan' = plan, pc = "running" \/ trades # <<>>, pc' # "scanned"
        PROVE  PlanInv'
    BY <1>3 DEF PlanInv
  <1>4. CASE BeginRoute \/ RouteUnresolved \/ StoreRecord
    BY <1>3, <1>4 DEF BeginRoute, RouteUnresolved, StoreRecord, At
  <1>5. CASE Dies
    BY <1>5 DEF Dies, PlanInv
  <1>6. CASE Lifecycle
    <2>1. PICK t : Moves(t)
      BY <1>6, LifecycleMoves
    <2> QED
      BY <1>3, <2>1 DEF Moves
  <1>7. CASE UpsertApproval
    <2>1. Approves /\ plan' = plan /\ pc' = pc
      BY <1>7, UpsertApproves DEF UpsertApproval
    <2>2. trades = <<>> => trades' = <<>>
      BY <2>1 DEF Approves, Now, TypeOK
    <2> QED
      BY <2>1, <2>2 DEF PlanInv
  <1>8. CASE UNCHANGED vars
    BY <1>8 DEF vars, request, PlanInv
  <1> QED
    BY <1>1, <1>2, <1>4, <1>5, <1>6, <1>7, <1>8 DEF Next

LEMMA PlanIsShared == TypeOK /\ PlanInv => TargetIsShared
  <1> SUFFICES ASSUME TypeOK, PlanInv PROVE TargetIsShared
    OBVIOUS
  <1>1. /\ trades \in Seq(Trade) /\ DOMAIN trades = 1..Len(trades) /\ Len(trades) \in Nat
        /\ plan \in Seq(Candidate) /\ plan \in Seq(Entry) /\ Len(trades) <= Len(plan)
        /\ Len(plan) \in Nat
    BY CandidatesAreEntries DEF TypeOK
  <1>2. PICK es : es = [i \in DOMAIN trades |->
                          [plan[i] EXCEPT !.notional = IF i \in Sent THEN @ ELSE 0]]
    OBVIOUS
  <1>3. ASSUME NEW i \in 1..Len(trades)
        PROVE  es[i] \in Entry /\ es[i].notional <= plan[i].notional
    <2>1. plan[i] \in Candidate
      BY <1>1
    <2>2. PICK n : n = IF i \in Sent THEN plan[i].notional ELSE 0
      OBVIOUS
    <2>3. es[i] = [plan[i] EXCEPT !.notional = n]
      BY <1>1, <1>2, <2>2
    <2>4. n \in Nat /\ n <= plan[i].notional
      BY <2>1, <2>2 DEF Candidate
    <2> QED
      BY <2>1, <2>3, <2>4 DEF Candidate, Entry
  <1>4. es \in Seq(Entry) /\ Len(es) = Len(trades)
    <2>1. es = [i \in 1..Len(trades) |-> es[i]]
      BY <1>1, <1>2
    <2>2. \A i \in 1..Len(trades) : es[i] \in Entry
      BY <1>3
    <2> QED
      BY <1>1, <2>1, <2>2
  <1>5. CASE trades = <<>>
    <2>1. Len(trades) = 0
      BY <1>5
    <2>2. es = <<>>
      BY <1>4, <2>1
    <2>3. Allocated(es) = 0
      BY <2>2, AllocatedNothing
    <2>4. Sent = {}
      BY <1>1, <2>1 DEF Sent
    <2> QED
      BY <1>2, <2>3, <2>4, BasketAssumption DEF TargetIsShared
  <1>6. CASE trades # <<>>
    <2>1. plan \in Within /\ Distinct(plan)
      BY <1>6 DEF PlanInv
    <2>2. Allocated(es) <= Allocated(plan)
      <3>1. Len(es) <= Len(plan) /\ \A k \in 1..Len(es) : es[k].notional <= plan[k].notional
        BY <1>1, <1>3, <1>4
      <3> QED
        BY <1>1, <1>4, <3>1, AllocatedLess
    <2>3. Allocated(es) \in Nat /\ Allocated(plan) \in Nat
      BY <1>1, <1>4, AllocatedType
    <2>4. Allocated(plan) <= Target
      BY <2>1 DEF Within
    <2>5. Allocated(es) <= Target
      BY <2>2, <2>3, <2>4, BasketAssumption
    <2>6. Sent \subseteq 1..Len(plan)
      BY <1>1 DEF Sent
    <2>7. \A i, j \in Sent : i # j => plan[i].route # plan[j].route
      BY <2>1, <2>6 DEF Distinct
    <2> QED
      BY <1>2, <2>5, <2>7 DEF TargetIsShared
  <1> QED
    BY <1>5, <1>6

\* TargetIsShared holds of every basket, for any number of routes: what was sent
\* adds up to no more than its target, and no route was sent twice, whichever
\* routes failed and however the approvals changed between the scan, the plan
\* and the launches.
THEOREM TargetKept == Spec => []TargetIsShared
  <1>1. Init => PlanInv
    BY DEF Init, PlanInv
  <1> QED
    BY <1>1, PlanStep, PlanIsShared, TypeCorrect, PTL DEF Spec
=============================================================================
