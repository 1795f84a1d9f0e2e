----------------------------- MODULE DayPlan_proofs ----------------------------
(***************************************************************************)
(* What the proofs about Availability, Planning and Quotes rest on: the    *)
(* hours that outages leave of a day, by induction along the walk over the *)
(* gaps, what the day planner may return, the solutions being a fold over  *)
(* the vans, and what the replay makes of a run, by induction over its     *)
(* stops.                                                                  *)
(***************************************************************************)
EXTENDS Agreement, SequenceTheorems, FiniteSetTheorems, InductionLemmas, TLAPS

-----------------------------------------------------------------------------
(* The planner's hours.                                                    *)

\* Among finitely many stretches, one is the last to begin.
LEMMA LatestExists ==
    ASSUME NEW b \in Nat, NEW T \in SUBSET ((0..b) \X (0..b)), T # {}
    PROVE  \E g \in T : \A x \in T : x = g \/ Sooner(x, g)
<1> DEFINE starts == {x[1] : x \in T}
<1>1. starts \in SUBSET (0..b) /\ starts # {}
    OBVIOUS
<1>2. PICK m \in starts : \A y \in starts : y <= m
    <2> HIDE DEF starts
    <2> QED
        BY <1>1, BoundedHaveGreatest
<1> DEFINE ends == {x[2] : x \in {y \in T : y[1] = m}}
<1>3. ends \in SUBSET (0..b) /\ ends # {}
    <2>1. PICK x \in T : x[1] = m
        BY <1>2
    <2>2. x[2] \in ends
        BY <2>1
    <2> QED
        BY <2>2
<1>4. PICK e \in ends : \A y \in ends : y <= e
    <2> HIDE DEF ends
    <2> QED
        BY <1>3, BoundedHaveGreatest
<1>5. PICK g \in T : g[1] = m /\ g[2] = e
    BY <1>4
<1>6. ASSUME NEW x \in T PROVE x = g \/ Sooner(x, g)
    <2>1. x[1] \in 0..b /\ x[2] \in 0..b /\ g[1] \in 0..b /\ g[2] \in 0..b
          /\ x = <<x[1], x[2]>> /\ g = <<g[1], g[2]>>
        OBVIOUS
    <2>2. x[1] <= g[1]
        BY <1>2, <1>5
    <2>3. x[1] = g[1] => x[2] <= g[2]
        BY <1>4, <1>5
    <2>4. CASE x[1] = g[1] /\ x[2] = g[2]
        BY <2>1, <2>4
    <2>5. CASE x[1] < g[1] \/ (x[1] = g[1] /\ x[2] < g[2])
        BY <2>5 DEF Sooner
    <2> QED
        BY <2>1, <2>2, <2>3, <2>4, <2>5
<1> QED
    BY <1>6

\* They can be put in order,
LEMMA OrderExists ==
    ASSUME NEW b \in Nat, NEW B \in SUBSET ((0..b) \X (0..b)), IsFiniteSet(B)
    PROVE  \E s \in [1..Cardinality(B) -> B] : \A i, k \in DOMAIN s : i < k => Sooner(s[i], s[k])
<1>1. PICK n \in Nat : n = Cardinality(B)
    BY FS_CardinalityType
<1> DEFINE InOrder(s) == \A i, k \in DOMAIN s : i < k => Sooner(s[i], s[k])
           S == {k \in 0..n : \A T \in SUBSET B : Cardinality(T) = k => \E s \in [1..k -> T] : InOrder(s)}
<1>2. 0 \in S
    <2> SUFFICES ASSUME NEW T \in SUBSET B PROVE \E s \in [1..0 -> T] : InOrder(s)
        <3>1. 0 \in 0..n
            OBVIOUS
        <3> HIDE DEF InOrder
        <3> QED
            BY <3>1
    <2>1. [i \in 1..0 |-> i] \in [1..0 -> T] /\ InOrder([i \in 1..0 |-> i])
        OBVIOUS
    <2> QED
        BY <2>1
<1>3. ASSUME NEW k \in 0..n - 1, k \in S PROVE k + 1 \in S
    <2> SUFFICES ASSUME NEW T \in SUBSET B, Cardinality(T) = k + 1
                 PROVE  \E s \in [1..k + 1 -> T] : InOrder(s)
        <3>1. k + 1 \in 0..n
            OBVIOUS
        <3> HIDE DEF InOrder
        <3> QED
            BY <3>1
    <2>1. IsFiniteSet(T) /\ T # {}
        BY FS_Subset, FS_EmptySet
    <2>2. PICK g \in T : \A x \in T : x = g \/ Sooner(x, g)
        BY <2>1, LatestExists
    <2>3. Cardinality(T \ {g}) = k
        <3>1. Cardinality(T \ {g}) = Cardinality(T) - 1
            BY <2>1, FS_RemoveElement
        <3> QED
            BY <3>1
    <2>4. PICK s \in [1..k -> T \ {g}] : InOrder(s)
        BY <1>3, <2>3
    <2> DEFINE next == [i \in 1..k + 1 |-> IF i = k + 1 THEN g ELSE s[i]]
    <2>5. \A i \in 1..k : s[i] \in T \ {g} /\ Sooner(s[i], g)
        BY <2>2
    <2>6. next \in [1..k + 1 -> T]
        BY <2>5
    <2>7. InOrder(next)
        BY <2>4, <2>5
    <2> HIDE DEF next, InOrder
    <2> QED
        BY <2>6, <2>7
<1>4. \A k \in 0..n : k \in S
    <2> HIDE DEF S
    <2> QED
        BY <1>2, <1>3, IntervalInduction
<1> QED
    BY <1>1, <1>4

\* so that Sorted has them all, in the order in which they begin.
LEMMA SortedMeans ==
    ASSUME NEW b \in Nat, NEW B \in SUBSET ((0..b) \X (0..b))
    PROVE  \E n \in Nat : /\ Sorted(B) \in [1..n -> B]
                          /\ \A x \in B : \E i \in 1..n : Sorted(B)[i] = x
                          /\ \A i, k \in 1..n : i < k => Sorted(B)[i][1] <= Sorted(B)[k][1]
<1>1. IsFiniteSet(B)
    <2>1. IsFiniteSet(0..b)
        BY FS_Interval
    <2> QED
        BY <2>1, FS_Product, FS_Subset
<1>2. PICK n \in Nat : n = Cardinality(B)
    BY <1>1, FS_CardinalityType
<1>3. PICK s : s = Sorted(B)
    OBVIOUS
<1>4. s \in [1..n -> B] /\ \A i, k \in 1..n : i < k => Sooner(s[i], s[k])
    BY <1>1, <1>2, <1>3, OrderExists DEF Sorted
<1>5. \A i, k \in 1..n : i < k => s[i][1] <= s[k][1] /\ s[i] # s[k]
    <2> TAKE i, k \in 1..n
    <2>1. PICK x, y : x = s[i] /\ y = s[k]
        OBVIOUS
    <2>2. x[1] \in Nat /\ y[1] \in Nat /\ x[2] \in Nat /\ y[2] \in Nat
        BY <1>4, <2>1
    <2>3. i < k => Sooner(x, y)
        BY <1>4, <2>1
    <2>4. Sooner(x, y) => x[1] <= y[1] /\ x # y
        BY <2>2 DEF Sooner
    <2> QED
        BY <2>1, <2>3, <2>4
<1>6. s \in Injection(1..n, B)
    BY <1>4, <1>5 DEF Injection, IsInjective
<1>7. s \in Surjection(1..n, B)
    <2>1. Cardinality(1..n) = n
        BY FS_Interval
    <2> QED
        BY <1>1, <1>2, <1>6, <2>1, FS_Injection
<1>8. \A x \in B : \E i \in 1..n : s[i] = x
    BY <1>7 DEF Surjection
<1>9. \A i, k \in 1..n : i < k => s[i][1] <= s[k][1]
    BY <1>5
<1> QED
    BY ONLY <1>3, <1>4, <1>8, <1>9, n \in Nat

Stretches(a, b) == (a..b) \X (a..b)

\* The two ways in which a stretch is merged into those before it.
MergesTo(r, m, n, x) ==
    \/ /\ n # 0 /\ x[1] <= m[n][2] /\ Len(r) = n
       /\ r[n] = <<m[n][1], Later(m[n][2], x[2])>>
       /\ \A i \in 1..n - 1 : r[i] = m[i]
    \/ /\ n = 0 \/ ~(x[1] <= m[n][2])
       /\ Len(r) = n + 1 /\ r[n + 1] = x
       /\ \A i \in 1..n : r[i] = m[i]

\* Merging a stretch stays within the shift.
LEMMA MergeMeans ==
    ASSUME NEW a \in Nat, NEW b \in Nat, NEW m \in Seq(Stretches(a, b)), NEW x \in Stretches(a, b)
    PROVE  /\ MergeInto(m, x) \in Seq(Stretches(a, b))
           /\ MergesTo(MergeInto(m, x), m, Len(m), x)
<1>1. PICK n \in Nat : n = Len(m) /\ DOMAIN m = 1..n /\ \A i \in 1..n : m[i] \in Stretches(a, b)
    BY LenProperties, ElementOfSeq
<1>2. PICK r : r = MergeInto(m, x)
    OBVIOUS
<1>3. m = <<>> <=> n = 0
    BY <1>1
<1>4. CASE n # 0 /\ x[1] <= m[n][2]
    <2>1. PICK y : y = <<m[n][1], Later(m[n][2], x[2])>>
        OBVIOUS
    <2>2. y \in Stretches(a, b)
        <3>1. n \in 1..n
            BY <1>4
        <3>2. m[n] \in Stretches(a, b)
            BY <1>1, <3>1
        <3> QED
            BY <2>1, <3>2 DEF Stretches, Later
    <2>3. PICK front : front = SubSeq(m, 1, n - 1)
        OBVIOUS
    <2>4. front \in Seq(Stretches(a, b)) /\ Len(front) = n - 1 /\ \A i \in 1..n - 1 : front[i] = m[i]
        <3>1. n - 1 \in Int /\ 1 \in Int /\ \A i \in 1..n - 1 : i \in 1..n
            OBVIOUS
        <3>2. \A i \in 1..n - 1 : m[i] \in Stretches(a, b)
            BY <1>1, <3>1
        <3>3. /\ front \in Seq(Stretches(a, b))
              /\ Len(front) = IF 1 <= n - 1 THEN n - 1 - 1 + 1 ELSE 0
              /\ \A i \in 1..n - 1 - 1 + 1 : front[i] = m[1 + i - 1]
            BY <2>3, <3>1, <3>2, SubSeqProperties
        <3>4. Len(front) = n - 1 /\ \A i \in 1..n - 1 : i \in 1..n - 1 - 1 + 1 /\ 1 + i - 1 = i
            BY <1>4, <3>3
        <3> QED
            BY <3>3, <3>4
    <2>5. r = front \o <<y>>
        BY <1>1, <1>2, <1>3, <1>4, <2>1, <2>3 DEF MergeInto, Front, Last
    <2>6. <<y>> \in Seq(Stretches(a, b)) /\ Len(<<y>>) = 1 /\ <<y>>[1] = y
        BY <2>2
    <2>7. /\ r \in Seq(Stretches(a, b)) /\ Len(r) = Len(front) + 1
          /\ \A i \in 1..Len(front) + 1 : r[i] = IF i <= Len(front) THEN front[i] ELSE <<y>>[i - Len(front)]
        BY <2>4, <2>5, <2>6, ConcatProperties
    <2>8. Len(r) = n /\ r[n] = y /\ \A i \in 1..n - 1 : r[i] = m[i]
        <3>1. \A i \in 1..n : r[i] = IF i <= n - 1 THEN front[i] ELSE <<y>>[i - (n - 1)]
            BY <1>4, <2>4, <2>7
        <3>2. r[n] = <<y>>[n - (n - 1)]
            BY <1>4, <3>1
        <3>3. n - (n - 1) = 1
            OBVIOUS
        <3> QED
            BY <1>4, <2>4, <2>6, <2>7, <3>1, <3>2, <3>3
    <2> QED
        BY <1>1, <1>2, <1>4, <2>1, <2>7, <2>8 DEF MergesTo
<1>5. CASE ~(n # 0 /\ x[1] <= m[n][2])
    <2>1. r = Append(m, x)
        BY <1>1, <1>2, <1>3, <1>5 DEF MergeInto, Last
    <2>2. r \in Seq(Stretches(a, b)) /\ Len(r) = n + 1 /\ r[n + 1] = x /\ \A i \in 1..n : r[i] = m[i]
        BY <1>1, <2>1, AppendProperties
    <2> QED
        BY <1>1, <1>2, <1>5, <2>2 DEF MergesTo
<1> QED
    BY <1>4, <1>5

\* Merging goes through stages, a stretch at a time.
MergeStages(stage, n, s, a, b) ==
    /\ stage \in [0..n -> Seq(Stretches(a, b))]
    /\ stage[0] = <<>>
    /\ \A k \in 1..n : stage[k] = MergeInto(stage[k - 1], s[k])
    /\ stage[n] = FoldLeft(MergeInto, <<>>, s)

LEMMA MergingUnfolds ==
    ASSUME NEW a \in Nat, NEW b \in Nat, NEW n \in Nat, NEW s \in [1..n -> Stretches(a, b)]
    PROVE  \E stage : MergeStages(stage, n, s, a, b)
<1> DEFINE Merges == Seq(Stretches(a, b))
           step == [k \in 1..n |-> [m \in Merges |-> MergeInto(m, s[k])]]
           Folds(iter) == iter = [t \in SUBSET (1..n) |->
                              IF t = {} THEN <<>> ELSE MergeInto(iter[t \ {Max(t)}], s[Max(t)])]
           fold == CHOOSE iter : Folds(iter)
<1>1. <<>> \in Merges
    OBVIOUS
<1>2. step \in [1..n -> [Merges -> Merges]]
    BY MergeMeans
<1>3. \A t \in SUBSET (1..n) : t # {} => Max(t) \in 1..n
    BY MaxIsIn
<1>4. \E iter : Folds(iter)
    <2>1. PICK iter \in [SUBSET (1..n) -> Merges] : IsFold(iter, n, <<>>, step)
        <3> HIDE DEF step, Merges
        <3> QED
            BY <1>1, <1>2, FoldExists, Zenon
    <2> HIDE DEF Merges
    <2>2. \A t \in SUBSET (1..n) :
              iter[t] = IF t = {} THEN <<>> ELSE MergeInto(iter[t \ {Max(t)}], s[Max(t)])
        BY <1>3, <2>1 DEF IsFold
    <2> QED
        BY <2>1, <2>2
<1>5. Folds(fold)
    <2> HIDE DEF Folds
    <2> QED
        BY <1>4
<1>6. FoldLeft(MergeInto, <<>>, s) = fold[1..n]
    BY DEF FoldLeft, MapThenFoldSet
<1> HIDE DEF fold, Merges
<1>7. FoldsStages(fold, n, Merges, <<>>, step)
    <2>1. \A t \in SUBSET (1..n) :
              fold[t] = IF t = {} THEN <<>> ELSE MergeInto(fold[t \ {Max(t)}], s[Max(t)])
        BY <1>5
    <2> QED
        BY <1>3, <2>1 DEF FoldsStages
<1>8. PICK stage \in [0..n -> Merges] : AreStages(stage, fold, n, <<>>, step)
    <2> HIDE DEF step
    <2> QED
        BY <1>1, <1>2, <1>7, FoldStages, Zenon
<1>9. \A k \in 1..n : stage[k - 1] \in Merges
    OBVIOUS
<1>10. /\ stage[0] = <<>> /\ stage[n] = FoldLeft(MergeInto, <<>>, s)
       /\ \A k \in 1..n : stage[k] = MergeInto(stage[k - 1], s[k])
    BY <1>6, <1>8, <1>9 DEF AreStages
<1>11. MergeStages(stage, n, s, a, b)
    BY <1>10 DEF Merges, MergeStages
<1> QED
    BY <1>11

\* What is under one of the first k stretches of s.
Under(s, k, t) == \E i \in 1..k : s[i][1] <= t /\ t < s[i][2]

\* What merging the first k of s has made: stretches apart from one another,
\* which cover what those cover and begin no later than those to come.
Merged(m, s, k) ==
    /\ \A i \in 1..Len(m) : m[i][1] < m[i][2]
    /\ \A i, j \in 1..Len(m) : i < j => m[i][2] < m[j][1]
    /\ \A t \in Int : Under(m, Len(m), t) <=> Under(s, k, t)
    /\ \A i \in 1..Len(m), j \in DOMAIN s : k < j => m[i][1] <= s[j][1]

\* One stretch more covers its own moments more.
LEMMA OneMoreUnder ==
    ASSUME NEW s, NEW k \in Nat, NEW t
    PROVE  Under(s, k + 1, t) <=> Under(s, k, t) \/ (s[k + 1][1] <= t /\ t < s[k + 1][2])
<1>1. \A i : i \in 1..k + 1 <=> i \in 1..k \/ i = k + 1
    OBVIOUS
<1> QED
    BY <1>1 DEF Under

\* Merging the next stretch keeps that: it begins no earlier than any before it.
LEMMA MergingKeeps ==
    ASSUME NEW a \in Nat, NEW b \in Nat, NEW n \in Nat, NEW s \in [1..n -> Stretches(a, b)],
           \A i \in 1..n : s[i][1] < s[i][2],
           \A i, j \in 1..n : i < j => s[i][1] <= s[j][1],
           NEW k \in 0..n - 1, NEW m \in Seq(Stretches(a, b)), Merged(m, s, k)
    PROVE  Merged(MergeInto(m, s[k + 1]), s, k + 1)
<1>1. PICK x : x = s[k + 1]
    OBVIOUS
<1>2. PICK r : r = MergeInto(m, x)
    OBVIOUS
<1>3. PICK c \in Nat : c = Len(m) /\ \A i \in 1..c : m[i] \in Stretches(a, b)
    BY LenProperties, ElementOfSeq
<1>4. /\ k + 1 \in 1..n /\ x \in Stretches(a, b) /\ x[1] < x[2]
      /\ x[1] \in Int /\ x[2] \in Int
    <2>1. k + 1 \in 1..n
        OBVIOUS
    <2> QED
        BY <1>1, <2>1 DEF Stretches
<1>5. \A i \in 1..c : m[i][1] \in Int /\ m[i][2] \in Int
    BY <1>3 DEF Stretches
<1>6. \A i \in 1..c : m[i][1] <= x[1]
    BY <1>1, <1>3, <1>4 DEF Merged
<1>7. \A j \in 1..n : k + 1 < j => x[1] <= s[j][1] /\ k < j
    BY <1>1, <1>4
<1>8. \A t \in Int : Under(s, k + 1, t) <=> Under(m, c, t) \/ (x[1] <= t /\ t < x[2])
    <2> TAKE t \in Int
    <2>1. Under(s, k + 1, t) <=> Under(s, k, t) \/ (x[1] <= t /\ t < x[2])
        <3>1. k \in Nat
            OBVIOUS
        <3> QED
            BY <1>1, <3>1, OneMoreUnder
    <2> QED
        BY <1>3, <2>1 DEF Merged
<1>9. \A j \in 1..n : s[j][1] \in Int
    BY DEF Stretches
<1>10. \/ /\ c # 0 /\ x[1] <= m[c][2] /\ Len(r) = c
          /\ r[c] = <<m[c][1], Later(m[c][2], x[2])>>
          /\ \A i \in 1..c - 1 : r[i] = m[i]
       \/ /\ c = 0 \/ ~(x[1] <= m[c][2])
          /\ Len(r) = c + 1 /\ r[c + 1] = x
          /\ \A i \in 1..c : r[i] = m[i]
    <2>1. MergesTo(MergeInto(m, x), m, Len(m), x)
        BY <1>4, MergeMeans
    <2>2. MergesTo(r, m, c, x)
        BY <1>2, <1>3, <2>1
    <2> QED
        BY <2>2 DEF MergesTo
<1>11. CASE /\ c # 0 /\ x[1] <= m[c][2] /\ Len(r) = c
            /\ r[c] = <<m[c][1], Later(m[c][2], x[2])>>
            /\ \A i \in 1..c - 1 : r[i] = m[i]
    <2>1. c \in 1..c /\ c - 1 \in Nat /\ (c - 1) + 1 = c
        BY <1>11
    <2>2. /\ r[c][1] = m[c][1] /\ r[c][2] \in Int
          /\ m[c][2] <= r[c][2] /\ x[2] <= r[c][2] /\ r[c][2] \in {m[c][2], x[2]}
        BY <1>4, <1>5, <1>11, <2>1 DEF Later
    <2>3. \A i \in 1..c : r[i][1] = m[i][1] /\ (i < c => r[i] = m[i])
        BY <1>11, <2>2
    <2>4. \A i \in 1..c : r[i][1] < r[i][2]
        <3> TAKE i \in 1..c
        <3>1. m[i][1] < m[i][2] /\ m[i][1] \in Int /\ m[i][2] \in Int
            BY <1>3, <1>5 DEF Merged
        <3>2. CASE i = c
            <4>1. m[c][1] < m[c][2] /\ m[c][2] <= r[c][2] /\ r[c][2] \in Int
                BY <2>2, <3>1, <3>2
            <4>2. m[c][1] < r[c][2]
                BY <3>1, <3>2, <4>1
            <4> QED
                BY <2>2, <3>2, <4>2
        <3>3. CASE i # c
            BY <2>3, <3>1, <3>3
        <3> QED
            BY <3>2, <3>3
    <2>5. \A i, j \in 1..c : i < j => r[i][2] < r[j][1]
        BY <1>3, <2>3 DEF Merged
    <2>6. ASSUME NEW t \in Int PROVE Under(r, c, t) <=> Under(m, c, t) \/ (x[1] <= t /\ t < x[2])
        <3>1. Under(r, c - 1, t) <=> Under(m, c - 1, t)
            BY <1>11 DEF Under
        <3>2. Under(r, c, t) <=> Under(r, c - 1, t) \/ (r[c][1] <= t /\ t < r[c][2])
            BY <2>1, OneMoreUnder
        <3>3. Under(m, c, t) <=> Under(m, c - 1, t) \/ (m[c][1] <= t /\ t < m[c][2])
            BY <2>1, OneMoreUnder
        <3>4. (r[c][1] <= t /\ t < r[c][2]) <=>
                  (m[c][1] <= t /\ t < m[c][2]) \/ (x[1] <= t /\ t < x[2])
            <4>1. PICK p, q, u, x1, x2 : /\ p = m[c][1] /\ q = m[c][2] /\ u = r[c][2] /\ p = r[c][1]
                                         /\ x1 = x[1] /\ x2 = x[2]
                BY <2>2
            <4>2. /\ p \in Int /\ q \in Int /\ u \in Int /\ x1 \in Int /\ x2 \in Int
                  /\ p <= x1 /\ x1 <= q /\ q <= u /\ x2 <= u /\ (u = q \/ u = x2)
                BY <1>4, <1>5, <1>6, <1>11, <2>1, <2>2, <4>1
            <4>3. (p <= t /\ t < u) <=> (p <= t /\ t < q) \/ (x1 <= t /\ t < x2)
                BY <4>2
            <4> QED
                BY <4>1, <4>3
        <3> QED
            BY <3>1, <3>2, <3>3, <3>4
    <2>7. \A i \in 1..c, j \in 1..n : k + 1 < j => r[i][1] <= s[j][1]
        BY <1>3, <1>7, <2>3 DEF Merged
    <2>8. Merged(r, s, k + 1)
        BY <1>8, <1>11, <2>4, <2>5, <2>6, <2>7 DEF Merged
    <2> QED
        BY <1>1, <1>2, <2>8
<1>12. CASE /\ c = 0 \/ ~(x[1] <= m[c][2])
            /\ Len(r) = c + 1 /\ r[c + 1] = x
            /\ \A i \in 1..c : r[i] = m[i]
    <2>1. \A i \in 1..c + 1 : (i \in 1..c /\ r[i] = m[i]) \/ (i = c + 1 /\ r[i] = x)
        BY <1>12
    <2>2. \A i \in 1..c : m[i][2] < x[1]
        <3> TAKE i \in 1..c
        <3>0. c # 0 /\ c \in 1..c /\ x[1] \in Int
            BY <1>4
        <3>6. m[c][2] \in Int /\ ~(x[1] <= m[c][2])
            BY <1>5, <1>12, <3>0
        <3>1. c # 0 /\ c \in 1..c /\ m[c][2] < x[1]
            BY <3>0, <3>6
        <3>2. i = c \/ m[i][2] < m[c][1]
            BY <1>3, <3>1 DEF Merged
        <3>3. m[i][2] \in Int /\ m[c][1] \in Int /\ m[c][1] <= x[1]
            BY <1>5, <1>6, <3>1
        <3>4. CASE i = c
            BY <3>1, <3>4
        <3>5. CASE m[i][2] < m[c][1]
            BY ONLY <1>4, <3>3, <3>5
        <3> QED
            BY <3>2, <3>4, <3>5
    <2>3. \A i \in 1..c + 1 : r[i][1] < r[i][2]
        BY <1>3, <1>4, <2>1 DEF Merged
    <2>4. \A i, j \in 1..c + 1 : i < j => r[i][2] < r[j][1]
        <3> SUFFICES ASSUME NEW i \in 1..c + 1, NEW j \in 1..c + 1, i < j PROVE r[i][2] < r[j][1]
            OBVIOUS
        <3>1. i \in 1..c /\ r[i] = m[i]
            BY <2>1
        <3>2. CASE j = c + 1
            BY <1>12, <2>2, <3>1, <3>2
        <3>3. CASE j \in 1..c /\ r[j] = m[j]
            BY <1>3, <3>1, <3>3 DEF Merged
        <3> QED
            BY <2>1, <3>2, <3>3
    <2>5. ASSUME NEW t \in Int PROVE Under(r, c + 1, t) <=> Under(m, c, t) \/ (x[1] <= t /\ t < x[2])
        <3>1. Under(r, c, t) <=> Under(m, c, t)
            BY <1>12 DEF Under
        <3> QED
            BY <1>12, <3>1, OneMoreUnder
    <2>6. \A i \in 1..c + 1, j \in 1..n : k + 1 < j => r[i][1] <= s[j][1]
        BY <1>3, <1>7, <2>1 DEF Merged
    <2>7. Merged(r, s, k + 1)
        BY <1>8, <1>12, <2>3, <2>4, <2>5, <2>6 DEF Merged
    <2> QED
        BY <1>1, <1>2, <2>7
<1> QED
    BY <1>10, <1>11, <1>12

\* By induction along the stretches, merging does what it is for.
LEMMA MergingMeans ==
    ASSUME NEW a \in Nat, NEW b \in Nat, NEW n \in Nat, NEW s \in [1..n -> Stretches(a, b)],
           \A i \in 1..n : s[i][1] < s[i][2],
           \A i, j \in 1..n : i < j => s[i][1] <= s[j][1]
    PROVE  /\ FoldLeft(MergeInto, <<>>, s) \in Seq(Stretches(a, b))
           /\ Merged(FoldLeft(MergeInto, <<>>, s), s, n)
<1>1. PICK stage \in [0..n -> Seq(Stretches(a, b))] :
               /\ stage[0] = <<>>
               /\ \A k \in 1..n : stage[k] = MergeInto(stage[k - 1], s[k])
               /\ stage[n] = FoldLeft(MergeInto, <<>>, s)
    <2>1. \E stage : MergeStages(stage, n, s, a, b)
        BY MergingUnfolds
    <2> QED
        BY <2>1 DEF MergeStages
<1> DEFINE S == {k \in 0..n : Merged(stage[k], s, k)}
<1>2. 0 \in S
    <2>1. Len(<<>>) = 0 /\ 1..0 = {} /\ 0 \in 0..n
        OBVIOUS
    <2>2. Merged(<<>>, s, 0)
        BY <2>1 DEF Merged, Under
    <2> QED
        BY <1>1, <2>1, <2>2
<1>3. ASSUME NEW k \in 0..n - 1, k \in S PROVE k + 1 \in S
    <2>1. k + 1 \in 1..n /\ (k + 1) - 1 = k /\ k \in 0..n /\ k + 1 \in 0..n
        OBVIOUS
    <2>2. stage[k + 1] = MergeInto(stage[k], s[k + 1])
        BY <1>1, <2>1
    <2>3. Merged(MergeInto(stage[k], s[k + 1]), s, k + 1)
        BY <1>3, <2>1, MergingKeeps
    <2> QED
        BY <2>1, <2>2, <2>3
<1>4. \A k \in 0..n : k \in S
    <2> HIDE DEF S
    <2> QED
        BY <1>2, <1>3, IntervalInduction
<1>5. n \in 0..n
    OBVIOUS
<1> QED
    BY <1>1, <1>4, <1>5

\* Walking the gaps goes through stages too.
Walks(a, b) == [cursor : a..b, best : {<<>>} \cup Stretches(a, b)]

WalkStart(a) == [cursor |-> a, best |-> <<>>]
WalkEnd(a, s) == FoldLeft(Step, [cursor |-> a, best |-> <<>>], s)

\* The length of a stretch, and of none.
LEMMA LengthMeans ==
    ASSUME NEW a \in Nat, NEW b \in Nat
    PROVE  /\ Length(<<>>) = 0
           /\ \A x \in Stretches(a, b) : Length(x) = x[2] - x[1] /\ x # <<>>
           /\ \A x \in {<<>>} \cup Stretches(a, b) : Length(x) \in Int
<1>1. \A x \in Stretches(a, b) : x # <<>> /\ x[1] \in Int /\ x[2] \in Int
    <2> TAKE x \in Stretches(a, b)
    <2>1. PICK y, z \in a..b : x = <<y, z>>
        BY DEF Stretches
    <2>2. Len(x) = 2 /\ x[1] = y /\ x[2] = z
        BY <2>1
    <2> QED
        BY <2>2
<1> QED
    BY <1>1 DEF Length

\* The walk stays within the shift.
LEMMA StepTyped ==
    ASSUME NEW a \in Nat, NEW b \in Nat, NEW w \in Walks(a, b), NEW x \in Stretches(a, b)
    PROVE  Step(w, x) \in Walks(a, b)
<1>1. w.cursor \in a..b /\ x[1] \in a..b /\ x[2] \in a..b /\ w.best \in {<<>>} \cup Stretches(a, b)
    BY DEF Walks, Stretches
<1>2. Later(w.cursor, x[2]) \in a..b /\ <<w.cursor, x[1]>> \in Stretches(a, b)
    BY <1>1 DEF Later, Stretches
<1> QED
    BY <1>1, <1>2 DEF Step, Walks

WalkStages(stage, n, s, a, b) ==
    /\ stage \in [0..n -> Walks(a, b)]
    /\ stage[0] = WalkStart(a)
    /\ \A k \in 1..n : stage[k] = Step(stage[k - 1], s[k])
    /\ stage[n] = WalkEnd(a, s)

LEMMA WalkingUnfolds ==
    ASSUME NEW a \in Nat, NEW b \in Nat, NEW n \in Nat, NEW s \in [1..n -> Stretches(a, b)], a <= b
    PROVE  \E stage : WalkStages(stage, n, s, a, b)
<1> DEFINE start == [cursor |-> a, best |-> <<>>]
           step == [k \in 1..n |-> [w \in Walks(a, b) |-> Step(w, s[k])]]
           Folds(iter) == iter = [t \in SUBSET (1..n) |->
                              IF t = {} THEN start ELSE Step(iter[t \ {Max(t)}], s[Max(t)])]
           fold == CHOOSE iter : Folds(iter)
<1>1. start \in Walks(a, b)
    BY DEF Walks
<1>2. step \in [1..n -> [Walks(a, b) -> Walks(a, b)]]
    BY StepTyped
<1>3. \A t \in SUBSET (1..n) : t # {} => Max(t) \in 1..n
    BY MaxIsIn
<1>4. \E iter : Folds(iter)
    <2>1. PICK iter \in [SUBSET (1..n) -> Walks(a, b)] : IsFold(iter, n, start, step)
        <3> HIDE DEF step, start
        <3> QED
            BY <1>1, <1>2, FoldExists, Zenon
    <2> HIDE DEF start
    <2>2. \A t \in SUBSET (1..n) :
              iter[t] = IF t = {} THEN start ELSE Step(iter[t \ {Max(t)}], s[Max(t)])
        BY <1>3, <2>1 DEF IsFold
    <2> QED
        BY <2>1, <2>2
<1>5. Folds(fold)
    <2> HIDE DEF Folds
    <2> QED
        BY <1>4
<1>6. WalkEnd(a, s) = fold[1..n]
    BY DEF WalkEnd, FoldLeft, MapThenFoldSet
<1> HIDE DEF fold
<1>7. FoldsStages(fold, n, Walks(a, b), start, step)
    <2> HIDE DEF start
    <2>1. \A t \in SUBSET (1..n) :
              fold[t] = IF t = {} THEN start ELSE Step(fold[t \ {Max(t)}], s[Max(t)])
        BY <1>5
    <2> QED
        BY <1>3, <2>1 DEF FoldsStages
<1>8. PICK stage \in [0..n -> Walks(a, b)] : AreStages(stage, fold, n, start, step)
    <2> HIDE DEF step, start
    <2> QED
        BY <1>1, <1>2, <1>7, FoldStages, Zenon
<1>9. \A k \in 1..n : stage[k - 1] \in Walks(a, b)
    OBVIOUS
<1>10. WalkStages(stage, n, s, a, b)
    BY <1>6, <1>8, <1>9 DEF AreStages, WalkStart, WalkStages
<1> QED
    BY <1>10

\* Stretches one after the other, the last of them the empty one at b.
InLine(q, n, b) ==
    /\ n # 0 /\ q[n] = <<b, b>>
    /\ \A i \in 1..n - 1 : q[i][1] < q[i][2]
    /\ \A i, j \in 1..n : i < j => q[i][2] <= q[j][1]

Open(q, n, x, y) == \A t \in x..y - 1 : ~Under(q, n, t)

\* What a walk past the first k of n stretches knows.
Walked(w, q, n, k, a, b) ==
    /\ \A i \in 1..n : IF i <= k THEN q[i][2] <= w.cursor ELSE w.cursor <= q[i][1]
    /\ w.best # <<>> => w.best[1] < w.best[2] /\ Open(q, n, w.best[1], w.best[2])
    /\ \A x, y \in a..b : x < y /\ x < w.cursor /\ Open(q, n, x, y) => y - x <= Length(w.best)

\* A step past the next stretch keeps that.
LEMMA WalkingKeeps ==
    ASSUME NEW a \in Nat, NEW b \in Nat, NEW n \in Nat, NEW q \in [1..n -> Stretches(a, b)],
           InLine(q, n, b), NEW k \in 0..n - 1, NEW w \in Walks(a, b), Walked(w, q, n, k, a, b)
    PROVE  Walked(Step(w, q[k + 1]), q, n, k + 1, a, b)
<1>1. PICK c, u, v : c = w.cursor /\ u = q[k + 1][1] /\ v = q[k + 1][2]
    OBVIOUS
<1>2. k + 1 \in 1..n /\ k \in Nat
    OBVIOUS
<1>3. \A i \in 1..n : q[i][1] \in a..b /\ q[i][2] \in a..b
    BY DEF Stretches
<1>4. c \in a..b /\ u \in a..b /\ v \in a..b /\ w.best \in {<<>>} \cup Stretches(a, b)
    BY <1>1, <1>2, <1>3 DEF Walks
<1>5. c <= u
    <2>1. ~(k + 1 <= k)
        OBVIOUS
    <2> QED
        BY <1>1, <1>2, <2>1 DEF Walked
<1>6. u < v \/ (u = b /\ v = b)
    <2>1. CASE k + 1 = n
        BY <1>1, <2>1 DEF InLine
    <2>2. CASE k + 1 # n
        BY <1>1, <1>2, <2>2 DEF InLine
    <2> QED
        BY <2>1, <2>2
<1>7. \A i \in 1..n : /\ i <= k => q[i][2] <= c
                      /\ i = k + 1 => q[i][1] = u /\ q[i][2] = v
                      /\ k + 1 < i => v <= q[i][1]
    <2> TAKE i \in 1..n
    <2>1. i <= k => q[i][2] <= c
        BY <1>1 DEF Walked
    <2>2. k + 1 < i => v <= q[i][1]
        BY <1>1, <1>2 DEF InLine
    <2> QED
        BY <1>1, <2>1, <2>2
<1>8. PICK next : next = Step(w, q[k + 1])
    OBVIOUS
<1>9. next.cursor = v
    <2>1. next.cursor = Later(c, v)
        BY <1>1, <1>8 DEF Step
    <2> QED
        BY <1>4, <1>5, <1>6, <2>1 DEF Later
<1>10. next.best = IF u - c > Length(w.best) THEN <<c, u>> ELSE w.best
    BY <1>1, <1>8 DEF Step
<1>11. \A i \in 1..n : IF i <= k + 1 THEN q[i][2] <= next.cursor ELSE next.cursor <= q[i][1]
    <2> TAKE i \in 1..n
    <2>1. i <= k \/ i = k + 1 \/ k + 1 < i
        BY <1>2
    <2>2. q[i][1] \in Int /\ q[i][2] \in Int /\ i \in Nat
        BY <1>3
    <2>3. /\ i <= k => q[i][2] <= c
          /\ i = k + 1 => q[i][1] = u /\ q[i][2] = v
          /\ k + 1 < i => v <= q[i][1]
        BY <1>7
    <2>4. c <= v
        BY <1>4, <1>5, <1>6
    <2>5. i <= k + 1 => q[i][2] <= v
        BY <1>2, <1>4, <2>1, <2>2, <2>3, <2>4
    <2>6. ~(i <= k + 1) => v <= q[i][1]
        BY <1>2, <2>1, <2>2, <2>3
    <2> QED
        BY <1>9, <2>5, <2>6
<1>12. Length(w.best) \in Int /\ Length(<<c, u>>) = u - c /\ (w.best = <<>> => Length(w.best) = 0)
       /\ (w.best # <<>> => Length(w.best) = w.best[2] - w.best[1])
    <2>1. <<c, u>> \in Stretches(a, b) /\ <<c, u>>[1] = c /\ <<c, u>>[2] = u
        BY <1>4 DEF Stretches
    <2> QED
        BY <1>4, <2>1, LengthMeans
<1>13. Length(w.best) >= 0
    <2>1. w.best # <<>> => w.best[1] < w.best[2] /\ w.best[1] \in Int /\ w.best[2] \in Int
        BY <1>4 DEF Walked, Stretches
    <2> QED
        BY <1>12, <2>1
<1>14. Length(next.best) \in Int /\ Length(next.best) >= Length(w.best) /\ Length(next.best) >= u - c
    BY <1>4, <1>10, <1>12
<1>15. Open(q, n, c, u)
    <2> SUFFICES ASSUME NEW t \in c..u - 1, NEW i \in 1..n, q[i][1] <= t, t < q[i][2] PROVE FALSE
        BY DEF Open, Under
    <2>1. q[i][1] \in Int /\ q[i][2] \in Int /\ t \in Int
        BY <1>3, <1>4
    <2>2. i <= k \/ i = k + 1 \/ k + 1 < i
        BY <1>2
    <2>3. u <= v /\ u \in Int /\ v \in Int /\ c \in Int
        BY <1>4, <1>6
    <2>4. /\ i <= k => q[i][2] <= c
          /\ i = k + 1 => q[i][1] = u
          /\ k + 1 < i => v <= q[i][1]
        BY <1>7
    <2>5. c <= t /\ t < u
        BY <2>3
    <2> QED
        BY <2>1, <2>2, <2>3, <2>4, <2>5
<1>16. next.best # <<>> => next.best[1] < next.best[2] /\ Open(q, n, next.best[1], next.best[2])
    <2>1. CASE u - c > Length(w.best)
        <3>1. next.best[1] = c /\ next.best[2] = u
            BY <1>10, <2>1
        <3>2. c < u
            BY <1>4, <1>12, <1>13, <2>1
        <3> QED
            BY <1>15, <3>1, <3>2
    <2>2. CASE ~(u - c > Length(w.best))
        <3>1. next.best = w.best
            BY <1>10, <2>2
        <3> QED
            BY <3>1 DEF Walked
    <2> QED
        BY <2>1, <2>2
<1>17. ASSUME NEW x \in a..b, NEW y \in a..b, x < y, x < v, Open(q, n, x, y)
       PROVE  y - x <= Length(next.best)
    <2>1. x \in Int /\ y \in Int /\ y <= b
        OBVIOUS
    <2>2. CASE x < c
        <3>1. y - x <= Length(w.best)
            BY <1>1, <1>17, <2>2 DEF Walked
        <3> QED
            BY <1>12, <1>14, <2>1, <3>1
    <2>3. CASE ~(x < c)
        <3>1. y <= u
            <4>1. CASE u < v
                <5>1. \A t \in Int : u <= t /\ t < v => Under(q, n, t)
                    BY <1>1, <1>2 DEF Under
                <5>2. SUFFICES ASSUME u < y PROVE FALSE
                    BY <1>4, <2>1
                <5>3. PICK t \in Int : u <= t /\ t < v /\ x <= t /\ t < y
                    <6>1. CASE x <= u
                        BY <1>4, <2>1, <4>1, <5>2, <6>1
                    <6>2. CASE u < x
                        BY <1>4, <1>17, <2>1, <6>2
                    <6> QED
                        BY <1>4, <2>1, <6>1, <6>2
                <5>4. t \in x..y - 1
                    BY <2>1, <5>3
                <5> QED
                    BY <1>17, <5>1, <5>3, <5>4 DEF Open
            <4>2. CASE u = b /\ v = b
                BY <2>1, <4>2
            <4> QED
                BY <1>6, <4>1, <4>2
        <3>2. y - x <= u - c
            BY <1>4, <2>1, <2>3, <3>1
        <3> QED
            BY <1>4, <1>14, <2>1, <3>2
    <2> QED
        BY <2>2, <2>3
<1> QED
    BY <1>8, <1>9, <1>11, <1>16, <1>17 DEF Walked

\* What the planner gets out of a shift: nothing blocked, and nothing longer.
Blocks(outages, span, t) == \E x \in Blocked(outages, span) : x[1] <= t /\ t < x[2]

\* What is blocked of a shift is part of it.
LEMMA BlockedTyped ==
    ASSUME NEW outages, \A o \in outages : o.from \in Int /\ o.until \in Int,
           NEW a \in Nat, NEW b \in Nat
    PROVE  \A x \in Blocked(outages, <<a, b>>) : x \in Stretches(a, b) /\ x[1] < x[2]
<1> SUFFICES ASSUME NEW o \in outages, NEW x, x[1] < x[2],
                    x = <<Later(a, o.from \div PerMinute), Earlier(b, o.until \div PerMinute)>>
             PROVE  x \in Stretches(a, b)
    BY DEF Blocked
<1>1. PICK f, u \in Int : f = o.from \div PerMinute /\ u = o.until \div PerMinute
    BY HoursConstants
<1>2. x = <<x[1], x[2]>> /\ x[1] = Later(a, f) /\ x[2] = Earlier(b, u)
    BY <1>1
<1>3. x[1] \in a..b /\ x[2] \in a..b
    BY <1>2 DEF Later, Earlier
<1> QED
    BY <1>2, <1>3 DEF Stretches

\* By induction along the walk.
LEMMA LargestFreeMeans ==
    ASSUME NEW outages, \A o \in outages : o.from \in Int /\ o.until \in Int,
           NEW a \in Nat, NEW b \in Nat, a < b
    PROVE  LET free == LargestFree(outages, <<a, b>>)
           IN  /\ free \in {<<>>} \cup Stretches(a, b)
               /\ free # <<>> => /\ free[1] < free[2]
                                 /\ \A t \in free[1]..free[2] - 1 : ~Blocks(outages, <<a, b>>, t)
               /\ \A x, y \in a..b : x < y /\ (\A t \in x..y - 1 : ~Blocks(outages, <<a, b>>, t))
                                        => y - x <= Length(free)
<1>1. PICK B : B = Blocked(outages, <<a, b>>)
    OBVIOUS
<1>2. \A x \in B : x \in Stretches(a, b) /\ x[1] < x[2]
    BY <1>1, BlockedTyped
<1>3. B \in SUBSET ((0..b) \X (0..b))
    <2>1. \A x \in Stretches(a, b) : x \in (0..b) \X (0..b)
        BY DEF Stretches
    <2> QED
        BY <1>2, <2>1
<1>4. PICK s : s = Sorted(B)
    OBVIOUS
<1>5. PICK n \in Nat : /\ s \in [1..n -> B] /\ \A x \in B : \E i \in 1..n : s[i] = x
                       /\ \A i, k \in 1..n : i < k => s[i][1] <= s[k][1]
    <2>1. PICK n \in Nat : /\ Sorted(B) \in [1..n -> B] /\ \A x \in B : \E i \in 1..n : Sorted(B)[i] = x
                           /\ \A i, k \in 1..n : i < k => Sorted(B)[i][1] <= Sorted(B)[k][1]
        BY <1>3, SortedMeans
    <2> QED
        BY <1>4, <2>1
<1>6. s \in [1..n -> Stretches(a, b)] /\ \A i \in 1..n : s[i][1] < s[i][2]
    BY <1>2, <1>5
<1>7. PICK m : m = FoldLeft(MergeInto, <<>>, s)
    OBVIOUS
<1>8. m \in Seq(Stretches(a, b)) /\ Merged(m, s, n)
    BY <1>5, <1>6, <1>7, MergingMeans
<1>9. PICK c \in Nat : /\ c = Len(m)
                       /\ DOMAIN m = 1..c /\ \A i \in 1..c : m[i] \in Stretches(a, b)
    BY <1>8, LenProperties, ElementOfSeq
<1>10. PICK q : q = Append(m, <<b, b>>)
    OBVIOUS
<1>11. PICK l \in Nat : l = c + 1
    OBVIOUS
<1>12. /\ q \in [1..l -> Stretches(a, b)]
       /\ q[l] = <<b, b>> /\ \A i \in 1..c : q[i] = m[i]
    <2>1. <<b, b>> \in Stretches(a, b)
        BY DEF Stretches
    <2>2. /\ q \in Seq(Stretches(a, b)) /\ Len(q) = c + 1
          /\ q[c + 1] = <<b, b>> /\ \A i \in 1..c : q[i] = m[i]
        BY <1>8, <1>9, <1>10, <2>1, AppendProperties
    <2>3. q \in [1..l -> Stretches(a, b)]
        BY <1>11, <2>2, LenProperties
    <2> QED
        BY <1>11, <2>2, <2>3
<1>13. InLine(q, l, b)
    <2>1. \A i \in 1..c : q[i][1] < q[i][2]
        BY <1>8, <1>9, <1>12, <1>11 DEF Merged
    <2>2. \A i, j \in 1..l : i < j => q[i][2] <= q[j][1]
        <3> SUFFICES ASSUME NEW i \in 1..l, NEW j \in 1..l, i < j PROVE q[i][2] <= q[j][1]
            OBVIOUS
        <3>1. i \in 1..c /\ q[i] = m[i] /\ m[i][2] \in a..b
            BY <1>9, <1>12, <1>11 DEF Stretches
        <3>2. CASE j = l
            BY <1>12, <3>1, <3>2
        <3>3. CASE j # l
            <4>1. j \in 1..c /\ q[j] = m[j] /\ m[j][1] \in a..b
                BY <1>9, <1>12, <1>11, <3>3 DEF Stretches
            <4>2. m[i][2] < m[j][1]
                BY <1>8, <1>9, <3>1, <4>1 DEF Merged
            <4> QED
                BY <3>1, <4>1, <4>2
        <3> QED
            BY <3>2, <3>3
    <2> QED
        BY <1>12, <1>11, <2>1, <2>2 DEF InLine
<1>14. \A t \in Int : Under(q, l, t) <=> Blocks(outages, <<a, b>>, t)
    <2> TAKE t \in Int
    <2>1. Under(q, l, t) <=> Under(q, c, t) \/ (b <= t /\ t < b)
        <3>1. q[l][1] = b /\ q[l][2] = b
            BY <1>12
        <3> QED
            BY <1>11, <3>1, OneMoreUnder
    <2>2. Under(q, c, t) <=> Under(m, c, t)
        BY <1>12 DEF Under
    <2>3. Under(m, c, t) <=> Under(s, n, t)
        BY <1>8, <1>9 DEF Merged
    <2>4. Under(s, n, t) <=> Blocks(outages, <<a, b>>, t)
        BY <1>1, <1>5 DEF Under, Blocks
    <2> QED
        BY <2>1, <2>2, <2>3, <2>4
<1>15. PICK stage \in [0..l -> Walks(a, b)] :
               /\ stage[0] = WalkStart(a)
               /\ \A k \in 1..l : stage[k] = Step(stage[k - 1], q[k])
               /\ stage[l] = WalkEnd(a, q)
    <2>1. a <= b
        OBVIOUS
    <2>2. q \in [1..l -> Stretches(a, b)]
        BY <1>12
    <2>3. \E stage : WalkStages(stage, l, q, a, b)
        BY ONLY <2>1, <2>2, WalkingUnfolds, a \in Nat, b \in Nat, l \in Nat
    <2> QED
        BY <2>3 DEF WalkStages
<1> DEFINE S == {k \in 0..l : Walked(stage[k], q, l, k, a, b)}
<1>16. 0 \in S
    <2>1. 0 \in 0..l /\ stage[0].cursor = a /\ stage[0].best = <<>>
        BY <1>15 DEF WalkStart
    <2>4. \A i \in 1..l : ~(i <= 0) /\ a <= q[i][1]
        BY <1>12 DEF Stretches
    <2>2. \A x \in a..b : ~(x < a)
        OBVIOUS
    <2>3. Walked(stage[0], q, l, 0, a, b)
        BY <2>1, <2>2, <2>4 DEF Walked
    <2> QED
        BY <2>1, <2>3
<1>17. ASSUME NEW k \in 0..l - 1, k \in S PROVE k + 1 \in S
    <2>1. k + 1 \in 1..l /\ (k + 1) - 1 = k /\ k + 1 \in 0..l /\ k \in 0..l
        OBVIOUS
    <2>2. stage[k + 1] = Step(stage[k], q[k + 1]) /\ stage[k] \in Walks(a, b)
        BY <1>15, <2>1
    <2>3. Walked(Step(stage[k], q[k + 1]), q, l, k + 1, a, b)
        BY <1>12, <1>13, <1>17, <2>2, WalkingKeeps
    <2> QED
        BY <2>1, <2>2, <2>3
<1>18. Walked(stage[l], q, l, l, a, b) /\ stage[l] \in Walks(a, b)
    <2>1. \A k \in 0..l : k \in S
        <3> HIDE DEF S
        <3> QED
            BY <1>16, <1>17, IntervalInduction
    <2>2. l \in 0..l
        OBVIOUS
    <2> QED
        BY <1>15, <2>1, <2>2
<1>19. PICK free : free = LargestFree(outages, <<a, b>>)
    OBVIOUS
<1>20. free = stage[l].best
    <2>1. <<a, b>>[1] = a /\ <<a, b>>[2] = b
        OBVIOUS
    <2> QED
        BY <1>1, <1>4, <1>7, <1>10, <1>15, <1>19, <2>1 DEF LargestFree, WalkEnd
<1>21. free \in {<<>>} \cup Stretches(a, b) /\ b <= stage[l].cursor /\ stage[l].cursor \in a..b
    <2>1. l \in 1..l /\ l <= l /\ q[l][2] = b
        BY <1>12, <1>11
    <2> QED
        BY <1>18, <1>20, <2>1 DEF Walked, Walks
<1>22. \A x, y \in a..b : Open(q, l, x, y) <=> \A t \in x..y - 1 : ~Blocks(outages, <<a, b>>, t)
    BY <1>14 DEF Open
<1>23. free # <<>> => /\ free[1] < free[2]
                      /\ \A t \in free[1]..free[2] - 1 : ~Blocks(outages, <<a, b>>, t)
    <2> SUFFICES ASSUME free # <<>>
                 PROVE  /\ free[1] < free[2]
                        /\ \A t \in free[1]..free[2] - 1 : ~Blocks(outages, <<a, b>>, t)
        OBVIOUS
    <2>1. free[1] \in a..b /\ free[2] \in a..b
        BY <1>21 DEF Stretches
    <2>2. free[1] < free[2] /\ Open(q, l, free[1], free[2])
        BY <1>18, <1>20 DEF Walked
    <2> QED
        BY <1>22, <2>1, <2>2
<1>24. \A x, y \in a..b : x < y /\ (\A t \in x..y - 1 : ~Blocks(outages, <<a, b>>, t))
                             => y - x <= Length(free)
    <2> SUFFICES ASSUME NEW x \in a..b, NEW y \in a..b, x < y,
                        \A t \in x..y - 1 : ~Blocks(outages, <<a, b>>, t)
                 PROVE  y - x <= Length(free)
        OBVIOUS
    <2>1. Open(q, l, x, y)
        BY <1>22
    <2>2. x < stage[l].cursor
        BY <1>21
    <2> QED
        BY <1>18, <1>20, <2>1, <2>2 DEF Walked
<1> QED
    BY <1>19, <1>21, <1>23, <1>24

-----------------------------------------------------------------------------
(* The planner's hours and the outages.                                    *)

\* Minutes as moments.
LEMMA MinutesGrow ==
    ASSUME NEW i \in Nat, NEW k \in Nat
    PROVE  /\ i * PerMinute \in Nat
           /\ (i + 1) * PerMinute = i * PerMinute + PerMinute
           /\ i <= k => i * PerMinute <= k * PerMinute
           /\ i * PerMinute < k * PerMinute => i < k
<1>1. PICK p \in Nat : p = PerMinute /\ p > 0
    BY HoursConstants
<1>2. i * p \in Nat /\ k * p \in Nat
    BY <1>1
<1>3. (i + 1) * p = i * p + p
    BY <1>1
<1>4. \A m, n \in Nat : m <= n => m * p <= n * p
    BY <1>1
<1> QED
    BY <1>1, <1>2, <1>3, <1>4

\* Rounding down: the minute of a moment.
LEMMA MinuteOf ==
    ASSUME NEW n \in Int, NEW t \in Nat
    PROVE  /\ n \div PerMinute <= t <=> n < (t + 1) * PerMinute
           /\ t < n \div PerMinute <=> (t + 1) * PerMinute <= n
<1>1. PICK p \in Nat : p = PerMinute /\ p > 0
    BY HoursConstants
<1>2. PICK q \in Int : q = n \div p /\ q * p <= n /\ n < (q + 1) * p
    BY <1>1
<1>3. \A m, k \in Int : m <= k => m * p <= k * p
    BY <1>1
<1>4. q <= t => (q + 1) * p <= (t + 1) * p
    BY <1>3
<1>5. t < q => (t + 1) * p <= q * p
    BY <1>3
<1>6. q * p \in Int /\ (q + 1) * p \in Int /\ (t + 1) * p \in Int
    BY <1>1
<1> QED
    BY <1>1, <1>2, <1>4, <1>5, <1>6

\* A minute of the shift is blocked if the end of it is under an outage.
LEMMA BlocksMeans ==
    ASSUME NEW outages, \A o \in outages : o.from \in Int /\ o.until \in Int,
           NEW a \in Nat, NEW b \in Nat, NEW t \in a..b - 1
    PROVE  Blocks(outages, <<a, b>>, t)
           <=> \E o \in outages : o.from < (t + 1) * PerMinute /\ (t + 1) * PerMinute <= o.until
<1> DEFINE Piece(o) == <<Later(a, o.from \div PerMinute), Earlier(b, o.until \div PerMinute)>>
<1>1. ASSUME NEW o \in outages
      PROVE  Piece(o)[1] <= t /\ t < Piece(o)[2]
             <=> o.from < (t + 1) * PerMinute /\ (t + 1) * PerMinute <= o.until
    <2>1. PICK f, u \in Int : f = o.from \div PerMinute /\ u = o.until \div PerMinute
        BY HoursConstants
    <2>2. Piece(o)[1] = Later(a, f) /\ Piece(o)[2] = Earlier(b, u)
        BY <2>1
    <2>3. Later(a, f) <= t /\ t < Earlier(b, u) <=> f <= t /\ t < u
        BY DEF Later, Earlier
    <2>4. /\ f <= t <=> o.from < (t + 1) * PerMinute
          /\ t < u <=> (t + 1) * PerMinute <= o.until
        BY <2>1, MinuteOf
    <2> QED
        BY <2>2, <2>3, <2>4
<1>2. ASSUME NEW o \in outages, Piece(o)[1] <= t, t < Piece(o)[2] PROVE Piece(o)[1] < Piece(o)[2]
    <2>1. PICK f, u \in Int : f = o.from \div PerMinute /\ u = o.until \div PerMinute
        BY HoursConstants
    <2>2. PICK x, y : x = Later(a, f) /\ y = Earlier(b, u)
        OBVIOUS
    <2>3. x \in Int /\ y \in Int
        BY <2>2 DEF Later, Earlier
    <2>4. x <= t /\ t < y
        BY <1>2, <2>1, <2>2
    <2>5. x < y
        BY <2>3, <2>4
    <2> QED
        BY <2>1, <2>2, <2>5
<1>3. Blocked(outages, <<a, b>>) = {x \in {Piece(o) : o \in outages} : x[1] < x[2]}
    BY DEF Blocked
<1> HIDE DEF Piece
<1> QED
    BY <1>1, <1>2, <1>3 DEF Blocks

-----------------------------------------------------------------------------
(* The road.                                                               *)

LEMMA BandsTyped ==
    \A i \in DOMAIN Bands : /\ i \in Nat /\ Bands[i].leg \in Nat \ {0} /\ Bands[i].probe \in 0..Minutes - 1
                           /\ Bands[i].from \in Int /\ Bands[i].until \in Int
<1> SUFFICES ASSUME NEW i \in DOMAIN Bands
             PROVE  /\ i \in Nat /\ Bands[i].leg \in Nat \ {0} /\ Bands[i].probe \in 0..Minutes - 1
                    /\ Bands[i].from \in Int /\ Bands[i].until \in Int
    OBVIOUS
<1>1. PICK b : b = Bands
    OBVIOUS
<1> DEFINE R == [from : Int, until : Int, probe : 0..Minutes - 1, leg : Nat \ {0}]
<1>2. b \in Seq(R)
    BY <1>1, RoadsConstants
<1>3. i \in 1..Len(b) /\ Len(b) \in Nat /\ b[i] \in R
    <2> HIDE DEF R
    <2> QED
        BY <1>1, <1>2
<1> QED
    BY <1>1, <1>3

LEMMA BandMeans ==
    ASSUME NEW t \in Int
    PROVE  /\ BandAt(t) \in DOMAIN Bands /\ t % Minutes \in 0..Minutes - 1
           /\ Bands[BandAt(t)].from <= t % Minutes /\ t % Minutes < Bands[BandAt(t)].until
<1>1. PICK m \in 0..Minutes - 1 : m = t % Minutes
    BY HoursConstants
<1>2. \E i \in DOMAIN Bands : Bands[i].from <= m /\ m < Bands[i].until
    BY RoadsConstants
<1>3. BandAt(t) = CHOOSE i \in DOMAIN Bands : Bands[i].from <= m /\ m < Bands[i].until
    BY <1>1 DEF BandAt
<1> QED
    BY <1>1, <1>2, <1>3

\* The delays in force multiply.
Factors(delays) == [x \in delays |-> x.times]
Here(delays, o, p, m) == {x \in delays : InForce(x, o, p, m)}

Multiplied(delays, o, p, m) ==
    /\ IsFiniteSet(Here(delays, o, p, m)) /\ Scales(Factors(delays), Here(delays, o, p, m))
    /\ Multiplier(delays, o, p, m) = ProductOver(Factors(delays), Here(delays, o, p, m))

LEMMA MultiplierMeans ==
    ASSUME NEW delays, IsFiniteSet(delays), \A x \in delays : IsDelay(x), NEW o, NEW p, NEW moment
    PROVE  Multiplied(delays, o, p, moment)
<1> DEFINE f == [x \in delays |-> x.times]
           here == {x \in delays : InForce(x, o, p, moment)}
           Folds(iter) == iter = [s \in SUBSET here |->
               IF s = {} THEN 1
               ELSE (CHOOSE x \in s : TRUE).times * iter[s \ {CHOOSE x \in s : TRUE}]]
           fold == CHOOSE iter : Folds(iter)
<1>1. Multiplier(delays, o, p, moment) = fold[here]
    BY DEF Multiplier, FoldSet, MapThenFoldSet
<1>2. IsFiniteSet(here) /\ here \subseteq delays
    BY FS_Subset
<1>3. Scales(f, here)
    BY <1>2 DEF Scales, IsDelay
<1> HIDE DEF here
<1>4. ASSUME NEW s \in SUBSET here, s # {} PROVE First(s) = (CHOOSE x \in s : TRUE) /\ f[First(s)] = First(s).times
    <2>1. First(s) \in s
        BY <1>2, <1>4, FirstOut
    <2>2. First(s) \in delays
        BY <1>2, <2>1
    <2> QED
        BY <2>2 DEF First
<1> HIDE DEF f
<1>5. PICK iter : Products(iter, f, here)
    BY <1>2, <1>3, ProductsExist
<1>6. ASSUME NEW it, Products(it, f, here) PROVE Folds(it)
    BY <1>4, <1>6 DEF Products
<1>7. ASSUME NEW it, Folds(it) PROVE Products(it, f, here)
    BY ZenonT(60), <1>4, <1>7 DEF Products
<1>8. Folds(fold)
    <2> HIDE DEF Folds
    <2> QED
        BY <1>5, <1>6
<1> HIDE DEF Folds, fold
<1>9. fold[here] = ProductOver(f, here)
    BY <1>2, <1>3, <1>7, <1>8, ProductIs
<1> QED
    BY <1>1, <1>2, <1>3, <1>9 DEF f, here, Multiplied, Factors, Here

LEMMA LegTyped ==
    ASSUME NEW delays, IsFiniteSet(delays), \A x \in delays : IsDelay(x), NEW o, NEW p, NEW d \in Int, NEW t \in Int
    PROVE  /\ Leg(delays, o, p, d, t) \in Nat
           /\ o # p => Leg(delays, o, p, d, t) \in Nat \ {0}
<1>1. PICK m : m = (d - 1) * Minutes + t
    OBVIOUS
<1>2. PICK x : x = Multiplier(delays, o, p, m)
    OBVIOUS
<1>3. x \in Nat \ {0}
    <2>1. Multiplied(delays, o, p, m)
        BY MultiplierMeans
    <2> QED
        BY <1>2, <2>1, ProductTyped DEF Multiplied
<1>4. PICK b \in Nat \ {0} : b = Bands[BandAt(t)].leg
    BY BandMeans, BandsTyped
<1>5. b * x \in Nat \ {0}
    BY <1>3, <1>4, TimesGrow
<1>6. Leg(delays, o, p, d, t) = IF o = p THEN 0 ELSE b * x
    BY <1>1, <1>2, <1>4 DEF Leg
<1> QED
    BY <1>5, <1>6

\* Where traffic only eases and no delay begins, whoever leaves later drives no longer.
LEMMA LegEases ==
    ASSUME NEW delays, IsFiniteSet(delays), \A x \in delays : IsDelay(x), NEW o, NEW p, NEW d \in Int,
           \A i, k \in DOMAIN Bands : i <= k => Bands[k].leg <= Bands[i].leg,
           NEW s \in 0..Minutes - 1, NEW t \in 0..Minutes - 1, s <= t \/ BandAt(s) = BandAt(t),
           \A x \in delays : InForce(x, o, p, (d - 1) * Minutes + t) => InForce(x, o, p, (d - 1) * Minutes + s)
    PROVE  Leg(delays, o, p, d, t) <= Leg(delays, o, p, d, s)
<1>1. s \in Int /\ t \in Int /\ s % Minutes = s /\ t % Minutes = t
    BY HoursConstants
<1>2. PICK i \in DOMAIN Bands : i = BandAt(s) /\ Bands[i].from <= s /\ s < Bands[i].until
    BY <1>1, BandMeans
<1>3. PICK k \in DOMAIN Bands : k = BandAt(t) /\ Bands[k].from <= t /\ t < Bands[k].until
    BY <1>1, BandMeans
<1>4. i <= k
    <2>1. CASE s <= t
        <3> SUFFICES ASSUME k < i PROVE FALSE
            BY BandsTyped
        <3>1. Bands[k].until <= Bands[i].from
            BY RoadsConstants
        <3>2. Bands[k].until \in Int /\ Bands[i].from \in Int
            BY BandsTyped
        <3> QED
            BY <1>2, <1>3, <2>1, <3>1, <3>2
    <2>2. CASE BandAt(s) = BandAt(t)
        BY <1>2, <1>3, <2>2, BandsTyped
    <2> QED
        BY <2>1, <2>2
<1>5. PICK a, b \in Nat \ {0} : a = Bands[k].leg /\ b = Bands[i].leg /\ a <= b
    BY <1>4, BandsTyped
<1>0. PICK m, n : m = (d - 1) * Minutes + s /\ n = (d - 1) * Minutes + t
    OBVIOUS
<1>6. Multiplied(delays, o, p, m) /\ Multiplied(delays, o, p, n)
    BY MultiplierMeans
<1>8. Here(delays, o, p, n) \in SUBSET Here(delays, o, p, m)
    BY <1>0 DEF Here
<1>9. PICK x, y \in Nat \ {0} : x = Multiplier(delays, o, p, n) /\ y = Multiplier(delays, o, p, m) /\ x <= y
    BY <1>6, <1>8, ProductTyped, ProductMonotone DEF Multiplied
<1>10. a * x <= b * y
    <2>1. a * x <= a * y /\ a * y = y * a /\ b * y = y * b
        BY <1>5, <1>9, TimesGrow
    <2>2. y * a <= y * b
        BY <1>5, <1>9, TimesGrow
    <2>3. a * x \in Nat /\ y * a \in Nat /\ y * b \in Nat
        BY <1>5, <1>9, TimesGrow
    <2> QED
        BY <2>1, <2>2, <2>3
<1>11. /\ Leg(delays, o, p, d, t) = IF o = p THEN 0 ELSE a * x
       /\ Leg(delays, o, p, d, s) = IF o = p THEN 0 ELSE b * y
    BY <1>0, <1>2, <1>3, <1>5, <1>9 DEF Leg
<1> QED
    BY <1>10, <1>11

-----------------------------------------------------------------------------
(* Routes.                                                                 *)

\* A route, as far as the jobs it stops for go.
IsRoute(r) ==
    /\ r = [day |-> r.day, van |-> r.van, crew |-> r.crew, stops |-> r.stops, home |-> r.home]
    /\ \E n \in Nat : r.stops = [i \in 1..n |-> r.stops[i]]

\* No job is stopped for twice.
Once(routes) ==
    \A r, q \in routes : \A i \in DOMAIN r.stops, k \in DOMAIN q.stops :
        r.stops[i].job = q.stops[k].job => r = q /\ i = k

RoutesOK(routes) == (\A r \in routes : IsRoute(r)) /\ Once(routes)

-----------------------------------------------------------------------------
(* A day.                                                                  *)

\* What the replay makes of stop i of a run whose crew is free at ready.
StopAfter(w, d, r, i, ready) ==
    LET job == w.jobs[r.stops[i]]
        hop == DepartAndArrive(w, d, Place(w, r.stops, i - 1), job, ready)
    IN [job |-> r.stops[i], arrive |-> hop.arrive, leave |-> hop.arrive + job.dur, travel |-> hop.leg]

ReadyFor(r, route, i) == IF i = 1 THEN r.depart ELSE route.stops[i - 1].leave

Replays(w, d, r, route, n) ==
    /\ IsRoute(route) /\ route.day = d /\ route.van = r.van /\ route.crew = r.crew
    /\ DOMAIN route.stops = 1..n
    /\ \A i \in 1..n : route.stops[i] = StopAfter(w, d, r, i, ReadyFor(r, route, i))
    /\ route.home = Leg(w.delays, w.jobs[Last(r.stops)].at, Depot, d, Last(route.stops).leave)

\* The replay goes from stop to stop of the run, in its order.
LEMMA MaterializedMeans ==
    ASSUME NEW w, NEW d, NEW r, NEW n \in Nat, DOMAIN r.stops = 1..n
    PROVE  Replays(w, d, r, MaterializeRoute(w, d, r), n)
<1> DEFINE Hop(i, before) ==
              DepartAndArrive(w, d, Place(w, r.stops, i - 1), w.jobs[r.stops[i]],
                              IF i = 1 THEN r.depart ELSE before.leave)
           Stop(i, before) ==
              [job |-> r.stops[i], arrive |-> Hop(i, before).arrive,
               leave |-> Hop(i, before).arrive + w.jobs[r.stops[i]].dur, travel |-> Hop(i, before).leg]
           Good(k, stop) == stop = [i \in 1..k |-> Stop(i, stop[i - 1])]
           S == {k \in 0..n : \E stop : Good(k, stop)}
<1>1. 0 \in S
    <2>1. Good(0, [i \in 1..0 |-> i])
        OBVIOUS
    <2>2. 0 \in 0..n
        OBVIOUS
    <2> HIDE DEF Good
    <2> QED
        BY <2>1, <2>2
<1>2. ASSUME NEW k \in 0..n - 1, k \in S PROVE k + 1 \in S
    <2>1. PICK stop : Good(k, stop)
        BY <1>2
    <2> DEFINE next == [i \in 1..k + 1 |-> IF i = k + 1 THEN Stop(k + 1, stop[k]) ELSE stop[i]]
    <2> HIDE DEF Stop
    <2>2. ASSUME NEW i \in 1..k + 1 PROVE next[i] = Stop(i, next[i - 1])
        <3>1. CASE i = 1 /\ k = 0
            <4>1. \A a, b : Stop(1, a) = Stop(1, b)
                BY DEF Stop
            <4> HIDE DEF next
            <4>2. next[1] = Stop(1, stop[0])
                BY <3>1 DEF next
            <4> QED
                BY <3>1, <4>1, <4>2
        <3>2. CASE i = 1 /\ k # 0
            <4>1. \A a, b : Stop(1, a) = Stop(1, b)
                BY DEF Stop
            <4>2. next[1] = stop[1] /\ stop[1] = Stop(1, stop[0])
                BY <2>1, <3>2
            <4> QED
                BY <3>2, <4>1, <4>2
        <3>3. CASE i \in 2..k
            <4>1. next[i - 1] = stop[i - 1] /\ next[i] = stop[i] /\ stop[i] = Stop(i, stop[i - 1])
                BY <2>1, <3>3
            <4> QED
                BY <4>1
        <3>4. CASE i = k + 1 /\ k # 0
            <4>1. next[i - 1] = stop[k] /\ next[i] = Stop(k + 1, stop[k])
                BY <3>4
            <4> QED
                BY <3>4, <4>1
        <3> QED
            BY <3>1, <3>2, <3>3, <3>4
    <2>3. Good(k + 1, next)
        BY <2>2
    <2>4. k + 1 \in 0..n
        OBVIOUS
    <2> HIDE DEF next, Good
    <2> QED
        BY <2>3, <2>4
<1>3. n \in S
    <2> HIDE DEF S
    <2>1. \A k \in 0..n : k \in S
        BY <1>1, <1>2, IntervalInduction
    <2> QED
        BY <2>1
<1>4. \E stop : Good(n, stop)
    BY <1>3
<1> DEFINE stops == CHOOSE stop : Good(n, stop)
<1>5. Good(n, stops)
    <2> HIDE DEF Good
    <2> QED
        BY <1>4
<1>6. MaterializeRoute(w, d, r).stops = stops
    BY DEF MaterializeRoute
<1>14. MaterializeRoute(w, d, r).home
       = Leg(w.delays, w.jobs[Last(r.stops)].at, Depot, d, Last(stops).leave)
    BY DEF MaterializeRoute
<1> HIDE DEF stops
<1>7. /\ stops = [i \in 1..n |-> stops[i]] /\ DOMAIN stops = 1..n
      /\ \A i \in 1..n : stops[i] = Stop(i, stops[i - 1])
    BY ZenonT(60), <1>5
<1>8. PICK route : route = MaterializeRoute(w, d, r)
    OBVIOUS
<1>9. /\ route = [day |-> route.day, van |-> route.van, crew |-> route.crew, stops |-> route.stops,
                  home |-> route.home]
      /\ route.day = d /\ route.van = r.van /\ route.crew = r.crew
    BY <1>8 DEF MaterializeRoute
<1>10. /\ route.stops = stops
       /\ route.home = Leg(w.delays, w.jobs[Last(r.stops)].at, Depot, d, Last(stops).leave)
    BY <1>6, <1>8, <1>14
<1>11. \A i \in 1..n : Stop(i, stops[i - 1]) = StopAfter(w, d, r, i, ReadyFor(r, route, i))
    BY <1>10 DEF StopAfter, ReadyFor
<1>12. \A i \in 1..n : route.stops[i] = StopAfter(w, d, r, i, ReadyFor(r, route, i))
    <2> HIDE DEF Stop
    <2> QED
        BY <1>7, <1>10, <1>11
<1>13. IsRoute(route)
    BY SMTT(30), <1>7, <1>9, <1>10 DEF IsRoute
<1> HIDE DEF Stop, Good
<1> QED
    BY <1>7, <1>8, <1>9, <1>10, <1>12, <1>13 DEF Replays

\* So it stops for the jobs of the run.
LEMMA ReplaysJobs ==
    ASSUME NEW w, NEW d, NEW r, NEW route, NEW n \in Nat, Replays(w, d, r, route, n)
    PROVE  \A i \in 1..n : /\ route.stops[i].job = r.stops[i]
                           /\ route.stops[i].leave = route.stops[i].arrive + w.jobs[r.stops[i]].dur
<1> SUFFICES ASSUME NEW i \in 1..n
             PROVE  /\ route.stops[i].job = r.stops[i]
                    /\ route.stops[i].leave = route.stops[i].arrive + w.jobs[r.stops[i]].dur
    OBVIOUS
<1>1. PICK stop : stop = route.stops[i]
    OBVIOUS
<1>2. stop = StopAfter(w, d, r, i, ReadyFor(r, route, i))
    BY <1>1 DEF Replays
<1>3. stop.job = r.stops[i] /\ stop.leave = stop.arrive + w.jobs[r.stops[i]].dur
    BY <1>2 DEF StopAfter
<1> QED
    BY <1>1, <1>3

\* A window of a job that work arriving at a minute would still fit in.
Fits(job, d, arrival) ==
    {win \in ToSet(job.windows) :
        ~win.hard \/ Later(arrival, Clock(d, win.from)) + job.dur <= Clock(d, win.until)}

LEMMA WindowTyped ==
    ASSUME NEW job, IsJob(job), NEW d \in Int, NEW win \in ToSet(job.windows)
    PROVE  /\ win.from \in Int /\ win.until \in Int /\ win.hard \in BOOLEAN /\ win.from < win.until
           /\ Clock(d, win.from) \in Int /\ Clock(d, win.until) \in Int
<1> DEFINE R == [from : Int, until : Int, hard : BOOLEAN]
<1>1. PICK s : s = job.windows
    OBVIOUS
<1>2. s \in Seq(R)
    BY <1>1 DEF IsJob
<1>3. PICK i \in DOMAIN s : win = s[i]
    BY <1>1 DEF ToSet
<1>4. win \in R
    <2> HIDE DEF R
    <2> QED
        BY <1>2, <1>3
<1>5. win.from \in Int /\ win.until \in Int /\ win.hard \in BOOLEAN
    BY <1>4
<1>6. Minutes \in Int
    BY HoursConstants
<1>7. Clock(d, win.from) \in Int /\ Clock(d, win.until) \in Int
    BY <1>5, <1>6 DEF Clock
<1> QED
    BY <1>5, <1>7 DEF IsJob

LEMMA LaterMeans ==
    \A a, b \in Int : /\ Later(a, b) \in Int /\ a <= Later(a, b) /\ b <= Later(a, b)
                      /\ Later(a, b) = a \/ Later(a, b) = b
BY DEF Later

LEMMA OnDayTyped ==
    ASSUME NEW outages \in SUBSET [from : Int, until : Int], NEW d \in Int
    PROVE  \A o \in OnDay(outages, d) : o.from \in Int /\ o.until \in Int
<1> SUFFICES ASSUME NEW o \in OnDay(outages, d) PROVE o.from \in Int /\ o.until \in Int
    OBVIOUS
<1>1. PICK x \in outages : o = [from |-> Clock(d, x.from), until |-> Clock(d, x.until)]
    BY DEF OnDay
<1>2. x.from \in Int /\ x.until \in Int
    OBVIOUS
<1>3. Clock(d, x.from) \in Int /\ Clock(d, x.until) \in Int
    BY <1>2, HoursConstants DEF Clock
<1> QED
    BY <1>1, <1>3

\* The work begins in the window that opens first among those it fits.
LEMMA StartMeans ==
    ASSUME NEW job, IsJob(job), NEW d \in Int, NEW arrival \in Int
    PROVE  /\ EarliestStart(job, d, arrival) \in Int /\ arrival <= EarliestStart(job, d, arrival)
           /\ Fits(job, d, arrival) = {} => EarliestStart(job, d, arrival) = arrival
           /\ Fits(job, d, arrival) # {} => \E win \in Fits(job, d, arrival) :
                 EarliestStart(job, d, arrival) = Later(arrival, Clock(d, win.from))
           /\ \A win \in Fits(job, d, arrival) :
                 EarliestStart(job, d, arrival) <= Later(arrival, Clock(d, win.from))
<1> DEFINE fits == Fits(job, d, arrival)
           T == {Later(arrival, Clock(d, win.from)) : win \in fits}
<1>1. EarliestStart(job, d, arrival) = IF fits = {} THEN arrival ELSE Min(T)
    BY DEF EarliestStart, Fits
<1>2. ASSUME NEW win \in fits
      PROVE  Later(arrival, Clock(d, win.from)) \in Int /\ arrival <= Later(arrival, Clock(d, win.from))
    <2>1. Clock(d, win.from) \in Int
        BY WindowTyped DEF Fits
    <2> QED
        BY <2>1, LaterMeans
<1> HIDE DEF fits
<1>3. T \in SUBSET Int /\ \A y \in T : arrival <= y
    BY <1>2
<1>4. ASSUME fits # {} PROVE Min(T) \in T /\ Min(T) \in Int /\ \A y \in T : Min(T) <= y
    <2>1. T # {}
        BY <1>4
    <2> HIDE DEF T
    <2> QED
        BY <1>3, <2>1, MinMeans
<1>5. PICK start : start = EarliestStart(job, d, arrival)
    OBVIOUS
<1>6. CASE fits = {}
    BY <1>1, <1>6 DEF fits
<1>7. CASE fits # {}
    <2>1. start \in T /\ start \in Int /\ \A y \in T : start <= y
        BY <1>1, <1>4, <1>5, <1>7
    <2>2. arrival <= start
        BY <1>3, <2>1
    <2>3. \E win \in fits : start = Later(arrival, Clock(d, win.from))
        BY <2>1
    <2>4. \A win \in fits : start <= Later(arrival, Clock(d, win.from))
        BY <2>1
    <2> QED
        BY <1>5, <1>7, <2>1, <2>2, <2>3, <2>4 DEF fits
<1> QED
    BY <1>6, <1>7

Drive(w, d, o, job, t) == Leg(w.delays, o, job.at, d, t)
Target(w, d, o, job, ready) == EarliestStart(job, d, ready + Drive(w, d, o, job, ready))

\* Three rounds of guessing when to leave, and the round that settles it.
Guesses(w, d, o, job, ready, g, k) ==
    /\ g[0] = Target(w, d, o, job, ready) - Drive(w, d, o, job, ready)
    /\ g[1] = Target(w, d, o, job, ready) - Drive(w, d, o, job, g[0])
    /\ g[2] = Target(w, d, o, job, ready) - Drive(w, d, o, job, g[1])
    /\ g[3] = Target(w, d, o, job, ready) - Drive(w, d, o, job, g[2])
    /\ k \in 0..3 /\ (k # 3 => g[k] <= ready \/ g[k + 1] = g[k])

Hops(w, d, o, job, ready, hop, leave) ==
    /\ hop.leg = Drive(w, d, o, job, leave)
    /\ hop.arrive = Later(Target(w, d, o, job, ready), leave + Drive(w, d, o, job, leave))

LEMMA HopMeans ==
    ASSUME NEW w, NEW d, NEW o, NEW job, NEW ready
    PROVE  \E g, k : /\ Guesses(w, d, o, job, ready, g, k)
                     /\ Hops(w, d, o, job, ready, DepartAndArrive(w, d, o, job, ready), Later(g[k], ready))
<1> DEFINE target == Target(w, d, o, job, ready)
           drive(t) == Drive(w, d, o, job, t)
           Guess(g) == g = [n \in 0..3 |-> target - drive(IF n = 0 THEN ready ELSE g[n - 1])]
           guess == CHOOSE g : Guess(g)
           g0 == target - drive(ready)
           g1 == target - drive(g0)
           g2 == target - drive(g1)
           g3 == target - drive(g2)
           settled(g) == {n \in 0..2 : g[n] <= ready \/ g[n + 1] = g[n]}
           leave(g) == Later(g[Min(settled(g) \cup {3})], ready)
<1>1. \E g : Guess(g)
    <2> DEFINE g == [n \in 0..3 |-> IF n = 0 THEN g0 ELSE IF n = 1 THEN g1 ELSE IF n = 2 THEN g2 ELSE g3]
    <2> HIDE DEF target, drive
    <2>1. ASSUME NEW n \in 0..3
          PROVE  g[n] = target - drive(IF n = 0 THEN ready ELSE g[n - 1])
        <3>1. n = 0 \/ n = 1 \/ n = 2 \/ n = 3
            OBVIOUS
        <3>2. g[0] = g0 /\ g[1] = g1 /\ g[2] = g2 /\ g[3] = g3
            OBVIOUS
        <3> QED
            BY <3>1, <3>2
    <2>2. Guess(g)
        BY <2>1
    <2> HIDE DEF Guess, g
    <2> QED
        BY <2>2
<1>2. Guess(guess)
    <2> HIDE DEF Guess
    <2> QED
        BY <1>1
<1>3. DepartAndArrive(w, d, o, job, ready)
      = [leg |-> drive(leave(guess)), arrive |-> Later(target, leave(guess) + drive(leave(guess)))]
    BY DEF DepartAndArrive, Target, Drive
<1> HIDE DEF guess
<1>4. PICK k : k = Min(settled(guess) \cup {3})
    OBVIOUS
<1>5. k \in settled(guess) \cup {3}
    <2>1. settled(guess) \cup {3} \in SUBSET Int /\ \A y \in settled(guess) \cup {3} : 0 <= y
        OBVIOUS
    <2>2. settled(guess) \cup {3} # {}
        OBVIOUS
    <2> HIDE DEF settled
    <2> QED
        BY <1>4, <2>1, <2>2, MinMeans
<1>6. Guesses(w, d, o, job, ready, guess, k)
    <2>1. /\ guess[0] = target - drive(ready) /\ guess[1] = target - drive(guess[0])
          /\ guess[2] = target - drive(guess[1]) /\ guess[3] = target - drive(guess[2])
        <3> HIDE DEF target, drive
        <3> QED
            BY <1>2
    <2>2. k \in 0..3 /\ (k # 3 => guess[k] <= ready \/ guess[k + 1] = guess[k])
        BY <1>5
    <2> QED
        BY <2>1, <2>2 DEF Guesses
<1>7. Hops(w, d, o, job, ready, DepartAndArrive(w, d, o, job, ready), Later(guess[k], ready))
    BY <1>3, <1>4 DEF Hops
<1> QED
    BY <1>6, <1>7

RoadOK(w) == IsFiniteSet(w.delays) /\ \A x \in w.delays : IsDelay(x)

LEMMA DriveTyped ==
    ASSUME NEW w, RoadOK(w), NEW d \in Int, NEW o, NEW job, NEW t \in Int
    PROVE  Drive(w, d, o, job, t) \in Nat
BY LegTyped DEF Drive, RoadOK

LEMMA TargetTyped ==
    ASSUME NEW w, RoadOK(w), NEW d \in Int, NEW o, NEW job, IsJob(job), NEW ready \in Int
    PROVE  /\ Target(w, d, o, job, ready) \in Int
           /\ ready + Drive(w, d, o, job, ready) <= Target(w, d, o, job, ready)
<1>1. PICK a \in Int : a = ready + Drive(w, d, o, job, ready)
    BY DriveTyped
<1> QED
    BY <1>1, StartMeans DEF Target

LEMMA GuessesTyped ==
    ASSUME NEW w, RoadOK(w), NEW d \in Int, NEW o, NEW job, IsJob(job), NEW ready \in Int,
           NEW g, NEW k, Guesses(w, d, o, job, ready, g, k)
    PROVE  g[0] \in Int /\ g[1] \in Int /\ g[2] \in Int /\ g[3] \in Int /\ k \in 0..3 /\ g[k] \in Int
<1>1. PICK a \in Int : a = Target(w, d, o, job, ready)
    BY TargetTyped
<1>2. g[0] \in Int
    BY <1>1, DriveTyped DEF Guesses
<1>3. g[1] \in Int
    BY <1>1, <1>2, DriveTyped DEF Guesses
<1>4. g[2] \in Int
    BY <1>1, <1>3, DriveTyped DEF Guesses
<1>5. g[3] \in Int
    BY <1>1, <1>4, DriveTyped DEF Guesses
<1>6. k \in 0..3
    BY DEF Guesses
<1>7. k = 0 \/ k = 1 \/ k = 2 \/ k = 3
    BY <1>6
<1> QED
    BY <1>2, <1>3, <1>4, <1>5, <1>6, <1>7

\* A crew does not set out before it is free.
LEMMA HopTyped ==
    ASSUME NEW w, RoadOK(w), NEW d \in Int, NEW o, NEW job, IsJob(job), NEW ready \in Int,
           NEW hop, hop = DepartAndArrive(w, d, o, job, ready)
    PROVE  hop.leg \in Nat /\ hop.arrive \in Int /\ ready <= hop.arrive - hop.leg
<1>1. PICK g, k : /\ Guesses(w, d, o, job, ready, g, k)
                  /\ Hops(w, d, o, job, ready, hop, Later(g[k], ready))
    BY HopMeans
<1>2. PICK leave \in Int : leave = Later(g[k], ready) /\ ready <= leave
    BY <1>1, GuessesTyped, LaterMeans
<1>3. PICK leg \in Nat : leg = Drive(w, d, o, job, leave)
    BY DriveTyped
<1>4. PICK a \in Int : a = Target(w, d, o, job, ready)
    BY TargetTyped
<1>5. hop.leg = leg /\ hop.arrive = Later(a, leave + leg)
    BY <1>1, <1>2, <1>3, <1>4 DEF Hops
<1>6. PICK b \in Int : b = leave + leg
    BY <1>2, <1>3
<1>7. Later(a, b) \in Int /\ b <= Later(a, b)
    BY <1>4, <1>6, LaterMeans
<1> QED
    BY <1>2, <1>3, <1>5, <1>6, <1>7

Eases(w, d, o, job) ==
    \A s, t \in 0..Minutes - 1 : s <= t => Drive(w, d, o, job, t) <= Drive(w, d, o, job, s)

\* Where traffic eases, guessing finds a departure that is in time, and so no
\* crew is later than it must be.
LEMMA HopInTime ==
    ASSUME NEW w, RoadOK(w), NEW d \in Int, NEW o, NEW job, IsJob(job), NEW ready \in 0..Minutes - 1,
           Eases(w, d, o, job), Target(w, d, o, job, ready) <= Minutes - 1,
           NEW hop, hop = DepartAndArrive(w, d, o, job, ready)
    PROVE  /\ hop.arrive = Target(w, d, o, job, ready) /\ hop.leg \in Nat
           /\ hop.arrive - hop.leg \in ready..Minutes - 1
           /\ Drive(w, d, o, job, hop.arrive - hop.leg) <= hop.leg
<1>1. PICK a \in Int : a = Target(w, d, o, job, ready) /\ a <= Minutes - 1
    BY TargetTyped
<1>2. PICK g, k : /\ Guesses(w, d, o, job, ready, g, k)
                  /\ Hops(w, d, o, job, ready, hop, Later(g[k], ready))
    BY HopMeans
<1>3. g[0] \in Int /\ g[1] \in Int /\ g[2] \in Int /\ g[3] \in Int /\ k \in 0..3 /\ g[k] \in Int
    BY <1>2, GuessesTyped
<1>4. Minutes \in Nat
    BY HoursConstants
<1>5. \A t \in Int : Drive(w, d, o, job, t) \in Nat
    BY DriveTyped
<1>6. ready + Drive(w, d, o, job, ready) <= a
    BY <1>1, TargetTyped
<1>7. ready <= g[0] /\ g[0] <= a /\ g[0] = a - Drive(w, d, o, job, ready)
    BY <1>1, <1>2, <1>3, <1>5, <1>6 DEF Guesses
<1>8. ASSUME NEW s \in Int, NEW t \in Int, ready <= s, s <= t, t <= a
      PROVE  Drive(w, d, o, job, t) <= Drive(w, d, o, job, s)
    BY <1>1, <1>4, <1>8 DEF Eases
<1>9. /\ g[1] = a - Drive(w, d, o, job, g[0]) /\ g[2] = a - Drive(w, d, o, job, g[1])
      /\ g[3] = a - Drive(w, d, o, job, g[2])
    BY <1>1, <1>2 DEF Guesses
<1>10. g[0] <= g[1] /\ g[1] <= a
    BY <1>3, <1>5, <1>7, <1>8, <1>9
<1>11. g[1] <= g[2] /\ g[2] <= a
    BY <1>3, <1>5, <1>7, <1>8, <1>9, <1>10
<1>12. g[2] <= g[3] /\ g[3] <= a
    BY <1>3, <1>5, <1>7, <1>8, <1>9, <1>10, <1>11
<1>13. PICK leave \in Int : leave = Later(g[k], ready) /\ ready <= leave
    <2>1. PICK gk \in Int : gk = g[k]
        BY <1>3
    <2>2. ready \in Int
        OBVIOUS
    <2>3. Later(gk, ready) \in Int /\ ready <= Later(gk, ready)
        BY <2>1, <2>2, LaterMeans
    <2> QED
        BY <2>1, <2>3
<1>14. leave + Drive(w, d, o, job, leave) <= a
    <2>1. CASE k # 3 /\ g[k] <= ready
        <3>1. leave = ready
            BY <1>3, <1>13, <2>1 DEF Later
        <3> QED
            BY <1>6, <3>1
    <2>2. CASE k # 3 /\ g[k + 1] = g[k]
        <3>1. ready <= g[k] /\ g[k + 1] = a - Drive(w, d, o, job, g[k])
            <4>1. k = 0 \/ k = 1 \/ k = 2
                BY <1>3, <2>2
            <4> QED
                BY <1>3, <1>7, <1>9, <1>10, <1>11, <4>1
        <3>2. leave = g[k]
            BY <1>3, <1>13, <3>1 DEF Later
        <3>3. leave = a - Drive(w, d, o, job, leave) /\ Drive(w, d, o, job, leave) \in Nat
            BY <1>5, <1>13, <2>2, <3>1, <3>2
        <3> QED
            BY <1>1, <1>13, <3>3
    <2>3. CASE k = 3
        <3>1. ready <= g[3] /\ leave = g[3]
            BY <1>3, <1>7, <1>10, <1>11, <1>12, <1>13, <2>3 DEF Later
        <3>2. Drive(w, d, o, job, g[3]) <= Drive(w, d, o, job, g[2]) /\ ready <= g[2]
            BY <1>3, <1>7, <1>8, <1>10, <1>11, <1>12
        <3> QED
            BY <1>3, <1>5, <1>9, <3>1, <3>2
    <2>4. k = 3 \/ g[k] <= ready \/ g[k + 1] = g[k]
        BY <1>2 DEF Guesses
    <2> QED
        BY <2>1, <2>2, <2>3, <2>4
<1>15. PICK leg \in Nat : leg = Drive(w, d, o, job, leave)
    BY <1>5
<1>16. hop.leg = leg /\ hop.arrive = Later(a, leave + leg)
    BY <1>1, <1>2, <1>13, <1>15 DEF Hops
<1>17. hop.arrive = a
    BY <1>14, <1>15, <1>16 DEF Later
<1>18. leave <= a - leg /\ a - leg <= a
    BY <1>14, <1>15
<1>19. Drive(w, d, o, job, a - leg) <= leg
    BY <1>8, <1>13, <1>15, <1>18
<1>20. a - leg \in ready..Minutes - 1
    BY <1>1, <1>4, <1>13, <1>15, <1>18
<1> QED
    BY <1>1, <1>15, <1>16, <1>17, <1>19, <1>20

\* A route in clock times: every stop takes time, and after the one before.
RouteTyped(r) ==
    /\ IsRoute(r) /\ r.day \in Int /\ r.home \in Nat
    /\ \A i \in DOMAIN r.stops : /\ r.stops[i].arrive \in Int /\ r.stops[i].leave \in Int
                                 /\ r.stops[i].travel \in Nat /\ r.stops[i].arrive < r.stops[i].leave
    /\ \A i, k \in DOMAIN r.stops : i < k => r.stops[i].leave <= r.stops[k].arrive - r.stops[k].travel

LEMMA SpanMeans ==
    ASSUME NEW r, RouteTyped(r), r.stops # <<>>
    PROVE  \E n \in Nat \ {0} :
              /\ DOMAIN r.stops = 1..n /\ Len(r.stops) = n /\ Last(r.stops) = r.stops[n]
              /\ Span(r) = <<r.stops[1].arrive - r.stops[1].travel, r.stops[n].leave + r.home>>
              /\ Span(r)[1] \in Int /\ Span(r)[2] \in Int /\ Span(r)[1] < Span(r)[2]
              /\ Span(r)[1] = r.stops[1].arrive - r.stops[1].travel
              /\ Span(r)[2] = r.stops[n].leave + r.home
<1>1. PICK n \in Nat : r.stops = [i \in 1..n |-> r.stops[i]]
    BY DEF RouteTyped, IsRoute
<1>2. n # 0
    <2>1. n = 0 => 1..n = {}
        OBVIOUS
    <2>2. n = 0 => r.stops = <<>>
        BY <1>1, <2>1
    <2> QED
        BY <2>2
<1>3. DOMAIN r.stops = 1..n /\ Len(r.stops) = n
    BY <1>1
<1>4. Last(r.stops) = r.stops[n]
    BY <1>3 DEF Last
<1>5. Span(r) = <<r.stops[1].arrive - r.stops[1].travel, r.stops[n].leave + r.home>>
    BY <1>4 DEF Span
<1>6. 1 \in 1..n /\ n \in 1..n
    BY <1>1, <1>2
<1> DEFINE a == r.stops[1].arrive
           t == r.stops[1].travel
           b == r.stops[n].leave
           c == r.stops[n].arrive
           e == r.stops[n].travel
           f == r.stops[1].leave
<1>7. /\ a \in Int /\ b \in Int /\ c \in Int /\ f \in Int /\ t \in Nat /\ e \in Nat
      /\ a < f /\ c < b /\ (n # 1 => f <= c - e) /\ r.home \in Nat
    BY SMTT(30), <1>1, <1>3, <1>6 DEF RouteTyped
<1>8. n = 1 => b = f
    OBVIOUS
<1>9. Span(r)[1] = a - t /\ Span(r)[2] = b + r.home
    BY <1>5
<1> HIDE DEF a, t, b, c, e, f
<1>10. a - t \in Int /\ b + r.home \in Int /\ a - t < b + r.home
    BY <1>7, <1>8
<1>11. Span(r)[1] \in Int /\ Span(r)[2] \in Int /\ Span(r)[1] < Span(r)[2]
    BY <1>9, <1>10
<1> USE DEF a, t, b
<1> QED
    BY <1>1, <1>2, <1>3, <1>4, <1>5, <1>9, <1>11

LEMMA StopTyped ==
    ASSUME NEW w, RoadOK(w), NEW d \in Int, NEW r, NEW i, IsJob(w.jobs[r.stops[i]]), NEW ready \in Int,
           NEW stop, stop = StopAfter(w, d, r, i, ready)
    PROVE  /\ stop.arrive \in Int /\ stop.leave \in Int /\ stop.travel \in Nat
           /\ stop.arrive < stop.leave /\ ready <= stop.arrive - stop.travel
<1>1. PICK job : job = w.jobs[r.stops[i]]
    OBVIOUS
<1>2. PICK hop : hop = DepartAndArrive(w, d, Place(w, r.stops, i - 1), job, ready)
    OBVIOUS
<1>3. stop = [job |-> r.stops[i], arrive |-> hop.arrive, leave |-> hop.arrive + job.dur, travel |-> hop.leg]
    BY <1>1, <1>2 DEF StopAfter
<1>4. hop.leg \in Nat /\ hop.arrive \in Int /\ ready <= hop.arrive - hop.leg
    BY <1>1, <1>2, HopTyped
<1>5. job.dur \in Nat \ {0}
    BY <1>1 DEF IsJob
<1> QED
    BY <1>3, <1>4, <1>5

LEMMA ReplayTyped ==
    ASSUME NEW w, RoadOK(w), NEW d \in Int, NEW r, r.depart \in Int, NEW n \in Nat \ {0},
           \A i \in 1..n : IsJob(w.jobs[r.stops[i]]), NEW route, Replays(w, d, r, route, n)
    PROVE  RouteTyped(route) /\ r.depart <= route.stops[1].arrive - route.stops[1].travel
<1> DEFINE Good(i) == LET stop == route.stops[i]
                      IN  /\ stop.arrive \in Int /\ stop.leave \in Int /\ stop.travel \in Nat
                          /\ stop.arrive < stop.leave
                          /\ ReadyFor(r, route, i) <= stop.arrive - stop.travel
           S == {k \in 0..n : \A i \in 1..k : /\ Good(i)
                                              /\ \A m \in 1..k : m < i =>
                                                    route.stops[m].leave <= route.stops[i].arrive - route.stops[i].travel}
<1>1. 0 \in S
    BY DEF Good
<1>2. ASSUME NEW k \in 0..n - 1, k \in S PROVE k + 1 \in S
    <2>1. \A i \in 1..k : Good(i)
        BY <1>2
    <2>2. ReadyFor(r, route, k + 1) \in Int
        <3>1. CASE k = 0
            BY <3>1 DEF ReadyFor
        <3>2. CASE k # 0
            <4>1. k \in 1..k /\ (k + 1) - 1 = k /\ k + 1 # 1
                BY <3>2
            <4>2. route.stops[k].leave \in Int
                BY <2>1, <4>1
            <4> QED
                BY <4>1, <4>2 DEF ReadyFor
        <3> QED
            BY <3>1, <3>2
    <2>3. k + 1 \in 1..n
        OBVIOUS
    <2>4. PICK stop : stop = route.stops[k + 1]
        OBVIOUS
    <2>5. stop = StopAfter(w, d, r, k + 1, ReadyFor(r, route, k + 1))
        BY <2>3, <2>4 DEF Replays
    <2>6. /\ stop.arrive \in Int /\ stop.leave \in Int /\ stop.travel \in Nat
          /\ stop.arrive < stop.leave /\ ReadyFor(r, route, k + 1) <= stop.arrive - stop.travel
        BY <2>2, <2>3, <2>5, StopTyped
    <2>7. Good(k + 1)
        BY <2>4, <2>6
    <2>8. ASSUME NEW m \in 1..k PROVE route.stops[m].leave <= route.stops[k + 1].arrive - route.stops[k + 1].travel
        <3>1. k \in 1..k /\ (k + 1) - 1 = k /\ k + 1 # 1
            OBVIOUS
        <3>2. route.stops[k].leave <= route.stops[k + 1].arrive - route.stops[k + 1].travel
            BY <2>7, <3>1 DEF ReadyFor
        <3>3. CASE m = k
            BY <3>2, <3>3
        <3>4. CASE m < k
            <4>1. route.stops[m].leave <= route.stops[k].arrive - route.stops[k].travel
                BY <1>2, <3>1, <3>4
            <4>2. Good(m) /\ Good(k) /\ Good(k + 1)
                BY <2>1, <2>7, <3>1
            <4> DEFINE a == route.stops[m].leave
                       b == route.stops[k].arrive
                       c == route.stops[k].travel
                       e == route.stops[k].leave
                       f == route.stops[k + 1].arrive - route.stops[k + 1].travel
            <4>3. a \in Int /\ b \in Int /\ c \in Int /\ e \in Int /\ f \in Int
                BY <4>2
            <4>4. c >= 0 /\ b < e
                BY <4>2, <4>3
            <4>5. e <= f /\ a <= b - c
                BY <3>2, <4>1, <4>3
            <4> HIDE DEF a, b, c, e, f
            <4>6. a <= f
                BY <4>3, <4>4, <4>5
            <4> USE DEF a, f
            <4> QED
                BY <4>6
        <3> QED
            BY <3>3, <3>4
    <2>9. ASSUME NEW i \in 1..k + 1 PROVE /\ Good(i)
                                          /\ \A m \in 1..k + 1 : m < i =>
                                                route.stops[m].leave <= route.stops[i].arrive - route.stops[i].travel
        <3>1. CASE i = k + 1
            <4>1. \A m \in 1..k + 1 : m < i => m \in 1..k
                BY <3>1
            <4> HIDE DEF Good
            <4> QED
                BY <2>7, <2>8, <3>1, <4>1
        <3>2. CASE i \in 1..k
            <4>1. \A m \in 1..k + 1 : m < i => m \in 1..k
                BY <3>2
            <4> HIDE DEF Good
            <4> QED
                BY <1>2, <3>2, <4>1
        <3>3. i = k + 1 \/ i \in 1..k
            OBVIOUS
        <3> HIDE DEF Good
        <3> QED
            BY <3>1, <3>2, <3>3
    <2>10. k + 1 \in 0..n
        OBVIOUS
    <2> HIDE DEF Good
    <2> QED
        BY <2>9, <2>10
<1>3. n \in S
    <2> HIDE DEF S
    <2>1. \A k \in 0..n : k \in S
        BY <1>1, <1>2, IntervalInduction
    <2> QED
        BY <2>1
<1>4. IsRoute(route) /\ route.day = d /\ DOMAIN route.stops = 1..n
    BY DEF Replays
<1>5. route.home \in Nat
    <2>1. PICK last \in Int : last = Last(route.stops).leave
        <3>1. PICK m \in Nat : route.stops = [i \in 1..m |-> route.stops[i]]
            BY <1>4 DEF IsRoute
        <3>2. m = n /\ Len(route.stops) = n
            BY <1>4, <3>1
        <3>3. Last(route.stops) = route.stops[n]
            BY <3>2 DEF Last
        <3> QED
            BY <1>3, <3>3
    <2>2. route.home = Leg(w.delays, w.jobs[Last(r.stops)].at, Depot, d, last)
        BY <2>1 DEF Replays
    <2> QED
        BY <2>1, <2>2, LegTyped DEF RoadOK
<1>6. r.depart <= route.stops[1].arrive - route.stops[1].travel
    <2>1. 1 \in 1..n
        OBVIOUS
    <2>2. Good(1)
        BY <1>3, <2>1
    <2> QED
        BY <2>2 DEF ReadyFor
<1> QED
    BY <1>3, <1>4, <1>5, <1>6 DEF RouteTyped

-----------------------------------------------------------------------------
\* The jobs of a run are each there once.
LEMMA OrdersMean ==
    ASSUME NEW js, IsFiniteSet(js), NEW q \in Orders(js)
    PROVE  \E n \in Nat \ {0} : /\ DOMAIN q = 1..n /\ q \in [1..n -> js]
                               /\ \A i, k \in 1..n : q[i] = q[k] => i = k
<1>0. PICK S \in (SUBSET js) \ {{}} : q \in SetToSeqs(S)
    BY DEF Orders
<1>1. S \subseteq js /\ S # {} /\ q \in SetToSeqs(S)
    BY <1>0
<1>2. PICK c \in Nat : c = Cardinality(S) /\ c # 0
    <2>1. IsFiniteSet(S) /\ S # {}
        BY <1>1, FS_Subset
    <2>2. Cardinality(S) \in Nat /\ Cardinality(S) # 0
        BY <2>1, FS_CardinalityType, FS_EmptySet
    <2> QED
        BY <2>2
<1>3. q \in [1..c -> S] /\ \A i, k \in 1..c : i # k => q[i] # q[k]
    BY <1>1, <1>2 DEF SetToSeqs
<1> QED
    BY <1>2, <1>1, <1>3

\* A run of a van stops somewhere, and its replay is a route.
IsRun(w, d, r, js, route, n) ==
    /\ n \in Nat \ {0} /\ r.stops \in [1..n -> js] /\ DOMAIN r.stops = 1..n
    /\ \A i, k \in 1..n : r.stops[i] = r.stops[k] => i = k
    /\ Replays(w, d, r, route, n) /\ RouteTyped(route)
    /\ r.depart \in 0..Minutes /\ r.depart <= route.stops[1].arrive - route.stops[1].travel
    /\ r.crew \in SUBSET FittersOn(w, d) /\ Cardinality(r.crew) \in 1..2

LEMMA RunMeans ==
    ASSUME NEW w, NEW days, IsWorld(w, days), NEW d \in Int, NEW js \in SUBSET DOMAIN w.jobs,
           NEW v, NEW late0, NEW r \in Runs(w, d, v, js, late0), NEW route, route = MaterializeRoute(w, d, r)
    PROVE  \E n : IsRun(w, d, r, js, route, n)
<1>1. /\ r.stops \in Orders(js) /\ r.depart \in 0..Minutes
      /\ r.crew \in SUBSET FittersOn(w, d) /\ Cardinality(r.crew) \in 1..2
    BY DEF Runs
<1>2. IsFiniteSet(js)
    BY FS_Subset DEF IsWorld
<1>3. PICK n \in Nat \ {0} : /\ DOMAIN r.stops = 1..n /\ r.stops \in [1..n -> js]
                             /\ \A i, k \in 1..n : r.stops[i] = r.stops[k] => i = k
    BY <1>1, <1>2, OrdersMean
<1>4. Replays(w, d, r, route, n)
    BY <1>3, MaterializedMeans
<1>5. RoadOK(w) /\ r.depart \in Int
    BY <1>1 DEF IsWorld, RoadOK
<1>6. \A i \in 1..n : IsJob(w.jobs[r.stops[i]])
    BY <1>3 DEF IsWorld
<1>7. RouteTyped(route) /\ r.depart <= route.stops[1].arrive - route.stops[1].travel
    BY <1>4, <1>5, <1>6, ReplayTyped
<1> QED
    BY <1>1, <1>3, <1>4, <1>7 DEF IsRun

\* A solution is a run of each of some vans, no two of them of one crew or job.
LEMMA SolutionsMean ==
    ASSUME NEW w, NEW d, NEW js, NEW must, NEW late0, IsFiniteSet(DOMAIN w.vans),
           NEW s \in Solutions(w, d, js, must, late0)
    PROVE  /\ \A r \in s : r.van \in VansOn(w, d) /\ r \in Runs(w, d, r.van, js, late0)
           /\ \A r, q \in s : r # q => r.van # q.van /\ Disjoint(r, q)
           /\ must \cap js \subseteq Served(s)
<1> DEFINE vs == VansOn(w, d)
           All == UNION {Runs(w, d, v, js, late0) : v \in vs}
           States == SUBSET SUBSET All
           Add(v, sols) == sols \cup {t \cup {r} : t \in sols, r \in Runs(w, d, v, js, late0)}
           step == [v \in vs |-> [sols \in States |-> Add(v, sols)]]
           Folds(iter) == iter = [t \in SUBSET vs |->
               IF t = {} THEN {{}} ELSE Add(CHOOSE x \in t : TRUE, iter[t \ {CHOOSE x \in t : TRUE}])]
           fold == CHOOSE iter : Folds(iter)
<1>1. IsFiniteSet(vs)
    BY FS_Subset DEF VansOn
<1>2. \A r \in All : r.van \in vs /\ r \in Runs(w, d, r.van, js, late0)
    <2>1. \A v \in vs : \A r \in Runs(w, d, v, js, late0) : r.van = v
        BY DEF Runs
    <2> QED
        BY <2>1
<1>3. ASSUME NEW v \in vs, NEW sols \in States PROVE Add(v, sols) \in States
    <2>1. Runs(w, d, v, js, late0) \subseteq All
        OBVIOUS
    <2> HIDE DEF All
    <2>2. \A t \in sols, r \in Runs(w, d, v, js, late0) : t \cup {r} \in SUBSET All
        BY <2>1
    <2> QED
        BY <2>2
<1>4. {{}} \in States
    OBVIOUS
<1> HIDE DEF All
<1>5. step \in [vs -> [States -> States]]
    <2> HIDE DEF vs, Add, States
    <2> QED
        BY <1>3
<1>6. PICK it \in [SUBSET vs -> States] : IsSetFold(it, vs, {{}}, step)
    <2> HIDE DEF vs, Add, States, step
    <2> QED
        BY <1>1, <1>4, <1>5, SetFoldExists
<1>7. ASSUME NEW t \in SUBSET vs, t # {}
      PROVE  /\ First(t) \in vs /\ t \ {First(t)} \in SUBSET vs
             /\ First(t) = CHOOSE x \in t : TRUE
    <2> HIDE DEF vs
    <2> QED
        BY <1>1, <1>7, FirstOut DEF First
<1>8. ASSUME NEW t \in SUBSET vs
      PROVE  it[t] = IF t = {} THEN {{}} ELSE Add(First(t), it[t \ {First(t)}])
    <2> HIDE DEF vs, Add, States
    <2>1. it[t] = IF t = {} THEN {{}} ELSE step[First(t)][it[t \ {First(t)}]]
        BY <1>6 DEF IsSetFold
    <2>2. t # {} => step[First(t)][it[t \ {First(t)}]] = Add(First(t), it[t \ {First(t)}])
        BY <1>6, <1>7
    <2> QED
        BY <2>1, <2>2
<1>9. Folds(it)
    <2> HIDE DEF vs, Add, States
    <2> QED
        BY <1>6, <1>7, <1>8
<1>10. Folds(fold)
    <2> HIDE DEF Folds
    <2> QED
        BY <1>9
<1>11. /\ s \in fold[vs]
       /\ \A r, q \in s : r # q => Disjoint(r, q)
       /\ must \cap js \subseteq Served(s)
    BY DEF Solutions, Served, FoldSet, MapThenFoldSet
<1> DEFINE One(t, u) == (\A r \in u : r.van \in t) /\ \A r, q \in u : r.van = q.van => r = q
           Pairs == {p \in (SUBSET vs) \X States : \A u \in p[2] : One(p[1], u)}
           pair == [t \in SUBSET vs |-> <<t, fold[t]>>]
<1>12. pair[vs] \in Pairs
    <2>1. pair[{}] \in Pairs
        <3> HIDE DEF vs, Add, fold
        <3>1. fold[{}] = {{}}
            BY <1>10
        <3>2. fold[{}] \in States
            BY <1>4, <3>1
        <3>3. \A u \in fold[{}] : One({}, u)
            BY <3>1
        <3> HIDE DEF One, States, Folds
        <3> QED
            BY <3>2, <3>3
    <2>2. ASSUME NEW t \in SUBSET vs, t # {}, pair[t \ {First(t)}] \in Pairs PROVE pair[t] \in Pairs
        <3> HIDE DEF vs, Add, fold, States
        <3>1. PICK v, rest : v = First(t) /\ rest = t \ {First(t)}
            OBVIOUS
        <3>2. v \in vs /\ rest \in SUBSET vs /\ t = rest \cup {v} /\ v \notin rest /\ v \in t
            BY <1>7, <2>2, <3>1
        <3>3. fold[t] = Add(v, fold[rest])
            BY ZenonT(60), <1>7, <1>10, <2>2, <3>1
        <3> HIDE DEF Folds
        <3>4. fold[rest] \in States /\ \A u \in fold[rest] : One(rest, u)
            <4> HIDE DEF One
            <4> QED
                BY <2>2, <3>1, <3>2
        <3>5. fold[t] \in States
            BY <1>3, <3>2, <3>3, <3>4
        <3>6. ASSUME NEW u \in fold[t] PROVE One(t, u)
            <4>1. u \in fold[rest] \/ \E y \in fold[rest], r \in Runs(w, d, v, js, late0) : u = y \cup {r}
                BY <3>3, <3>6 DEF Add
            <4>2. CASE u \in fold[rest]
                BY <3>2, <3>4, <4>2
            <4>3. ASSUME NEW y \in fold[rest], NEW r \in Runs(w, d, v, js, late0), u = y \cup {r} PROVE One(t, u)
                <5>1. r.van = v
                    BY DEF Runs
                <5>2. One(rest, y)
                    BY <3>4
                <5> QED
                    BY <3>2, <4>3, <5>1, <5>2
            <4> QED
                BY <4>1, <4>2, <4>3
        <3> HIDE DEF One
        <3> QED
            BY <2>2, <3>5, <3>6
    <2> HIDE DEF pair, Pairs, vs
    <2> QED
        BY <1>1, <2>1, <2>2, SetFoldKeeps
<1>13. s \subseteq All /\ One(vs, s)
    <2> HIDE DEF vs, Add, fold, Folds, One
    <2>1. fold[vs] \in States /\ \A u \in fold[vs] : One(vs, u)
        BY <1>12
    <2> QED
        BY <1>11, <2>1
<1> HIDE DEF Add, fold, Folds, States, step, pair, Pairs
<1>14. \A r \in s : r.van \in VansOn(w, d) /\ r \in Runs(w, d, r.van, js, late0)
    BY <1>2, <1>13
<1>15. \A r, q \in s : r # q => r.van # q.van
    BY <1>13
<1> QED
    BY <1>11, <1>14, <1>15

\* What a day is planned to be stops once for some of its jobs.
LEMMA PlanDayMeans ==
    ASSUME NEW w, NEW d, NEW today, NEW must, NEW late0,
           IsFiniteSet(DOMAIN w.vans), IsFiniteSet(DOMAIN w.jobs),
           NEW result \in PlanDay(w, d, today, must, late0)
    PROVE  /\ RoutesOK(result.routes) /\ \A r \in result.routes : r.day = d
           /\ Stopped(result.routes) \subseteq today
<1>1. PICK js : js = Candidates(w, d, today)
    OBVIOUS
<1>2. IsFiniteSet(js) /\ js \subseteq today
    BY <1>1, FS_Subset DEF Candidates
<1>3. CASE result = NothingPlanned(w, d, today)
    <2>1. result.routes = {}
        BY <1>3 DEF NothingPlanned
    <2> QED
        BY <2>1 DEF RoutesOK, Once, Stopped
<1>4. ASSUME NEW s \in Solutions(w, d, js, must, late0), result = Outcome(w, d, today, s)
      PROVE  /\ RoutesOK(result.routes) /\ \A r \in result.routes : r.day = d
             /\ Stopped(result.routes) \subseteq today
    <2>0. /\ \A r \in s : r.van \in VansOn(w, d) /\ r \in Runs(w, d, r.van, js, late0)
          /\ \A r, q \in s : r # q => r.van # q.van /\ Disjoint(r, q)
        BY SolutionsMean
    <2>1. /\ \A r \in s : r.stops \in Orders(js)
          /\ \A r, q \in s : r # q => Disjoint(r, q)
        BY <2>0 DEF Runs
    <2>2. ASSUME NEW r \in s
          PROVE  \E n \in Nat : /\ DOMAIN r.stops = 1..n /\ \A i \in 1..n : r.stops[i] \in js
                                /\ \A i, k \in 1..n : r.stops[i] = r.stops[k] => i = k
        BY <1>2, <2>1, OrdersMean
    <2>3. ASSUME NEW r \in s
          PROVE  LET route == MaterializeRoute(w, d, r)
                 IN  /\ IsRoute(route) /\ route.day = d
                     /\ DOMAIN route.stops = DOMAIN r.stops
                     /\ \A i \in DOMAIN r.stops : route.stops[i].job = r.stops[i]
        <3>1. PICK n \in Nat : DOMAIN r.stops = 1..n
            BY <2>2
        <3>2. PICK route : route = MaterializeRoute(w, d, r)
            OBVIOUS
        <3>3. Replays(w, d, r, route, n)
            BY <3>1, <3>2, MaterializedMeans
        <3>4. \A i \in 1..n : route.stops[i].job = r.stops[i]
            BY <3>3, ReplaysJobs
        <3> QED
            BY <3>1, <3>2, <3>3, <3>4 DEF Replays
    <2>4. result.routes = {MaterializeRoute(w, d, r) : r \in s}
        BY <1>4 DEF Outcome
    <2>5. \A route \in result.routes : \E r \in s :
             /\ route = MaterializeRoute(w, d, r) /\ IsRoute(route) /\ route.day = d
             /\ DOMAIN route.stops = DOMAIN r.stops
             /\ \A i \in DOMAIN r.stops : route.stops[i].job = r.stops[i]
        BY <2>3, <2>4
    <2>6. Once(result.routes)
        <3> SUFFICES ASSUME NEW a \in result.routes, NEW b \in result.routes,
                            NEW i \in DOMAIN a.stops, NEW k \in DOMAIN b.stops,
                            a.stops[i].job = b.stops[k].job
                     PROVE  a = b /\ i = k
            BY DEF Once
        <3>1. PICK r \in s : /\ a = MaterializeRoute(w, d, r) /\ DOMAIN a.stops = DOMAIN r.stops
                             /\ \A m \in DOMAIN r.stops : a.stops[m].job = r.stops[m]
            BY <2>5
        <3>2. PICK q \in s : /\ b = MaterializeRoute(w, d, q) /\ DOMAIN b.stops = DOMAIN q.stops
                             /\ \A m \in DOMAIN q.stops : b.stops[m].job = q.stops[m]
            BY <2>5
        <3>3. r.stops[i] = q.stops[k] /\ i \in DOMAIN r.stops /\ k \in DOMAIN q.stops
            BY <3>1, <3>2
        <3>4. r = q
            <4>1. ToSet(r.stops) \cap ToSet(q.stops) # {}
                BY <3>3 DEF ToSet
            <4> QED
                BY <2>1, <4>1 DEF Disjoint
        <3>5. i = k
            BY <2>2, <3>3, <3>4
        <3> QED
            BY <3>1, <3>2, <3>4, <3>5
    <2>7. Stopped(result.routes) \subseteq today
        <3> SUFFICES ASSUME NEW a \in result.routes, NEW i \in DOMAIN a.stops PROVE a.stops[i].job \in today
            BY DEF Stopped, ToSet
        <3>1. PICK r \in s : /\ DOMAIN a.stops = DOMAIN r.stops
                             /\ \A m \in DOMAIN r.stops : a.stops[m].job = r.stops[m]
            BY <2>5
        <3>2. r.stops[i] \in js
            BY <2>2, <3>1
        <3> QED
            BY <1>2, <3>1, <3>2
    <2> QED
        BY <2>5, <2>6, <2>7 DEF RoutesOK
<1> QED
    <2>1. \/ result = NothingPlanned(w, d, today)
          \/ \E s \in Solutions(w, d, js, must, late0) : result = Outcome(w, d, today, s)
        BY <1>1 DEF PlanDay, Found
    <2> QED
        BY <1>3, <1>4, <2>1

LEMMA PlanDayCases ==
    ASSUME NEW w, NEW d, NEW today, NEW must, NEW late0, NEW result \in PlanDay(w, d, today, must, late0)
    PROVE  \/ result = NothingPlanned(w, d, today)
           \/ \E s \in Solutions(w, d, Candidates(w, d, today), must, late0) :
                 result = Outcome(w, d, today, s) /\ FittersOn(w, d) # {}
BY DEF PlanDay, Found

LEMMA PlanDayTyped ==
    ASSUME NEW w, NEW days, IsWorld(w, days), NEW d \in Int, NEW today, NEW must, NEW late0,
           NEW result \in PlanDay(w, d, today, must, late0)
    PROVE  \A route \in result.routes : RouteTyped(route)
<1>1. CASE result = NothingPlanned(w, d, today)
    BY <1>1 DEF NothingPlanned
<1>2. PICK js : js = Candidates(w, d, today)
    OBVIOUS
<1>3. js \in SUBSET DOMAIN w.jobs
    BY <1>2 DEF Candidates
<1>4. ASSUME NEW s \in Solutions(w, d, js, must, late0), result = Outcome(w, d, today, s)
      PROVE  \A route \in result.routes : RouteTyped(route)
    <2>1. \A r \in s : r \in Runs(w, d, r.van, js, late0)
        BY SolutionsMean DEF IsWorld
    <2>2. ASSUME NEW r \in s PROVE RouteTyped(MaterializeRoute(w, d, r))
        <3>1. PICK route : route = MaterializeRoute(w, d, r)
            OBVIOUS
        <3>2. \E n : IsRun(w, d, r, js, route, n)
            BY <1>3, <2>1, <3>1, RunMeans
        <3> QED
            BY <3>1, <3>2 DEF IsRun
    <2>3. result.routes = {MaterializeRoute(w, d, r) : r \in s}
        BY <1>4 DEF Outcome
    <2> QED
        BY <2>2, <2>3
<1> QED
    BY <1>1, <1>2, <1>4, PlanDayCases

LEMMA StoppedMeans ==
    ASSUME NEW routes
    PROVE  \A j : j \in Stopped(routes) <=> \E r \in routes : \E i \in DOMAIN r.stops : r.stops[i].job = j
BY DEF Stopped, ToSet

\* A day that is planned comes from a solution, run by run.
AreRuns(w, d, js, s) == \A r \in s : \E n : IsRun(w, d, r, js, MaterializeRoute(w, d, r), n)
RoutesOf(w, d, s) == {MaterializeRoute(w, d, r) : r \in s}

Solved(w, d, js, must, late0, result, s) ==
    /\ \E today : js = Candidates(w, d, today) /\ result = Outcome(w, d, today, s)
    /\ result.routes = RoutesOf(w, d, s) /\ AreRuns(w, d, js, s)
    /\ \A r \in s : r.van \in VansOn(w, d) /\ r \in Runs(w, d, r.van, js, late0)
    /\ \A r, q \in s : r # q => r.van # q.van /\ Disjoint(r, q)
    /\ Stopped(result.routes) = Served(s) /\ Served(s) \subseteq js /\ must \cap js \subseteq Served(s)
    /\ FittersOn(w, d) # {}

LEMMA RunsServe ==
    ASSUME NEW w, NEW d, NEW js, NEW s, AreRuns(w, d, js, s)
    PROVE  Stopped(RoutesOf(w, d, s)) = Served(s) /\ Served(s) \subseteq js
<1> DEFINE routes == RoutesOf(w, d, s)
<1>1. ASSUME NEW r \in s, NEW route, route = MaterializeRoute(w, d, r)
      PROVE  \E n : /\ DOMAIN r.stops = 1..n /\ DOMAIN route.stops = 1..n
                    /\ \A i \in 1..n : route.stops[i].job = r.stops[i] /\ r.stops[i] \in js
    <2>1. PICK n : IsRun(w, d, r, js, route, n)
        BY <1>1 DEF AreRuns
    <2>2. n \in Nat /\ Replays(w, d, r, route, n) /\ DOMAIN r.stops = 1..n /\ r.stops \in [1..n -> js]
        BY <2>1 DEF IsRun
    <2>3. \A i \in 1..n : route.stops[i].job = r.stops[i]
        BY <2>2, ReplaysJobs
    <2> QED
        BY <2>2, <2>3 DEF Replays
<1>2. \A j : j \in Served(s) <=> \E r \in s : \E i \in DOMAIN r.stops : r.stops[i] = j
    BY DEF Served, ToSet
<1>3. \A j : j \in Stopped(routes) <=> \E r \in routes : \E i \in DOMAIN r.stops : r.stops[i].job = j
    BY StoppedMeans
<1>4. ASSUME NEW j \in Stopped(routes) PROVE j \in Served(s)
    <2>1. PICK route \in routes : \E i \in DOMAIN route.stops : route.stops[i].job = j
        BY <1>3
    <2>2. PICK r \in s : route = MaterializeRoute(w, d, r)
        BY DEF RoutesOf
    <2>3. PICK n : /\ DOMAIN r.stops = 1..n /\ DOMAIN route.stops = 1..n
                   /\ \A i \in 1..n : route.stops[i].job = r.stops[i]
        BY <1>1, <2>2
    <2> QED
        BY <1>2, <2>1, <2>3
<1>5. ASSUME NEW j \in Served(s) PROVE j \in Stopped(routes) /\ j \in js
    <2>1. PICK r \in s : \E i \in DOMAIN r.stops : r.stops[i] = j
        BY <1>2
    <2>2. PICK route \in routes : route = MaterializeRoute(w, d, r)
        BY DEF RoutesOf
    <2>3. PICK n : /\ DOMAIN r.stops = 1..n /\ DOMAIN route.stops = 1..n
                   /\ \A i \in 1..n : route.stops[i].job = r.stops[i] /\ r.stops[i] \in js
        BY <1>1, <2>2
    <2> QED
        BY <1>3, <2>1, <2>2, <2>3
<1> QED
    BY <1>4, <1>5

LEMMA PlanDaySolved ==
    ASSUME NEW w, NEW days, IsWorld(w, days), NEW d \in Int, NEW today, NEW must, NEW late0,
           NEW result \in PlanDay(w, d, today, must, late0), NEW js, js = Candidates(w, d, today)
    PROVE  \/ result = NothingPlanned(w, d, today) /\ result.routes = {} /\ Stopped(result.routes) = {}
           \/ \E s : Solved(w, d, js, must, late0, result, s)
<1>1. CASE result = NothingPlanned(w, d, today)
    <2>1. result.routes = {}
        BY <1>1 DEF NothingPlanned
    <2> QED
        BY <1>1, <2>1 DEF Stopped
<1>2. js \in SUBSET DOMAIN w.jobs
    BY DEF Candidates
<1>3. ASSUME NEW s \in Solutions(w, d, js, must, late0), result = Outcome(w, d, today, s), FittersOn(w, d) # {}
      PROVE  Solved(w, d, js, must, late0, result, s)
    <2>1. /\ \A r \in s : r.van \in VansOn(w, d) /\ r \in Runs(w, d, r.van, js, late0)
          /\ \A r, q \in s : r # q => r.van # q.van /\ Disjoint(r, q)
          /\ must \cap js \subseteq Served(s)
        BY SolutionsMean DEF IsWorld
    <2>2. ASSUME NEW r \in s PROVE \E n : IsRun(w, d, r, js, MaterializeRoute(w, d, r), n)
        <3>1. PICK route : route = MaterializeRoute(w, d, r)
            OBVIOUS
        <3>2. r \in Runs(w, d, r.van, js, late0)
            BY <2>1
        <3>3. \E n : IsRun(w, d, r, js, route, n)
            BY <1>2, <3>1, <3>2, RunMeans
        <3> QED
            BY <3>1, <3>3
    <2>6. AreRuns(w, d, js, s)
        BY <2>2 DEF AreRuns
    <2>3. Stopped(RoutesOf(w, d, s)) = Served(s) /\ Served(s) \subseteq js
        BY <2>6, RunsServe
    <2>4. result.routes = RoutesOf(w, d, s)
        BY <1>3 DEF Outcome, RoutesOf
    <2>5. \E t : js = Candidates(w, d, t) /\ result = Outcome(w, d, t, s)
        BY <1>3
    <2> QED
        BY <1>3, <2>1, <2>3, <2>4, <2>5, <2>6 DEF Solved
<1> QED
    BY <1>1, <1>3, PlanDayCases

\* A crew begins when some earliest start says, and no crew leaves before midnight.
LEMMA StopStarts ==
    ASSUME NEW w, RoadOK(w), NEW d \in Int, NEW r, NEW i, IsJob(w.jobs[r.stops[i]]), NEW ready \in Int,
           NEW stop, stop = StopAfter(w, d, r, i, ready)
    PROVE  \E arrival \in Int : /\ ready <= arrival /\ arrival <= stop.arrive
                                /\ EarliestStart(w.jobs[r.stops[i]], d, arrival) <= stop.arrive
<1>1. PICK job : job = w.jobs[r.stops[i]]
    OBVIOUS
<1>2. PICK o : o = Place(w, r.stops, i - 1)
    OBVIOUS
<1>3. PICK hop : hop = DepartAndArrive(w, d, o, job, ready)
    OBVIOUS
<1>4. stop.arrive = hop.arrive /\ IsJob(job)
    BY <1>1, <1>2, <1>3 DEF StopAfter
<1>5. PICK g, k : /\ Guesses(w, d, o, job, ready, g, k)
                  /\ Hops(w, d, o, job, ready, hop, Later(g[k], ready))
    BY <1>3, HopMeans
<1>6. g[k] \in Int
    BY <1>4, <1>5, GuessesTyped
<1>7. PICK leave \in Int : leave = Later(g[k], ready)
    BY <1>6, LaterMeans
<1>8. PICK target \in Int : target = Target(w, d, o, job, ready)
    BY <1>4, TargetTyped
<1>9. PICK drive \in Nat : drive = Drive(w, d, o, job, leave)
    BY DriveTyped
<1>10. PICK arrival \in Int : arrival = ready + Drive(w, d, o, job, ready) /\ ready <= arrival
    <2>1. PICK x \in Nat : x = Drive(w, d, o, job, ready)
        BY DriveTyped
    <2> QED
        BY <2>1
<1>11. target = EarliestStart(job, d, arrival) /\ arrival <= target
    <2>1. target = EarliestStart(job, d, arrival)
        BY <1>8, <1>10 DEF Target
    <2> QED
        BY <1>4, <2>1, StartMeans
<1>12. hop.arrive = Later(target, leave + drive) /\ leave + drive \in Int
    BY <1>5, <1>7, <1>8, <1>9 DEF Hops
<1>13. target <= hop.arrive /\ hop.arrive \in Int
    BY <1>12, LaterMeans
<1> QED
    BY <1>1, <1>4, <1>10, <1>11, <1>13

LEMMA RunStarts ==
    ASSUME NEW w, NEW days, IsWorld(w, days), NEW d \in Int, NEW js \in SUBSET DOMAIN w.jobs, NEW r,
           NEW route, NEW n, IsRun(w, d, r, js, route, n), NEW i \in 1..n
    PROVE  /\ route.stops[i].job = r.stops[i] /\ r.stops[i] \in js /\ route.stops[i].arrive \in Nat
           /\ \E arrival \in Int : EarliestStart(w.jobs[r.stops[i]], d, arrival) <= route.stops[i].arrive
<1>1. /\ n \in Nat /\ r.stops \in [1..n -> js] /\ Replays(w, d, r, route, n) /\ RouteTyped(route)
      /\ r.depart \in Nat /\ r.depart <= route.stops[1].arrive - route.stops[1].travel
      /\ DOMAIN route.stops = 1..n
    BY HoursConstants DEF IsRun, Replays
<1>2. route.stops[i].job = r.stops[i]
    BY <1>1, ReplaysJobs
<1>3. RoadOK(w) /\ r.stops[i] \in js /\ IsJob(w.jobs[r.stops[i]])
    BY <1>1 DEF IsWorld, RoadOK
<1>4. PICK stop : stop = route.stops[i]
    OBVIOUS
<1>5. PICK ready \in Int : ready = ReadyFor(r, route, i)
    <2>1. CASE i = 1
        BY <1>1, <2>1 DEF ReadyFor
    <2>2. CASE i # 1
        <3>1. i - 1 \in DOMAIN route.stops
            BY <1>1, <2>2
        <3> QED
            BY <1>1, <2>2, <3>1 DEF ReadyFor, RouteTyped
    <2> QED
        BY <2>1, <2>2
<1>6. stop = StopAfter(w, d, r, i, ready)
    BY <1>1, <1>4, <1>5 DEF Replays
<1>7. \E arrival \in Int : EarliestStart(w.jobs[r.stops[i]], d, arrival) <= stop.arrive
    BY <1>3, <1>6, StopStarts
<1>8. stop.arrive \in Nat
    <2>1. 1 \in 1..n
        BY <1>1
    <2>2. /\ stop.arrive \in Int /\ stop.travel \in Nat
          /\ route.stops[1].arrive \in Int /\ route.stops[1].travel \in Nat /\ route.stops[1].leave \in Int
          /\ route.stops[1].arrive < route.stops[1].leave
        BY <1>1, <1>4, <2>1 DEF RouteTyped
    <2>3. CASE i = 1
        BY <1>1, <1>4, <2>2, <2>3
    <2>4. CASE i # 1
        <3>1. route.stops[1].leave <= stop.arrive - stop.travel
            BY <1>1, <1>4, <2>1, <2>4 DEF RouteTyped
        <3> QED
            BY SMTT(30), <1>1, <2>2, <3>1
    <2> QED
        BY <2>3, <2>4
<1> QED
    BY <1>2, <1>3, <1>4, <1>7, <1>8

\* A job of one window that is only preferred is not begun before it opens.
LEMMA PreferenceHolds ==
    ASSUME NEW job, IsJob(job), NEW win, job.windows = <<win>>, ~win.hard, NEW d \in Int, NEW arrival \in Int
    PROVE  Clock(d, win.from) <= EarliestStart(job, d, arrival)
<1>1. ToSet(job.windows) = {win}
    BY DEF ToSet
<1>2. Fits(job, d, arrival) = {win}
    BY <1>1 DEF Fits
<1>3. Clock(d, win.from) \in Int
    BY <1>1, WindowTyped
<1>4. EarliestStart(job, d, arrival) = Later(arrival, Clock(d, win.from))
    BY <1>2, StartMeans
<1> QED
    BY <1>3, <1>4, LaterMeans

-----------------------------------------------------------------------------
(* Sets of routes.                                                         *)

LEMMA TogetherOnce ==
    ASSUME NEW a, NEW b, RoutesOK(a), RoutesOK(b), Stopped(a) \cap Stopped(b) = {}
    PROVE  RoutesOK(a \cup b) /\ Stopped(a \cup b) = Stopped(a) \cup Stopped(b)
<1>1. Stopped(a \cup b) = Stopped(a) \cup Stopped(b)
    BY DEF Stopped
<1>2. Once(a \cup b)
    <2> SUFFICES ASSUME NEW r \in a \cup b, NEW q \in a \cup b,
                        NEW i \in DOMAIN r.stops, NEW k \in DOMAIN q.stops,
                        r.stops[i].job = q.stops[k].job
                 PROVE  r = q /\ i = k
        BY DEF Once
    <2>1. CASE r \in a /\ q \in a
        BY <2>1 DEF RoutesOK, Once
    <2>2. CASE r \in b /\ q \in b
        BY <2>2 DEF RoutesOK, Once
    <2>3. CASE ~(r \in a /\ q \in a) /\ ~(r \in b /\ q \in b)
        <3>1. r.stops[i].job \in Stopped(a) /\ r.stops[i].job \in Stopped(b)
            BY <2>3, StoppedMeans
        <3> QED
            BY <3>1
    <2> QED
        BY <2>1, <2>2, <2>3
<1> QED
    BY <1>1, <1>2 DEF RoutesOK

\* Where a job is stopped for once, there is one use of it.
LEMMA UsedOnce ==
    ASSUME NEW routes, RoutesOK(routes), NEW j
    PROVE  Cardinality(Uses(routes, j)) = IF j \in Stopped(routes) THEN 1 ELSE 0
<1>1. \A u : u \in Uses(routes, j) <=> \E r \in routes : \E i \in DOMAIN r.stops :
                                          r.stops[i].job = j /\ u = <<r, i>>
    BY DEF Uses
<1>2. CASE j \notin Stopped(routes)
    <2>1. Uses(routes, j) = {}
        BY <1>1, <1>2, StoppedMeans
    <2> QED
        BY <1>2, <2>1, FS_EmptySet
<1>3. CASE j \in Stopped(routes)
    <2>1. PICK r \in routes : \E i \in DOMAIN r.stops : r.stops[i].job = j
        BY <1>3, StoppedMeans
    <2>2. PICK i \in DOMAIN r.stops : r.stops[i].job = j
        BY <2>1
    <2>3. \A u \in Uses(routes, j) : u = <<r, i>>
        BY <1>1, <2>2 DEF RoutesOK, Once
    <2>4. <<r, i>> \in Uses(routes, j)
        BY <1>1, <2>2
    <2>5. Uses(routes, j) = {<<r, i>>}
        BY <2>3, <2>4
    <2> QED
        BY <1>3, <2>5, FS_Singleton
<1> QED
    BY <1>2, <1>3

-----------------------------------------------------------------------------
(* Who is there, and until when.                                           *)

\* The hours the planner gives a resource lie in its span and hold no outage.
FreeHours(h, a, b, outages) ==
    /\ h = <<h[1], h[2]>> /\ h[1] \in Nat /\ h[2] \in Nat /\ a <= h[1] /\ h[1] < h[2] /\ h[2] <= b
    /\ \A t \in h[1]..h[2] - 1 : ~Blocks(outages, <<a, b>>, t)

LEMMA HoursAreFree ==
    ASSUME NEW outages \in SUBSET [from : Int, until : Int], NEW d \in Int, NEW a \in Nat, NEW b \in Nat, a < b,
           NEW h, h = LargestFree(OnDay(outages, d), <<a, b>>), h # <<>>
    PROVE  FreeHours(h, a, b, OnDay(outages, d))
<1>1. PICK out : out = OnDay(outages, d)
    OBVIOUS
<1>2. \A o \in out : o.from \in Int /\ o.until \in Int
    BY <1>1, OnDayTyped
<1>3. PICK free : free = LargestFree(out, <<a, b>>)
    OBVIOUS
<1>4. /\ free \in {<<>>} \cup Stretches(a, b)
      /\ free # <<>> => /\ free[1] < free[2]
                        /\ \A t \in free[1]..free[2] - 1 : ~Blocks(out, <<a, b>>, t)
    BY <1>2, <1>3, LargestFreeMeans
<1>5. h = free /\ free \in (a..b) \X (a..b)
    BY <1>1, <1>3, <1>4 DEF Stretches
<1>6. h = <<h[1], h[2]>> /\ h[1] \in a..b /\ h[2] \in a..b
    BY <1>5
<1>7. h[1] \in Nat /\ h[2] \in Nat /\ a <= h[1] /\ h[2] <= b
    BY <1>6
<1> QED
    BY <1>1, <1>4, <1>5, <1>6, <1>7 DEF FreeHours

\* A fitter who is there works part of the shift.
WorksOn(w, d, f, a, b) ==
    /\ f \in DOMAIN w.fitters /\ IsFitter(w.fitters[f], {d})
    /\ a \in Nat /\ b \in Nat /\ a < b /\ b <= Minutes /\ w.fitters[f].shift[d] = <<a, b>>
    /\ FreeHours(FitterHours(w, f, d), a, b, OnDay(w.fitters[f].outages, d))

LEMMA FittersWork ==
    ASSUME NEW w, NEW days, IsWorld(w, days), NEW d \in days, d \in Int, NEW f \in FittersOn(w, d)
    PROVE  \E a, b : WorksOn(w, d, f, a, b)
<1>1. f \in DOMAIN w.fitters /\ FitterHours(w, f, d) # <<>>
    BY DEF FittersOn
<1>2. PICK g : g = w.fitters[f]
    OBVIOUS
<1>3. IsFitter(g, days)
    BY <1>1, <1>2 DEF IsWorld
<1>4. IsFitter(g, {d})
    BY <1>3 DEF IsFitter
<1>5. PICK shift : shift = g.shift[d]
    OBVIOUS
<1>6. shift # <<>>
    BY <1>1, <1>2, <1>5 DEF FitterHours
<1>7. PICK a \in 0..Minutes, b \in 0..Minutes : shift = <<a, b>> /\ a < b
    <2>1. shift \in {s \in (0..Minutes) \X (0..Minutes) : s[1] < s[2]}
        BY <1>3, <1>5, <1>6 DEF IsFitter
    <2> QED
        BY <2>1
<1>8. PICK h : h = FitterHours(w, f, d)
    OBVIOUS
<1>9. h = LargestFree(OnDay(g.outages, d), <<a, b>>) /\ h # <<>>
    BY <1>1, <1>2, <1>5, <1>6, <1>7, <1>8 DEF FitterHours
<1>10. a \in Nat /\ b \in Nat /\ g.outages \in SUBSET [from : Int, until : Int]
    BY <1>3, HoursConstants DEF IsFitter
<1>11. FreeHours(h, a, b, OnDay(g.outages, d))
    BY <1>7, <1>9, <1>10, HoursAreFree
<1>12. WorksOn(w, d, f, a, b)
    BY <1>1, <1>2, <1>4, <1>5, <1>7, <1>8, <1>10, <1>11 DEF WorksOn
<1> QED
    BY <1>12

LEMMA VansWork ==
    ASSUME NEW w, NEW days, IsWorld(w, days), NEW d \in Int, NEW v \in VansOn(w, d)
    PROVE  v \in DOMAIN w.vans /\ FreeHours(VanHours(w, v, d), 0, Minutes, OnDay(w.vans[v].outages, d))
<1>1. v \in DOMAIN w.vans /\ VanHours(w, v, d) # <<>>
    BY DEF VansOn
<1>2. PICK g : g = w.vans[v]
    OBVIOUS
<1>3. g.outages \in SUBSET [from : Int, until : Int]
    BY <1>1, <1>2 DEF IsWorld, IsVan
<1>4. PICK h : h = VanHours(w, v, d)
    OBVIOUS
<1>5. h = LargestFree(OnDay(g.outages, d), <<0, Minutes>>) /\ h # <<>>
    BY <1>1, <1>2, <1>4 DEF VanHours
<1>6. FreeHours(h, 0, Minutes, OnDay(g.outages, d))
    BY <1>3, <1>5, HoursConstants, HoursAreFree
<1> QED
    BY <1>1, <1>2, <1>4, <1>6

\* Nobody is kept shorter than the hours.
LEMMA KeptMeansLater ==
    ASSUME NEW w, NEW d, NEW f, NEW a, NEW b, WorksOn(w, d, f, a, b), NEW late0
    PROVE  KeptUntil(w, f, d, late0) \in Int /\ FitterHours(w, f, d)[2] <= KeptUntil(w, f, d, late0)
<1>1. PICK end \in Nat : end = FitterHours(w, f, d)[2]
    BY DEF WorksOn, FreeHours
<1>2. PICK x \in Nat : x = (IF late0 /\ w.fitters[f].eligible THEN end + Overtime ELSE end) /\ end <= x
    BY DayPlanConstants
<1>3. PICK k \in Int : k = w.fitters[f].kept[d]
    BY DEF WorksOn, IsFitter
<1>4. KeptUntil(w, f, d, late0) = Later(x, k)
    BY <1>1, <1>2, <1>3 DEF KeptUntil, ReachEnd
<1>5. x \in Int /\ Later(x, k) \in Int /\ x <= Later(x, k)
    <2>1. x \in Int
        BY <1>2
    <2>2. Later(x, k) \in Int /\ x <= Later(x, k)
        BY <1>3, <2>1, LaterMeans
    <2> QED
        BY <2>1, <2>2
<1> QED
    BY <1>1, <1>2, <1>4, <1>5

\* A crew's hours are nobody's before, and end with the first who has to be back.
HoursBound(w, d, v, crew, late0, hours) ==
    /\ hours[1] \in Int /\ hours[2] \in Int
    /\ VanHours(w, v, d)[1] <= hours[1] /\ hours[2] <= VanHours(w, v, d)[2]
    /\ \A f \in crew : FitterHours(w, f, d)[1] <= hours[1] /\ hours[2] <= KeptUntil(w, f, d, late0)

LEMMA CrewHoursMean ==
    ASSUME NEW w, NEW days, IsWorld(w, days), NEW d \in days, d \in Int, NEW v \in VansOn(w, d),
           NEW crew \in SUBSET FittersOn(w, d), NEW late0
    PROVE  HoursBound(w, d, v, crew, late0, CrewHours(w, d, v, crew, late0))
<1>1. PICK van : van = VanHours(w, v, d)
    OBVIOUS
<1>2. van[1] \in Int /\ van[2] \in Int
    BY <1>1, VansWork DEF FreeHours
<1>3. PICK S : S = {van[1]} \cup {FitterHours(w, f, d)[1] : f \in crew}
    OBVIOUS
<1>4. PICK E : E = {van[2]} \cup {KeptUntil(w, f, d, late0) : f \in crew}
    OBVIOUS
<1>5. ASSUME NEW f \in crew
      PROVE  /\ FitterHours(w, f, d)[1] \in Int /\ FitterHours(w, f, d)[1] <= Minutes
             /\ KeptUntil(w, f, d, late0) \in Int /\ 0 <= KeptUntil(w, f, d, late0)
    <2>1. PICK a, b : WorksOn(w, d, f, a, b)
        BY FittersWork
    <2>2. KeptUntil(w, f, d, late0) \in Int /\ FitterHours(w, f, d)[2] <= KeptUntil(w, f, d, late0)
        BY <2>1, KeptMeansLater
    <2>3. PICK h : h = FitterHours(w, f, d)
        OBVIOUS
    <2>4. h[1] \in Nat /\ h[2] \in Nat /\ h[1] < h[2] /\ h[2] <= b /\ b \in Nat /\ b <= Minutes
        BY <2>1, <2>3 DEF WorksOn, FreeHours
    <2> QED
        BY <2>2, <2>3, <2>4, HoursConstants
<1>6. PICK top \in Int : van[1] <= top /\ Minutes <= top
    <2>1. CASE van[1] <= Minutes
        BY <1>2, <2>1, HoursConstants
    <2>2. CASE ~(van[1] <= Minutes)
        BY <1>2, <2>2, HoursConstants
    <2> QED
        BY <2>1, <2>2
<1>7. PICK low \in Int : low = Earlier(van[2], 0) /\ low <= van[2] /\ low <= 0
    BY <1>2 DEF Earlier
<1>8. S \in SUBSET Int /\ S # {} /\ \A y \in S : y <= top
    BY <1>2, <1>3, <1>5, <1>6, HoursConstants
<1>9. E \in SUBSET Int /\ E # {} /\ \A y \in E : low <= y
    BY <1>2, <1>4, <1>5, <1>7
<1>10. Max(S) \in Int /\ \A y \in S : y <= Max(S)
    BY <1>8, MaxMeans
<1>11. Min(E) \in Int /\ \A y \in E : Min(E) <= y
    BY <1>9, MinMeans
<1>12. PICK hours : hours = CrewHours(w, d, v, crew, late0)
    OBVIOUS
<1>13. hours = <<Max(S), Min(E)>>
    BY <1>1, <1>3, <1>4, <1>12 DEF CrewHours
<1>14. hours[1] = Max(S) /\ hours[2] = Min(E)
    BY <1>13
<1>15. van[1] <= hours[1] /\ hours[2] <= van[2]
    BY <1>3, <1>4, <1>10, <1>11, <1>14
<1>16. \A f \in crew : FitterHours(w, f, d)[1] <= hours[1] /\ hours[2] <= KeptUntil(w, f, d, late0)
    BY <1>3, <1>4, <1>10, <1>11, <1>14
<1> QED
    BY <1>1, <1>10, <1>11, <1>12, <1>14, <1>15, <1>16 DEF HoursBound

-----------------------------------------------------------------------------
(* What the matrix says of the road.                                       *)

LEMMA OneBand ==
    ASSUME NEW t \in 0..Minutes - 1, NEW i \in DOMAIN Bands, Bands[i].from <= t, t < Bands[i].until
    PROVE  BandAt(t) = i
<1>1. t \in Int /\ t % Minutes = t
    BY HoursConstants
<1>2. PICK k \in DOMAIN Bands : k = BandAt(t) /\ Bands[k].from <= t /\ t < Bands[k].until
    BY <1>1, BandMeans
<1>3. PICK a, b, c, e \in Int : a = Bands[i].from /\ b = Bands[i].until /\ c = Bands[k].from /\ e = Bands[k].until
    BY BandsTyped
<1>4. ~(i < k)
    <2>1. i < k => Bands[i].until <= Bands[k].from
        BY <1>2, RoadsConstants
    <2> QED
        BY <1>1, <1>2, <1>3, <2>1
<1>5. ~(k < i)
    <2>1. k < i => Bands[k].until <= Bands[i].from
        BY <1>2, RoadsConstants
    <2> QED
        BY <1>1, <1>2, <1>3, <2>1
<1> QED
    BY <1>2, <1>4, <1>5, BandsTyped

\* The band that a first crew leaves in is sampled.
LEMMA ProbesMean ==
    ASSUME NEW w, NEW days, IsWorld(w, days), NEW d \in days, d \in Int, NEW late0, FittersOn(w, d) # {},
           NEW probes, probes = Probes(w, d, late0)
    PROVE  /\ probes \in SUBSET (0..Minutes - 1) /\ probes # {} /\ IsFiniteSet(probes)
           /\ \A f \in FittersOn(w, d), t \in 0..Minutes - 1 :
                FitterHours(w, f, d)[1] <= t =>
                   Bands[BandAt(t)].probe \in probes \/ \E p \in probes : p <= t
<1>1. PICK S : S = {FitterHours(w, f, d)[1] : f \in FittersOn(w, d)}
    OBVIOUS
<1>2. PICK E : E = {FitterHours(w, f, d)[2] : f \in FittersOn(w, d)}
    OBVIOUS
<1>3. ASSUME NEW f \in FittersOn(w, d)
      PROVE  /\ FitterHours(w, f, d)[1] \in Nat /\ FitterHours(w, f, d)[2] \in Nat
             /\ FitterHours(w, f, d)[1] < FitterHours(w, f, d)[2] /\ FitterHours(w, f, d)[2] <= Minutes
    <2>1. PICK a, b : WorksOn(w, d, f, a, b)
        BY FittersWork
    <2>2. PICK h : h = FitterHours(w, f, d)
        OBVIOUS
    <2>3. h[1] \in Nat /\ h[2] \in Nat /\ h[1] < h[2] /\ h[2] <= b /\ b \in Nat /\ b <= Minutes
        BY <2>1, <2>2 DEF WorksOn, FreeHours
    <2> QED
        BY <2>2, <2>3, HoursConstants
<1>4. PICK f0 \in FittersOn(w, d) : TRUE
    OBVIOUS
<1>5. S \in SUBSET Int /\ S # {} /\ \A y \in S : 0 <= y
    BY <1>1, <1>3, <1>4
<1>6. PICK lo \in Int : lo = Min(S) /\ lo \in S /\ \A y \in S : lo <= y
    <2>1. 0 \in Int
        OBVIOUS
    <2>2. Min(S) \in S /\ Min(S) \in Int /\ \A y \in S : Min(S) <= y
        BY <1>5, <2>1, MinMeans
    <2> QED
        BY <2>2
<1>7. E \in SUBSET Int /\ E # {} /\ Minutes \in Int /\ \A y \in E : y <= Minutes
    BY <1>2, <1>3, <1>4, HoursConstants
<1>8. PICK top \in Int : top = Max(E) /\ \A y \in E : y <= top
    BY <1>7, MaxMeans
<1>9. PICK extra \in Nat : extra = IF late0 THEN Overtime ELSE 0
    BY DayPlanConstants
<1>10. PICK hi \in Int : hi = top + extra
    OBVIOUS
<1>11. probes = ProbeTimes(lo, hi)
    BY <1>1, <1>2, <1>6, <1>8, <1>9, <1>10 DEF Probes
<1>12. lo \in 0..Minutes - 1 /\ lo < hi
    <2>1. PICK f \in FittersOn(w, d) : lo = FitterHours(w, f, d)[1]
        BY <1>1, <1>6
    <2>2. PICK e \in Nat : e = FitterHours(w, f, d)[2] /\ lo \in Nat /\ lo < e /\ e <= Minutes
        BY <1>3, <2>1
    <2>3. e <= top
        BY <1>2, <1>8, <2>2
    <2> QED
        BY <1>9, <1>10, <2>2, <2>3, HoursConstants
<1>13. PICK i \in DOMAIN Bands : Bands[i].from <= lo /\ lo < Bands[i].until
    BY <1>12, RoadsConstants
<1>14. PICK b, c \in Int : b = Bands[i].from /\ c = Bands[i].until
    BY BandsTyped
<1>15. \A p : p \in probes <=> \E k \in DOMAIN Bands :
                p = Bands[k].probe /\ lo < Bands[k].until /\ Bands[k].from < hi
    BY <1>11 DEF ProbeTimes
<1>16. PICK p \in 0..Minutes - 1 : p = Bands[i].probe
    BY BandsTyped
<1>17. p \in probes
    BY <1>12, <1>13, <1>14, <1>15, <1>16
<1>18. probes \in SUBSET (0..Minutes - 1)
    BY <1>15, BandsTyped
<1>19. ASSUME NEW f \in FittersOn(w, d), NEW t \in 0..Minutes - 1, FitterHours(w, f, d)[1] <= t
       PROVE  Bands[BandAt(t)].probe \in probes \/ \E q \in probes : q <= t
    <2>1. CASE p <= t
        BY <1>17, <2>1
    <2>2. CASE t < p
        <3>0. PICK x \in Int : x = FitterHours(w, f, d)[1]
            BY <1>3
        <3>1. x \in Int /\ x = FitterHours(w, f, d)[1] /\ lo <= x
            BY <1>1, <1>6, <3>0
        <3>2. p < Bands[i].until
            BY <1>16, RoadsConstants
        <3>3. Bands[i].from <= t /\ t < Bands[i].until
            BY <1>13, <1>14, <1>19, <2>2, <3>1, <3>2
        <3>4. BandAt(t) = i
            BY <3>3, OneBand
        <3> QED
            BY <1>16, <1>17, <3>4
    <2> QED
        BY <2>1, <2>2
<1>20. IsFiniteSet(probes)
    <2>1. IsFiniteSet(0..Minutes - 1)
        BY HoursConstants, FS_Interval
    <2> QED
        BY <1>18, <2>1, FS_Subset
<1> QED
    BY <1>17, <1>18, <1>19, <1>20

\* Whoever leaves later drives no longer.
LEMMA LaterIsNoLonger ==
    ASSUME NEW w, RoadOK(w), NEW d \in Int, RoadEases(w, d), NEW o, NEW p,
           NEW s \in 0..Minutes - 1, NEW t \in 0..Minutes - 1, s <= t
    PROVE  Leg(w.delays, o, p, d, t) <= Leg(w.delays, o, p, d, s)
<1>1. \A i, k \in DOMAIN Bands : i <= k => Bands[k].leg <= Bands[i].leg
    BY DEF RoadEases
<1>2. PICK y \in Int : y = (d - 1) * Minutes
    BY HoursConstants
<1>3. ASSUME NEW x \in w.delays, InForce(x, o, p, y + t) PROVE InForce(x, o, p, y + s)
    <2>1. x.from - y <= 0 \/ Minutes <= x.from - y
        BY <1>2 DEF RoadEases, Clock
    <2>2. x.from \in Int /\ x.until \in Int
        BY DEF RoadOK, IsDelay
    <2>3. x.from <= y + t /\ y + t < x.until
        BY <1>3 DEF InForce
    <2>4. x.from <= y + s /\ y + s < x.until
        BY <2>1, <2>2, <2>3, HoursConstants
    <2> QED
        BY <1>3, <2>4 DEF InForce
<1>4. \A x \in w.delays : InForce(x, o, p, (d - 1) * Minutes + t) => InForce(x, o, p, (d - 1) * Minutes + s)
    BY <1>2, <1>3
<1>5. IsFiniteSet(w.delays) /\ \A x \in w.delays : IsDelay(x)
    BY DEF RoadOK
<1> QED
    BY <1>1, <1>4, <1>5, LegEases

LEMMA SampledIsNoShorter ==
    ASSUME NEW w, RoadOK(w), NEW d \in Int, RoadEases(w, d), NEW o, NEW p, NEW t \in 0..Minutes - 1
    PROVE  /\ Bands[BandAt(t)].probe \in 0..Minutes - 1
           /\ Leg(w.delays, o, p, d, t) <= Leg(w.delays, o, p, d, Bands[BandAt(t)].probe)
<1>1. \A i, k \in DOMAIN Bands : i <= k => Bands[k].leg <= Bands[i].leg
    BY DEF RoadEases
<1>2. t \in Int /\ t % Minutes = t
    BY HoursConstants
<1>3. PICK i \in DOMAIN Bands : i = BandAt(t)
    BY <1>2, BandMeans
<1>4. PICK q \in 0..Minutes - 1 : q = Bands[i].probe
    BY BandsTyped
<1>5. BandAt(q) = i
    <2>1. Bands[i].from <= q /\ q < Bands[i].until
        BY <1>4, RoadsConstants
    <2> QED
        BY <2>1, OneBand
<1>6. \A x \in w.delays : InForce(x, o, p, (d - 1) * Minutes + t) => InForce(x, o, p, (d - 1) * Minutes + q)
    BY <1>3, <1>4 DEF RoadEases, InForce
<1>7. IsFiniteSet(w.delays) /\ \A x \in w.delays : IsDelay(x)
    BY DEF RoadOK
<1>8. q <= t \/ BandAt(q) = BandAt(t)
    BY <1>3, <1>5
<1>9. Leg(w.delays, o, p, d, t) <= Leg(w.delays, o, p, d, q)
    BY <1>1, <1>6, <1>7, <1>8, LegEases
<1> QED
    BY <1>3, <1>4, <1>9

\* No drive of the day is longer than its entry of the matrix.
Worst(w, d, late0, o, p) == WorstLeg(w.delays, o, p, d, Probes(w, d, late0))

LEMMA WorstMeans ==
    ASSUME NEW w, NEW days, IsWorld(w, days), NEW d \in days, d \in Int, NEW late0, FittersOn(w, d) # {},
           NEW o, NEW p
    PROVE  /\ Worst(w, d, late0, o, p) \in Nat
           /\ \A t \in Probes(w, d, late0) : Leg(w.delays, o, p, d, t) <= Worst(w, d, late0, o, p)
<1>1. PICK probes : probes = Probes(w, d, late0)
    OBVIOUS
<1>2. probes \in SUBSET (0..Minutes - 1) /\ probes # {} /\ IsFiniteSet(probes)
    BY <1>1, ProbesMean
<1>3. IsFiniteSet(w.delays) /\ \A x \in w.delays : IsDelay(x)
    BY DEF IsWorld
<1>4. \A t \in probes : t \in Int
    BY <1>2, HoursConstants
<1>5. \A t \in probes : Leg(w.delays, o, p, d, t) \in Nat
    BY <1>3, <1>4, LegTyped
<1>6. PICK T : T = {Leg(w.delays, o, p, d, t) : t \in probes}
    OBVIOUS
<1>7. T \in SUBSET Nat /\ T # {}
    BY <1>2, <1>5, <1>6
<1>8. PICK b \in Int : \A y \in T : y <= b
    <2>1. PICK legs : legs = [i \in 1..Minutes |-> Leg(w.delays, o, p, d, i - 1)]
        OBVIOUS
    <2>2. \A i \in 1..Minutes : i - 1 \in Int
        BY HoursConstants
    <2>3. \A i \in 1..Minutes : Leg(w.delays, o, p, d, i - 1) \in Nat
        BY <1>3, <2>2, LegTyped
    <2>4. legs \in [1..Minutes -> Nat] /\ Minutes \in Nat
        BY <2>1, <2>3, HoursConstants
    <2>5. PICK b \in Nat : \A i \in 1..Minutes : legs[i] <= b
        BY <2>4, ValuesAreBounded
    <2>6. \A t \in probes : t + 1 \in 1..Minutes /\ (t + 1) - 1 = t
        BY <1>2, HoursConstants
    <2>7. \A t \in probes : legs[t + 1] = Leg(w.delays, o, p, d, t)
        BY <2>1, <2>6
    <2>8. \A y \in T : y <= b
        BY <1>6, <2>5, <2>6, <2>7
    <2> QED
        BY <2>5, <2>8
<1>9. T \in SUBSET Int
    BY <1>7
<1>10. Max(T) \in T /\ \A y \in T : y <= Max(T)
    BY <1>7, <1>8, <1>9, MaxMeans
<1>11. Worst(w, d, late0, o, p) = Max(T)
    BY <1>1, <1>6 DEF Worst, WorstLeg
<1> QED
    BY <1>1, <1>6, <1>7, <1>10, <1>11

LEMMA MatrixIsWorst ==
    ASSUME NEW w, NEW days, IsWorld(w, days), NEW d \in days, d \in Int, RoadEases(w, d), NEW late0,
           NEW f \in FittersOn(w, d), NEW t \in 0..Minutes - 1, FitterHours(w, f, d)[1] <= t, NEW o, NEW p
    PROVE  Leg(w.delays, o, p, d, t) <= Worst(w, d, late0, o, p)
<1>1. PICK probes : probes = Probes(w, d, late0)
    OBVIOUS
<1>2. FittersOn(w, d) # {}
    OBVIOUS
<1>3. /\ probes \in SUBSET (0..Minutes - 1)
      /\ Bands[BandAt(t)].probe \in probes \/ \E q \in probes : q <= t
    BY <1>1, <1>2, ProbesMean
<1>4. /\ Worst(w, d, late0, o, p) \in Nat
      /\ \A q \in probes : Leg(w.delays, o, p, d, q) <= Worst(w, d, late0, o, p)
    BY <1>1, <1>2, WorstMeans
<1>5. RoadOK(w)
    BY DEF IsWorld, RoadOK
<1>6. \A q \in 0..Minutes - 1 : Leg(w.delays, o, p, d, q) \in Nat
    <2> SUFFICES ASSUME NEW q \in 0..Minutes - 1 PROVE Leg(w.delays, o, p, d, q) \in Nat
        OBVIOUS
    <2>1. q \in Int
        BY HoursConstants
    <2> QED
        BY <1>5, <2>1, LegTyped DEF RoadOK
<1>7. CASE Bands[BandAt(t)].probe \in probes
    <2>1. PICK q \in 0..Minutes - 1 : q = Bands[BandAt(t)].probe /\ q \in probes
        BY <1>3, <1>7
    <2>2. Leg(w.delays, o, p, d, t) <= Leg(w.delays, o, p, d, q)
        BY <1>5, <2>1, SampledIsNoShorter
    <2>3. Leg(w.delays, o, p, d, q) <= Worst(w, d, late0, o, p)
        BY <1>4, <2>1
    <2> QED
        BY <1>4, <1>6, <2>2, <2>3
<1>8. CASE \E q \in probes : q <= t
    <2>1. PICK q \in 0..Minutes - 1 : q <= t /\ q \in probes
        BY <1>3, <1>8
    <2>2. Leg(w.delays, o, p, d, t) <= Leg(w.delays, o, p, d, q)
        BY <1>5, <2>1, LaterIsNoLonger
    <2>3. Leg(w.delays, o, p, d, q) <= Worst(w, d, late0, o, p)
        BY <1>4, <2>1
    <2> QED
        BY <1>4, <1>6, <2>2, <2>3
<1> QED
    BY <1>3, <1>7, <1>8

-----------------------------------------------------------------------------
(* The reasons given.                                                      *)

\* The reason given is one whose condition holds.
Explained(w, d, j, why) ==
    LET job == w.jobs[j]
    IN /\ why = "no_certified_worker" => Certified(w, d, job) = {}
       /\ why = "crew_size_unavailable" => job.crew > Cardinality(Certified(w, d, job))
       /\ why = "hard_window_unreachable" => HardWindowOutOfReach(w, d, job) \/ PromiseOutOfReach(w, d, job)
       /\ why = "van_capacity_exceeded" =>
             \E g \in Goods : \A v \in DOMAIN w.vans : w.vans[v].room[g] < job.load[g]

LEMMA DiagnoseMeans ==
    ASSUME NEW w, NEW d, NEW j
    PROVE  Explained(w, d, j, Diagnose(w, d, j))
<1>1. PICK job : job = w.jobs[j]
    OBVIOUS
<1> DEFINE A1 == ~TouchesDay(job, d)
           A2 == Certified(w, d, job) = {}
           A3 == job.crew > Cardinality(Certified(w, d, job))
           A4 == job.ready > d
           A5 == HardWindowOutOfReach(w, d, job) \/ PromiseOutOfReach(w, d, job)
           A6 == \E g \in Goods \ {"panes"} : \A v \in DOMAIN w.vans : w.vans[v].room[g] < job.load[g]
           why == <<<<A1, "window_on_another_day">>, <<A2, "no_certified_worker">>,
                    <<A3, "crew_size_unavailable">>, <<A4, "materials_not_available">>,
                    <<A5, "hard_window_unreachable">>, <<A6, "van_capacity_exceeded">>,
                    <<TRUE, "no_capacity_in_horizon">>>>
           I == {i \in DOMAIN why : why[i][1]}
<1>2. Diagnose(w, d, j) = why[Min(I)][2]
    BY <1>1 DEF Diagnose
<1>3. A6 => \E g \in Goods : \A v \in DOMAIN w.vans : w.vans[v].room[g] < job.load[g]
    OBVIOUS
<1> HIDE DEF A1, A2, A3, A4, A5, A6
<1>4. DOMAIN why = 1..7
    OBVIOUS
<1>5. why[7][1]
    OBVIOUS
<1>9. /\ why[1][2] = "window_on_another_day" /\ why[2][2] = "no_certified_worker"
      /\ why[3][2] = "crew_size_unavailable" /\ why[4][2] = "materials_not_available"
      /\ why[5][2] = "hard_window_unreachable" /\ why[6][2] = "van_capacity_exceeded"
      /\ why[7][2] = "no_capacity_in_horizon"
    OBVIOUS
<1>10. why[2][1] = A2 /\ why[3][1] = A3 /\ why[5][1] = A5 /\ why[6][1] = A6
    OBVIOUS
<1> HIDE DEF why
<1>6. Min(I) \in I
    <2>1. I \in SUBSET Int /\ I # {} /\ \A i \in I : 0 <= i
        BY <1>4, <1>5
    <2>2. 0 \in Int
        OBVIOUS
    <2> HIDE DEF I
    <2> QED
        BY <2>1, <2>2, MinMeans
<1>7. PICK i \in 1..7 : i = Min(I) /\ why[i][1]
    BY <1>4, <1>6
<1>8. i = 1 \/ i = 2 \/ i = 3 \/ i = 4 \/ i = 5 \/ i = 6 \/ i = 7
    OBVIOUS
<1>11. Diagnose(w, d, j) = why[i][2]
    BY <1>2, <1>7
<1>12. /\ Diagnose(w, d, j) = "no_certified_worker" => A2
       /\ Diagnose(w, d, j) = "crew_size_unavailable" => A3
       /\ Diagnose(w, d, j) = "hard_window_unreachable" => A5
       /\ Diagnose(w, d, j) = "van_capacity_exceeded" => A6
    BY <1>7, <1>8, <1>9, <1>10, <1>11
<1> QED
    BY <1>1, <1>3, <1>12 DEF Explained, A2, A3, A5

\* Nothing is left over without a reason, and the first four are a diagnosis.
LEMMA LeftOverMeans ==
    ASSUME NEW w, NEW d, NEW today, NEW served, NEW left0, left0 = LeftOver(w, d, today, served),
           NEW j \in DOMAIN left0,
           left0[j] \in {"no_certified_worker", "crew_size_unavailable",
                        "hard_window_unreachable", "van_capacity_exceeded"}
    PROVE  j \in DOMAIN w.jobs /\ Explained(w, d, j, left0[j])
<1>1. /\ j \in DOMAIN w.jobs
      /\ left0[j] = IF j \in Candidates(w, d, today) THEN Diagnose(w, d, j) ELSE NotToday(w, d, j)
    BY DEF LeftOver
<1>2. NotToday(w, d, j) \in {"materials_not_available", "window_on_another_day"}
    BY DEF NotToday
<1>3. left0[j] = Diagnose(w, d, j)
    BY <1>1, <1>2
<1> QED
    BY <1>1, <1>3, DiagnoseMeans

LEMMA PlanDayExplains ==
    ASSUME NEW w, NEW d, NEW today, NEW must, NEW late0, NEW result \in PlanDay(w, d, today, must, late0),
           NEW j \in DOMAIN result.unserved,
           result.unserved[j] \in {"no_certified_worker", "crew_size_unavailable",
                                  "hard_window_unreachable", "van_capacity_exceeded"}
    PROVE  j \in DOMAIN w.jobs /\ Explained(w, d, j, result.unserved[j])
<1>1. \E served : result.unserved = LeftOver(w, d, today, served)
    BY PlanDayCases DEF Outcome, NothingPlanned
<1> QED
    BY <1>1, LeftOverMeans

\* A run of one job goes to it within the crew's hours.
LEMMA OneStop ==
    ASSUME NEW j, NEW q \in Orders({j})
    PROVE  q = <<j>> /\ ToSet(q) = {j}
<1>1. IsFiniteSet({j})
    BY FS_Singleton
<1>2. PICK n \in Nat \ {0} : /\ DOMAIN q = 1..n /\ q \in [1..n -> {j}]
                             /\ \A i, k \in 1..n : q[i] = q[k] => i = k
    BY <1>1, OrdersMean
<1>3. n = 1
    <2>1. 1 \in 1..n /\ n \in 1..n
        BY <1>2
    <2>2. q[1] = q[n]
        BY <1>2, <2>1
    <2> QED
        BY <1>2, <2>1, <2>2
<1>4. q \in [1..1 -> {j}]
    BY <1>2, <1>3
<1>5. q = <<j>>
    BY <1>4
<1> QED
    BY <1>5 DEF ToSet

AloneOn(w, d, v, j, late0, crew) ==
    LET hours == CrewHours(w, d, v, crew, late0)
    IN /\ crew \in SUBSET FittersOn(w, d) /\ Cardinality(crew) \in 1..2
       /\ CanServe(w, d, v, crew, {j})
       /\ \E s \in 0..Minutes :
            /\ hours[1] <= s /\ s + w.jobs[j].dur <= hours[2]
            /\ (~Confirmed(w.jobs[j]) /\ w.jobs[j].windows # <<>>) => WindowAllows(w.jobs[j], d, s)

LEMMA RunsAlone ==
    ASSUME NEW w, NEW days, IsWorld(w, days), NEW d \in days, d \in Int, NEW v \in VansOn(w, d),
           NEW j \in DOMAIN w.jobs, NEW late0, NEW r \in Runs(w, d, v, {j}, late0)
    PROVE  AloneOn(w, d, v, j, late0, r.crew)
<1>1. PICK hours : hours = CrewHours(w, d, v, r.crew, late0)
    OBVIOUS
<1>2. /\ r.crew \in SUBSET FittersOn(w, d) /\ Cardinality(r.crew) \in 1..2
      /\ r.stops \in Orders({j}) /\ r.depart \in 0..Minutes
      /\ r.loose \in SUBSET {x \in {j} : Confirmed(w.jobs[x])}
      /\ CanServe(w, d, v, r.crew, ToSet(r.stops)) /\ hours[1] <= r.depart
      /\ Timetable(w, d, hours, r.stops, r.depart, r.loose, Probes(w, d, late0))
    BY <1>1 DEF Runs
<1>3. r.stops = <<j>> /\ ToSet(r.stops) = {j}
    BY <1>2, OneStop
<1>4. PICK start \in [1..1 -> 0..Minutes] :
        /\ r.depart + Worst(w, d, late0, Place(w, <<j>>, 0), Place(w, <<j>>, 1)) <= start[1]
        /\ j \in r.loose \/ w.jobs[j].windows = <<>> \/ WindowAllows(w.jobs[j], d, start[1])
        /\ start[1] + w.jobs[j].dur + Worst(w, d, late0, Place(w, <<j>>, 1), Place(w, <<j>>, 2)) <= hours[2]
    <2>1. DOMAIN <<j>> = 1..1 /\ Len(<<j>>) = 1 /\ <<j>>[1] = j /\ 1 \in 1..1 /\ 1 - 1 = 0 /\ 1 + 1 = 2
        OBVIOUS
    <2>2. Timetable(w, d, hours, <<j>>, r.depart, r.loose, Probes(w, d, late0))
        BY <1>2, <1>3
    <2> QED
        BY <2>1, <2>2 DEF Timetable, Worst
<1>5. FittersOn(w, d) # {}
    <2>1. r.crew # {}
        BY <1>2, FS_EmptySet
    <2> QED
        BY <1>2, <2>1
<1>6. PICK out \in Nat : out = Worst(w, d, late0, Place(w, <<j>>, 0), Place(w, <<j>>, 1))
    BY <1>5, WorstMeans
<1>7. PICK back \in Nat : back = Worst(w, d, late0, Place(w, <<j>>, 1), Place(w, <<j>>, 2))
    BY <1>5, WorstMeans
<1>8. hours[1] \in Int /\ hours[2] \in Int
    BY <1>1, <1>2, CrewHoursMean DEF HoursBound
<1>9. PICK s \in 0..Minutes : s = start[1]
    BY <1>4
<1>10. IsJob(w.jobs[j])
    BY DEF IsWorld
<1>11. PICK dur \in Nat : dur = w.jobs[j].dur
    BY <1>10 DEF IsJob
<1>12. hours[1] <= s /\ s + w.jobs[j].dur <= hours[2]
    <2>1. PICK depart \in Nat : depart = r.depart
        BY <1>2, HoursConstants
    <2>2. depart + out <= s /\ s + dur + back <= hours[2] /\ hours[1] <= depart /\ s \in Nat
        BY <1>2, <1>4, <1>6, <1>7, <1>9, <1>11, <2>1, HoursConstants
    <2>3. hours[1] <= s /\ s + dur <= hours[2]
        BY <1>8, <2>2
    <2> QED
        BY <1>11, <2>3
<1>13. (~Confirmed(w.jobs[j]) /\ w.jobs[j].windows # <<>>) => WindowAllows(w.jobs[j], d, s)
    BY <1>2, <1>4, <1>9
<1> QED
    BY <1>1, <1>2, <1>3, <1>12, <1>13 DEF AloneOn

\* What a van takes is a sum over the jobs.
Loads(w, g) == [j \in DOMAIN w.jobs |-> w.jobs[j].load[g]]

LEMMA LoadMeans ==
    ASSUME NEW w, NEW days, IsWorld(w, days), NEW js \in SUBSET DOMAIN w.jobs, NEW g \in Goods
    PROVE  Load(w, js, g) = SumOver(Loads(w, g), js) /\ IsFiniteSet(js) /\ Counts(Loads(w, g), js)
<1> DEFINE Folds(iter) == iter = [s \in SUBSET js |->
               IF s = {} THEN 0
               ELSE w.jobs[CHOOSE x \in s : TRUE].load[g] + iter[s \ {CHOOSE x \in s : TRUE}]]
           fold == CHOOSE iter : Folds(iter)
<1>1. Load(w, js, g) = fold[js]
    BY DEF Load, MapThenSumSet, MapThenFoldSet
<1>2. IsFiniteSet(js)
    BY FS_Subset DEF IsWorld
<1>3. Counts(Loads(w, g), js)
    <2> SUFFICES ASSUME NEW j \in js PROVE Loads(w, g)[j] \in Nat
        BY DEF Counts
    <2>1. IsJob(w.jobs[j])
        BY DEF IsWorld
    <2> QED
        BY <2>1 DEF Loads, IsJob
<1>4. ASSUME NEW s \in SUBSET js, s # {}
      PROVE  /\ First(s) = (CHOOSE x \in s : TRUE)
             /\ Loads(w, g)[First(s)] = w.jobs[CHOOSE x \in s : TRUE].load[g]
    <2>1. First(s) \in DOMAIN w.jobs
        BY <1>2, <1>4, FirstOut
    <2>2. First(s) = (CHOOSE x \in s : TRUE)
        BY DEF First
    <2>3. Loads(w, g)[First(s)] = w.jobs[First(s)].load[g]
        BY <2>1 DEF Loads
    <2> QED
        BY <2>2, <2>3
<1>5. PICK iter : Sums(iter, Loads(w, g), js)
    BY <1>2, <1>3, SumsExist
<1>6. ASSUME NEW it, Sums(it, Loads(w, g), js) PROVE Folds(it)
    BY <1>4, <1>6 DEF Sums
<1>7. ASSUME NEW it, Folds(it) PROVE Sums(it, Loads(w, g), js)
    <2>1. ASSUME NEW s \in SUBSET js
          PROVE  it[s] = IF s = {} THEN 0 ELSE Loads(w, g)[First(s)] + it[s \ {First(s)}]
        <3>1. it[s] = IF s = {} THEN 0
                      ELSE w.jobs[CHOOSE x \in s : TRUE].load[g] + it[s \ {CHOOSE x \in s : TRUE}]
            BY <1>7
        <3>2. CASE s = {}
            BY <3>1, <3>2
        <3>3. CASE s # {}
            BY <1>4, <3>1, <3>3
        <3> QED
            BY <3>2, <3>3
    <2>2. it = [s \in SUBSET js |-> it[s]]
        BY <1>7
    <2> QED
        BY <2>1, <2>2 DEF Sums
<1>8. Folds(fold)
    <2> HIDE DEF Folds
    <2> QED
        BY <1>5, <1>6
<1> HIDE DEF Folds, fold
<1>9. fold[js] = SumOver(Loads(w, g), js)
    BY <1>2, <1>3, <1>7, <1>8, SumIs
<1> QED
    BY <1>1, <1>2, <1>3, <1>9

LEMMA SumOfOne ==
    ASSUME NEW f, NEW x, f[x] \in Nat
    PROVE  SumOver(f, {x}) = f[x]
<1>1. IsFiniteSet({x}) /\ Counts(f, {x}) /\ {x} \ {x} = {} /\ x \in {x}
    BY FS_Singleton DEF Counts
<1>2. SumOver(f, {x}) = f[x] + SumOver(f, {x} \ {x})
    BY <1>1, SumRemove
<1> QED
    BY <1>1, <1>2, SumEmpty

-----------------------------------------------------------------------------
(* What the checker asks, route by route.                                  *)

Knows(u, r) ==
    /\ r.crew \subseteq DOMAIN u.fitters /\ r.van \in DOMAIN u.vans
    /\ \A i \in DOMAIN r.stops : r.stops[i].job \in DOMAIN u.jobs

Skilled(u, r, i) ==
    LET job == u.jobs[r.stops[i].job]
    IN /\ job.certs \subseteq UNION {u.fitters[f].certs : f \in r.crew}
       /\ ~(Cardinality(r.crew) < job.crew) /\ ~(r.day < job.ready)

\* When, and from where, the leg to stop i is driven.
Leaves(r, i) == IF i = 1 THEN r.stops[i].arrive - r.stops[i].travel ELSE r.stops[i - 1].leave
Origin(u, r, i) == IF i = 1 THEN Depot ELSE u.jobs[r.stops[i - 1].job].at

Strays(u, r, i) ==
    LET s == r.stops[i]
        job == u.jobs[s.job]
    IN \/ s.arrive < Leaves(r, i)
       \/ s.arrive < Leaves(r, i) + Leg(u.delays, Origin(u, r, i), job.at, r.day, Leaves(r, i))
       \/ s.leave - s.arrive < job.dur

Windowed(u, r, i) ==
    LET s == r.stops[i]
        job == u.jobs[s.job]
    IN job.windows # <<>> => MatchesWindow(job, s, r.day, FALSE) /\ ~(s.arrive < Clock(r.day, job.requested))

Worked(u, late0, r, f) ==
    LET fitter == u.fitters[f]
        shift == fitter.shift[r.day]
    IN /\ shift # <<>> /\ ~(Span(r)[1] % Minutes < shift[1])
       /\ ~(Span(r)[2] % Minutes > shift[2] /\ ~(late0 /\ fitter.eligible))
       /\ ~Out(fitter.outages, r.day, Span(r))

Carries(u, r, g) == MapThenSumSet(LAMBDA i : u.jobs[r.stops[i].job].load[g], DOMAIN r.stops)

Loaded(u, r) == \A g \in Goods : ~(Carries(u, r, g) > u.vans[r.van].room[g])

\* All but the outages of the van.
Sound(u, late0, r) ==
    /\ Knows(u, r) /\ Loaded(u, r)
    /\ \A i \in DOMAIN r.stops : Skilled(u, r, i) /\ ~Strays(u, r, i) /\ Windowed(u, r, i)
    /\ r.stops # <<>> => \A f \in r.crew : Worked(u, late0, r, f)

VanFree(u, r) == r.stops # <<>> => ~Out(u.vans[r.van].outages, r.day, Span(r))

Apart(a, b) ==
    a # b /\ a.day = b.day /\ Overlap(Span(a), Span(b)) => a.crew \cap b.crew = {} /\ a.van # b.van

Exclusive(routes) == \A a, b \in routes : Apart(a, b)

LEMMA StopsMean ==
    ASSUME NEW r
    PROVE  \A s : s \in ToSet(r.stops) <=> \E i \in DOMAIN r.stops : s = r.stops[i]
BY DEF ToSet

\* Routes that are sound, in vans that are free, and apart pass the check.
LEMMA CleanMeans ==
    ASSUME NEW u, NEW late0, NEW routes, RoutesOK(routes), Exclusive(routes),
           \A r \in routes : Sound(u, late0, r) /\ VanFree(u, r)
    PROVE  Violations(routes, u, {}, late0) = {}
<1>1. References(routes, u) = {}
    <2> SUFFICES ASSUME NEW r \in routes
                 PROVE  ~(\/ ~(r.crew \subseteq DOMAIN u.fitters)
                          \/ r.van \notin DOMAIN u.vans
                          \/ \E s \in ToSet(r.stops) : s.job \notin DOMAIN u.jobs)
        BY DEF References
    <2>1. Knows(u, r)
        BY DEF Sound
    <2>2. \A s \in ToSet(r.stops) : \E i \in DOMAIN r.stops : s = r.stops[i]
        BY StopsMean
    <2> QED
        BY <2>1, <2>2 DEF Knows
<1>2. Duplicates(routes) = {}
    <2> SUFFICES ASSUME NEW p \in UNION {ToSet(r.stops) : r \in routes}
                 PROVE  ~(Cardinality(Uses(routes, p.job)) > 1)
        BY DEF Duplicates
    <2> QED
        BY UsedOnce
<1>3. CrewFitness(routes, u) = {}
    <2> SUFFICES ASSUME NEW r \in routes, NEW p \in ToSet(r.stops)
                 PROVE  /\ u.jobs[p.job].certs \subseteq UNION {u.fitters[f].certs : f \in r.crew}
                        /\ ~(Cardinality(r.crew) < u.jobs[p.job].crew)
        BY DEF CrewFitness
    <2>1. PICK i \in DOMAIN r.stops : p = r.stops[i]
        BY StopsMean
    <2> QED
        BY <2>1 DEF Sound, Skilled
<1>4. Exclusivity(routes) = {}
    BY DEF Exclusivity, Exclusive, Apart
<1>5. ResourceAvailability(routes, u) = {}
    <2> SUFFICES ASSUME NEW r \in routes, r.stops # <<>>
                 PROVE  /\ \A f \in r.crew : ~Out(u.fitters[f].outages, r.day, Span(r))
                        /\ ~Out(u.vans[r.van].outages, r.day, Span(r))
        BY DEF ResourceAvailability
    <2> QED
        BY DEF Sound, Worked, VanFree
<1>6. TravelConsistency(routes, u) = {}
    <2> SUFFICES ASSUME NEW r \in routes, NEW i \in DOMAIN r.stops PROVE ~Strays(u, r, i)
        BY DEF TravelConsistency, Strays, Leaves, Origin
    <2> QED
        BY DEF Sound
<1>7. Windows(routes, u, {}) = {}
    <2> SUFFICES ASSUME NEW r \in routes, NEW s \in ToSet(r.stops), u.jobs[s.job].windows # <<>>
                 PROVE  /\ MatchesWindow(u.jobs[s.job], s, r.day, s.job \in {})
                        /\ ~(s.arrive < Clock(r.day, u.jobs[s.job].requested))
        BY DEF Windows
    <2>1. PICK i \in DOMAIN r.stops : s = r.stops[i]
        BY StopsMean
    <2>2. (s.job \in {}) = FALSE
        OBVIOUS
    <2> QED
        BY <2>1, <2>2 DEF Sound, Windowed
<1>8. WorkingHours(routes, u, late0) = {}
    <2> SUFFICES ASSUME NEW r \in routes, r.stops # <<>>, NEW f \in r.crew PROVE Worked(u, late0, r, f)
        BY DEF WorkingHours, Worked
    <2> QED
        BY DEF Sound
<1>9. VanCapacity(routes, u) = {}
    <2>1. VanCapacity(routes, u) = {<<"van_capacity_exceeded", r.van>> :
              r \in {q \in routes : \E g \in Goods : Carries(u, q, g) > u.vans[q.van].room[g]}}
        BY DEF VanCapacity, Carries
    <2> QED
        BY <2>1 DEF Sound, Loaded
<1>10. Materials(routes, u) = {}
    <2> SUFFICES ASSUME NEW r \in routes, NEW p \in ToSet(r.stops) PROVE ~(r.day < u.jobs[p.job].ready)
        BY DEF Materials
    <2>1. PICK i \in DOMAIN r.stops : p = r.stops[i]
        BY StopsMean
    <2> QED
        BY <2>1 DEF Sound, Skilled
<1> QED
    BY <1>1, <1>2, <1>3, <1>4, <1>5, <1>6, <1>7, <1>8, <1>9, <1>10 DEF Violations

\* What passes the check is sound, and apart.
LEMMA CleanTells ==
    ASSUME NEW u, NEW late0, NEW routes, Violations(routes, u, {}, late0) = {}
    PROVE  Exclusive(routes) /\ \A r \in routes : Sound(u, late0, r)
<1>1. /\ References(routes, u) = {} /\ CrewFitness(routes, u) = {} /\ Exclusivity(routes) = {}
      /\ ResourceAvailability(routes, u) = {} /\ TravelConsistency(routes, u) = {}
      /\ Windows(routes, u, {}) = {} /\ WorkingHours(routes, u, late0) = {}
      /\ VanCapacity(routes, u) = {} /\ Materials(routes, u) = {}
    BY DEF Violations
<1>2. Exclusive(routes)
    <2> SUFFICES ASSUME NEW a \in routes, NEW b \in routes, a # b, a.day = b.day, Overlap(Span(a), Span(b))
                 PROVE  a.crew \cap b.crew = {} /\ a.van # b.van
        BY DEF Exclusive, Apart
    <2>1. <<a, b>> \in {x \in routes \X routes : /\ x[1] # x[2] /\ x[1].day = x[2].day
                                                 /\ Overlap(Span(x[1]), Span(x[2]))}
        OBVIOUS
    <2>2. \A f \in a.crew \cap b.crew : <<"worker_double_booked", f>> \in Exclusivity(routes)
        BY <2>1 DEF Exclusivity
    <2>3. \A v \in {a.van} \cap {b.van} : <<"van_double_booked", v>> \in Exclusivity(routes)
        BY <2>1 DEF Exclusivity
    <2> QED
        BY <1>1, <2>2, <2>3
<1>3. ASSUME NEW r \in routes PROVE Knows(u, r)
    <2>1. <<"unknown_entity_reference", r>> \notin References(routes, u)
        BY <1>1
    <2>2. \A i \in DOMAIN r.stops : r.stops[i] \in ToSet(r.stops)
        BY StopsMean
    <2> QED
        BY <2>1, <2>2 DEF References, Knows
<1>4. ASSUME NEW r \in routes PROVE Loaded(u, r)
    <2>1. VanCapacity(routes, u) = {<<"van_capacity_exceeded", q.van>> :
              q \in {q \in routes : \E g \in Goods : Carries(u, q, g) > u.vans[q.van].room[g]}}
        BY DEF VanCapacity, Carries
    <2>2. r \notin {q \in routes : \E g \in Goods : Carries(u, q, g) > u.vans[q.van].room[g]}
        BY <1>1, <2>1
    <2> QED
        BY <2>2 DEF Loaded
<1>5. ASSUME NEW r \in routes, NEW i \in DOMAIN r.stops
      PROVE  Skilled(u, r, i) /\ ~Strays(u, r, i) /\ Windowed(u, r, i)
    <2>0. PICK s : s = r.stops[i] /\ s \in ToSet(r.stops)
        BY StopsMean
    <2>1. ~Strays(u, r, i)
        <3>1. TravelConsistency(routes, u) =
                  UNION {{<<"travel_time_inconsistent", q.stops[k].job>> : k \in {m \in DOMAIN q.stops : Strays(u, q, m)}} :
                            q \in routes}
            BY DEF TravelConsistency, Strays, Leaves, Origin
        <3>2. {<<"travel_time_inconsistent", r.stops[k].job>> : k \in {m \in DOMAIN r.stops : Strays(u, r, m)}} = {}
            BY <1>1, <3>1
        <3>3. {m \in DOMAIN r.stops : Strays(u, r, m)} = {}
            BY <3>2
        <3> QED
            BY <3>3
    <2>2. Skilled(u, r, i)
        <3>1. u.jobs[s.job].certs \subseteq UNION {u.fitters[f].certs : f \in r.crew}
            <4>1. ~(u.jobs[s.job].certs \subseteq UNION {u.fitters[f].certs : f \in r.crew})
                     => <<"missing_certification", s.job>> \in CrewFitness(routes, u)
                BY <2>0 DEF CrewFitness
            <4> QED
                BY <1>1, <4>1
        <3>2. Cardinality(r.crew) < u.jobs[s.job].crew => <<"crew_size_mismatch", s.job>> \in CrewFitness(routes, u)
            BY <2>0 DEF CrewFitness
        <3>3. r.day < u.jobs[s.job].ready => <<"materials_unavailable", s.job>> \in Materials(routes, u)
            BY <2>0 DEF Materials
        <3> QED
            BY <1>1, <2>0, <3>1, <3>2, <3>3 DEF Skilled
    <2>3. Windowed(u, r, i)
        <3> SUFFICES ASSUME u.jobs[s.job].windows # <<>>
                     PROVE  MatchesWindow(u.jobs[s.job], s, r.day, FALSE)
                            /\ ~(s.arrive < Clock(r.day, u.jobs[s.job].requested))
            BY <2>0 DEF Windowed
        <3>1. (s.job \in {}) = FALSE
            OBVIOUS
        <3>2. s.arrive < Clock(r.day, u.jobs[s.job].requested)
                 => <<"scheduled_before_request", s.job>> \in Windows(routes, u, {})
            BY <2>0 DEF Windows
        <3>3. ASSUME ~MatchesWindow(u.jobs[s.job], s, r.day, s.job \in {}) PROVE Windows(routes, u, {}) # {}
            <4>1. PICK windowed : windowed = {x \in ToSet(r.stops) : u.jobs[x.job].windows # <<>>}
                OBVIOUS
            <4>2. PICK moved : moved = {x \in windowed : ~MatchesWindow(u.jobs[x.job], x, r.day, x.job \in {})}
                OBVIOUS
            <4>3. s \in moved
                BY <2>0, <3>3, <4>1, <4>2
            <4>4. PICK early : early = {x \in windowed : x.arrive < Clock(r.day, u.jobs[x.job].requested)}
                OBVIOUS
            <4>5. PICK told : told = {<<IF u.jobs[x.job].state = "confirmed" THEN "confirmed_window_moved"
                                        ELSE "hard_window_violated", x.job>> : x \in moved}
                                     \cup {<<"scheduled_before_request", x.job>> : x \in early}
                OBVIOUS
            <4>6. told # {}
                BY <4>3, <4>5
            <4>7. told \subseteq Windows(routes, u, {})
                BY <1>5, <4>1, <4>2, <4>4, <4>5 DEF Windows
            <4> QED
                BY <4>6, <4>7
        <3> QED
            BY <1>1, <3>1, <3>2, <3>3
    <2> QED
        BY <2>1, <2>2, <2>3
<1>6. ASSUME NEW r \in routes, r.stops # <<>>, NEW f \in r.crew PROVE Worked(u, late0, r, f)
    <2>1. Out(u.fitters[f].outages, r.day, Span(r)) => <<"worker_unavailable", f>> \in ResourceAvailability(routes, u)
        BY <1>6 DEF ResourceAvailability
    <2>2. ASSUME \/ u.fitters[f].shift[r.day] = <<>> \/ Span(r)[1] % Minutes < u.fitters[f].shift[r.day][1]
                 \/ Span(r)[2] % Minutes > u.fitters[f].shift[r.day][2] /\ ~(late0 /\ u.fitters[f].eligible)
          PROVE  FALSE
        <3>1. PICK outside : outside = {g \in r.crew :
                  \/ u.fitters[g].shift[r.day] = <<>> \/ Span(r)[1] % Minutes < u.fitters[g].shift[r.day][1]
                  \/ Span(r)[2] % Minutes > u.fitters[g].shift[r.day][2] /\ ~(late0 /\ u.fitters[g].eligible)}
            OBVIOUS
        <3>2. f \in outside
            BY <1>6, <2>2, <3>1
        <3>3. {<<"outside_working_hours", g>> : g \in outside} \subseteq WorkingHours(routes, u, late0)
            BY <1>6, <3>1 DEF WorkingHours
        <3> QED
            BY <1>1, <3>2, <3>3
    <2> QED
        BY <1>1, <2>1, <2>2 DEF Worked
<1> QED
    BY <1>2, <1>3, <1>4, <1>5, <1>6 DEF Sound

-----------------------------------------------------------------------------
(* What a run comes to on a day that planner and checker see alike.        *)

\* The minutes at which the solver lets the stops of a run begin.
Timed(w, d, late0, hours, r, start, n) ==
    LET drive(i) == Worst(w, d, late0, Place(w, r.stops, i - 1), Place(w, r.stops, i))
    IN /\ start \in [1..n -> 0..Minutes]
       /\ \A i \in 1..n :
            /\ (IF i = 1 THEN r.depart ELSE start[i - 1] + w.jobs[r.stops[i - 1]].dur) + drive(i) <= start[i]
            /\ w.jobs[r.stops[i]].windows = <<>> \/ WindowAllows(w.jobs[r.stops[i]], d, start[i])
       /\ start[n] + w.jobs[r.stops[n]].dur + drive(n + 1) <= hours[2]

\* A run of van v, the route it becomes, and the solver's minutes for it.
Runner(w, days, d, late0, v, js, r, route, n, hours, start) ==
    /\ IsWorld(w, days) /\ d \in days /\ d \in Int /\ SeenAlike(w, d, late0)
    /\ v \in VansOn(w, d) /\ js \in SUBSET DOMAIN w.jobs
    /\ IsRun(w, d, r, js, route, n) /\ HoursBound(w, d, v, r.crew, late0, hours)
    /\ hours[1] <= r.depart /\ Timed(w, d, late0, hours, r, start, n)

LEMMA TimedMean ==
    ASSUME NEW w, NEW days, IsWorld(w, days), NEW d \in days, d \in Int,
           NEW v \in VansOn(w, d), NEW late0, SeenAlike(w, d, late0), NEW js \in SUBSET DOMAIN w.jobs,
           NEW r \in Runs(w, d, v, js, late0), r.loose = {},
           NEW route, NEW n, IsRun(w, d, r, js, route, n)
    PROVE  \E hours, start : /\ Runner(w, days, d, late0, v, js, r, route, n, hours, start)
                             /\ hours = CrewHours(w, d, v, r.crew, late0)
<1>1. PICK hours : hours = CrewHours(w, d, v, r.crew, late0)
    OBVIOUS
<1>2. /\ hours[1] <= r.depart
      /\ Timetable(w, d, hours, r.stops, r.depart, r.loose, Probes(w, d, late0))
    BY <1>1 DEF Runs
<1>3. r.crew \in SUBSET FittersOn(w, d) /\ n \in Nat \ {0} /\ r.stops \in [1..n -> js] /\ DOMAIN r.stops = 1..n
    BY DEF IsRun
<1>4. HoursBound(w, d, v, r.crew, late0, hours)
    BY <1>1, <1>3, CrewHoursMean
<1>5. Len(r.stops) = n
    BY <1>3
<1>6. PICK start \in [DOMAIN r.stops -> 0..Minutes] :
        LET drive(i) == WorstLeg(w.delays, Place(w, r.stops, i - 1), Place(w, r.stops, i), d, Probes(w, d, late0))
            done(i) == IF i = 0 THEN r.depart ELSE start[i] + w.jobs[r.stops[i]].dur
        IN /\ \A i \in DOMAIN r.stops :
                /\ done(i - 1) + drive(i) <= start[i]
                /\ r.stops[i] \in r.loose \/ w.jobs[r.stops[i]].windows = <<>>
                   \/ WindowAllows(w.jobs[r.stops[i]], d, start[i])
           /\ done(Len(r.stops)) + drive(Len(r.stops) + 1) <= hours[2]
    BY <1>2 DEF Timetable
<1>7. start \in [1..n -> 0..Minutes]
    BY <1>3, <1>6
<1>8. ASSUME NEW i \in 1..n
      PROVE  /\ (IF i = 1 THEN r.depart ELSE start[i - 1] + w.jobs[r.stops[i - 1]].dur)
                  + Worst(w, d, late0, Place(w, r.stops, i - 1), Place(w, r.stops, i)) <= start[i]
             /\ w.jobs[r.stops[i]].windows = <<>> \/ WindowAllows(w.jobs[r.stops[i]], d, start[i])
    <2>1. i - 1 = 0 <=> i = 1
        OBVIOUS
    <2>2. /\ (IF i - 1 = 0 THEN r.depart ELSE start[i - 1] + w.jobs[r.stops[i - 1]].dur)
                  + Worst(w, d, late0, Place(w, r.stops, i - 1), Place(w, r.stops, i)) <= start[i]
          /\ r.stops[i] \in {} \/ w.jobs[r.stops[i]].windows = <<>> \/ WindowAllows(w.jobs[r.stops[i]], d, start[i])
        BY <1>3, <1>6 DEF Worst
    <2> QED
        BY <2>1, <2>2
<1>9. start[n] + w.jobs[r.stops[n]].dur + Worst(w, d, late0, Place(w, r.stops, n), Place(w, r.stops, n + 1)) <= hours[2]
    <2>1. (IF n = 0 THEN r.depart ELSE start[n] + w.jobs[r.stops[n]].dur)
             + Worst(w, d, late0, Place(w, r.stops, (n + 1) - 1), Place(w, r.stops, n + 1)) <= hours[2]
        BY <1>5, <1>6 DEF Worst
    <2>2. (n + 1) - 1 = n /\ n # 0
        BY <1>3
    <2> QED
        BY <2>1, <2>2
<1>10. Timed(w, d, late0, hours, r, start, n)
    <2>1. (n + 1) - 1 = n
        BY <1>3
    <2> QED
        BY <1>7, <1>8, <1>9, <2>1 DEF Timed
<1> QED
    BY <1>1, <1>2, <1>4, <1>10 DEF Runner

\* A job's minutes and people, and the matrix entries of a run.
RunTyped(w, d, late0, r, js, n) ==
    /\ n \in Nat \ {0} /\ DOMAIN r.stops = 1..n /\ r.crew # {} /\ FittersOn(w, d) # {}
    /\ \A i \in 1..n : /\ r.stops[i] \in js /\ IsJob(w.jobs[r.stops[i]])
                      /\ w.jobs[r.stops[i]].dur \in Nat \ {0}
                      /\ Place(w, r.stops, i) = w.jobs[r.stops[i]].at
    /\ Place(w, r.stops, 0) = Depot /\ Place(w, r.stops, n + 1) = Depot
    /\ \A o, p : Worst(w, d, late0, o, p) \in Nat

LEMMA RunnerTyped ==
    ASSUME NEW w, NEW days, NEW d, NEW late0, NEW v, NEW js, NEW r, NEW route, NEW n, NEW hours, NEW start,
           Runner(w, days, d, late0, v, js, r, route, n, hours, start)
    PROVE  RunTyped(w, d, late0, r, js, n) /\ RoadOK(w) /\ hours[1] \in Int /\ hours[2] \in Int /\ hours[2] <= Minutes
<1>1. /\ n \in Nat \ {0} /\ r.stops \in [1..n -> js] /\ DOMAIN r.stops = 1..n
      /\ r.crew \in SUBSET FittersOn(w, d) /\ Cardinality(r.crew) \in 1..2
    BY DEF Runner, IsRun
<1>2. r.crew # {}
    <2>1. Cardinality(r.crew) # 0
        BY <1>1
    <2> QED
        BY <2>1, FS_EmptySet
<1>3. ASSUME NEW i \in 1..n
      PROVE  /\ r.stops[i] \in js /\ IsJob(w.jobs[r.stops[i]]) /\ w.jobs[r.stops[i]].dur \in Nat \ {0}
             /\ Place(w, r.stops, i) = w.jobs[r.stops[i]].at
    <2>1. r.stops[i] \in js /\ r.stops[i] \in DOMAIN w.jobs
        BY <1>1 DEF Runner
    <2>2. IsJob(w.jobs[r.stops[i]])
        BY <2>1 DEF Runner, IsWorld
    <2> QED
        BY <1>1, <2>1, <2>2 DEF IsJob, Place
<1>4. Place(w, r.stops, 0) = Depot /\ Place(w, r.stops, n + 1) = Depot
    BY <1>1 DEF Place
<1>5. \A o, p : Worst(w, d, late0, o, p) \in Nat
    <2>1. FittersOn(w, d) # {} /\ IsWorld(w, days) /\ d \in days /\ d \in Int
        BY <1>1, <1>2 DEF Runner
    <2> QED
        BY <2>1, WorstMeans
<1>6. RoadOK(w)
    BY DEF Runner, IsWorld, RoadOK
<1>7. hours[1] \in Int /\ hours[2] \in Int /\ hours[2] <= Minutes
    <2>1. FreeHours(VanHours(w, v, d), 0, Minutes, OnDay(w.vans[v].outages, d))
        BY VansWork DEF Runner
    <2>2. VanHours(w, v, d)[2] \in Nat /\ VanHours(w, v, d)[2] <= Minutes
        BY <2>1 DEF FreeHours
    <2>3. hours[1] \in Int /\ hours[2] \in Int /\ hours[2] <= VanHours(w, v, d)[2]
        BY DEF Runner, HoursBound
    <2> QED
        BY <2>2, <2>3, HoursConstants
<1> QED
    BY <1>1, <1>2, <1>3, <1>4, <1>5, <1>6, <1>7 DEF RunTyped

\* Everything begins within the day.
LEMMA StartsInDay ==
    ASSUME NEW w, NEW days, NEW d, NEW late0, NEW v, NEW js, NEW r, NEW route, NEW n, NEW hours, NEW start,
           Runner(w, days, d, late0, v, js, r, route, n, hours, start)
    PROVE  \A i \in 1..n : start[i] \in 0..Minutes - 1 /\ start[i] + w.jobs[r.stops[i]].dur <= hours[2]
<1> DEFINE dur == [i \in 1..n |-> w.jobs[r.stops[i]].dur]
           drive == [i \in 1..n + 1 |-> Worst(w, d, late0, Place(w, r.stops, i - 1), Place(w, r.stops, i))]
           S == {k \in 0..n - 1 : start[n - k] + dur[n - k] <= hours[2]}
<1>1. RunTyped(w, d, late0, r, js, n) /\ hours[2] \in Int /\ hours[2] <= Minutes
    BY RunnerTyped
<1>2. n \in Nat \ {0} /\ start \in [1..n -> 0..Minutes]
    BY <1>1 DEF RunTyped, Runner, Timed
<1>3. \A i \in 1..n : dur[i] \in Nat \ {0} /\ dur[i] = w.jobs[r.stops[i]].dur
    BY <1>1 DEF RunTyped
<1>4. \A i \in 1..n + 1 : drive[i] \in Nat
    BY <1>1 DEF RunTyped
<1>5. start[n] + dur[n] + drive[n + 1] <= hours[2]
    <2>1. start[n] + w.jobs[r.stops[n]].dur + Worst(w, d, late0, Place(w, r.stops, (n + 1) - 1), Place(w, r.stops, n + 1)) <= hours[2]
        BY DEF Runner, Timed
    <2> QED
        BY <1>2, <2>1
<1>6. \A i \in 1..n : i # 1 => start[i - 1] + dur[i - 1] + drive[i] <= start[i]
    <2> SUFFICES ASSUME NEW i \in 1..n, i # 1 PROVE start[i - 1] + dur[i - 1] + drive[i] <= start[i]
        OBVIOUS
    <2>1. (IF i = 1 THEN r.depart ELSE start[i - 1] + w.jobs[r.stops[i - 1]].dur)
             + Worst(w, d, late0, Place(w, r.stops, i - 1), Place(w, r.stops, i)) <= start[i]
        BY DEF Runner, Timed
    <2>2. i - 1 \in 1..n /\ i \in 1..n + 1
        BY <1>2
    <2> QED
        BY <2>1, <2>2
<1> HIDE DEF dur, drive
<1>7. 0 \in S
    <2>1. start[n] \in 0..Minutes /\ dur[n] \in Nat /\ drive[n + 1] \in Nat
        BY <1>2, <1>3, <1>4
    <2>2. start[n] + dur[n] <= hours[2]
        BY ONLY <1>1, <1>5, <2>1
    <2> QED
        BY <1>2, <2>2
<1>8. \A k \in 0..n - 1 - 1 : k \in S => k + 1 \in S
    <2> SUFFICES ASSUME NEW k \in 0..n - 1 - 1, k \in S PROVE k + 1 \in S
        OBVIOUS
    <2>1. PICK i : i = n - k
        OBVIOUS
    <2>2. i \in 1..n /\ i # 1 /\ i - 1 \in 1..n /\ n - (k + 1) = i - 1 /\ k + 1 \in 0..n - 1
        BY <1>2, <2>1
    <2>3. start[i] + dur[i] <= hours[2] /\ start[i - 1] + dur[i - 1] + drive[i] <= start[i]
        BY <1>6, <2>1, <2>2
    <2>4. /\ start[i] \in Int /\ dur[i] \in Nat /\ start[i - 1] \in Int /\ dur[i - 1] \in Nat /\ drive[i] \in Nat
        BY <1>2, <1>3, <1>4, <2>2
    <2>5. start[i - 1] + dur[i - 1] <= hours[2]
        BY ONLY <1>1, <2>3, <2>4
    <2> QED
        BY <2>2, <2>5
<1>9. \A k \in 0..n - 1 : k \in S
    <2>1. n - 1 \in Nat
        BY <1>2
    <2> HIDE DEF S
    <2> QED
        BY <1>7, <1>8, <2>1, IntervalInduction
<1>10. ASSUME NEW i \in 1..n
       PROVE  start[i] \in 0..Minutes - 1 /\ start[i] + w.jobs[r.stops[i]].dur <= hours[2]
    <2>1. n - i \in 0..n - 1 /\ n - (n - i) = i
        BY <1>2
    <2>2. start[i] + dur[i] <= hours[2]
        BY <1>9, <2>1
    <2>3. start[i] \in 0..Minutes /\ dur[i] \in Nat \ {0} /\ dur[i] = w.jobs[r.stops[i]].dur
        BY <1>2, <1>3
    <2> QED
        BY <1>1, <2>2, <2>3, HoursConstants
<1> QED
    BY <1>10

\* Stop i is begun no later than the solver has it, after a drive that is as
\* long as the road has it, and in a window.
InTime(w, r, route, start, i) ==
    /\ route.stops[i].arrive \in Nat /\ route.stops[i].arrive <= start[i]
    /\ ~Strays(w, route, i) /\ Windowed(w, route, i)

\* What a hop has to come to.
HopIn(w, d, o, job, ready, hop, begin) ==
    /\ hop.arrive \in Nat /\ hop.leg \in Nat /\ hop.arrive <= begin
    /\ ready + Drive(w, d, o, job, ready) <= hop.arrive
    /\ Drive(w, d, o, job, hop.arrive - hop.leg) <= hop.leg
    /\ job.windows # <<>> =>
          \E win \in ToSet(job.windows) :
              /\ Clock(d, win.from) <= hop.arrive
              /\ win.hard \/ Confirmed(job) => hop.arrive + job.dur <= Clock(d, win.until)

LEMMA HopFits ==
    ASSUME NEW w, RoadOK(w), NEW d \in Int, RoadEases(w, d), NEW o, NEW job, IsJob(job),
           NEW ready \in 0..Minutes - 1, NEW begin \in 0..Minutes - 1,
           ready + Drive(w, d, o, job, ready) <= begin,
           job.windows = <<>> \/ WindowAllows(job, d, begin),
           Confirmed(job) => Len(job.windows) < 2,
           NEW hop, hop = DepartAndArrive(w, d, o, job, ready)
    PROVE  HopIn(w, d, o, job, ready, hop, begin)
<1>1. PICK arrival \in Int : arrival = ready + Drive(w, d, o, job, ready)
    BY DriveTyped
<1>2. PICK target : target = EarliestStart(job, d, arrival)
    OBVIOUS
<1>3. /\ target \in Int /\ arrival <= target
      /\ Fits(job, d, arrival) = {} => target = arrival
      /\ Fits(job, d, arrival) # {} => \E win \in Fits(job, d, arrival) : target = Later(arrival, Clock(d, win.from))
      /\ \A win \in Fits(job, d, arrival) : target <= Later(arrival, Clock(d, win.from))
    BY <1>2, StartMeans
<1>4. job.dur \in Nat /\ job.windows \in Seq([from : Int, until : Int, hard : BOOLEAN])
    BY DEF IsJob
<1>5. ASSUME NEW win \in ToSet(job.windows), Later(Clock(d, win.from), 0) <= begin,
             Binding(job, win) => begin + job.dur <= Clock(d, win.until)
      PROVE  win \in Fits(job, d, arrival) /\ Later(arrival, Clock(d, win.from)) <= begin
    <2>1. Clock(d, win.from) \in Int /\ Clock(d, win.until) \in Int /\ win.hard \in BOOLEAN
        BY WindowTyped
    <2>0. 0 \in Int /\ begin \in Int
        OBVIOUS
    <2>6. Clock(d, win.from) <= Later(Clock(d, win.from), 0) /\ Later(Clock(d, win.from), 0) \in Int
        BY <2>0, <2>1, LaterMeans
    <2>2. Clock(d, win.from) <= begin /\ begin \in Int
        BY ONLY <1>5, <2>0, <2>1, <2>6
    <2>3. Later(arrival, Clock(d, win.from)) <= begin /\ Later(arrival, Clock(d, win.from)) \in Int
        BY <1>1, <2>1, <2>2, LaterMeans
    <2>4. win.hard => begin + job.dur <= Clock(d, win.until)
        BY <1>5 DEF Binding
    <2>5. win.hard => Later(arrival, Clock(d, win.from)) + job.dur <= Clock(d, win.until)
        BY <1>4, <2>1, <2>2, <2>3, <2>4
    <2> QED
        BY <2>3, <2>5 DEF Fits
<1>6. ASSUME job.windows # <<>>
      PROVE  \E win \in ToSet(job.windows) : /\ Later(Clock(d, win.from), 0) <= begin
                                             /\ Binding(job, win) => begin + job.dur <= Clock(d, win.until)
    BY <1>6 DEF WindowAllows
<1>7. target <= begin
    <2>1. CASE job.windows = <<>>
        <3>1. ToSet(job.windows) = {}
            BY <2>1 DEF ToSet
        <3>2. Fits(job, d, arrival) = {}
            BY <3>1 DEF Fits
        <3> QED
            BY <1>1, <1>3, <3>2
    <2>2. CASE job.windows # <<>>
        <3>1. PICK win \in ToSet(job.windows) : /\ Later(Clock(d, win.from), 0) <= begin
                                                /\ Binding(job, win) => begin + job.dur <= Clock(d, win.until)
            BY <1>6, <2>2
        <3>2. win \in Fits(job, d, arrival) /\ Later(arrival, Clock(d, win.from)) <= begin
            BY <1>5, <3>1
        <3>3. target <= Later(arrival, Clock(d, win.from)) /\ Clock(d, win.from) \in Int
            BY <1>3, <3>2, WindowTyped
        <3>4. Later(arrival, Clock(d, win.from)) \in Int
            BY <1>1, <3>3, LaterMeans
        <3> QED
            BY <1>3, <3>2, <3>3, <3>4
    <2> QED
        BY <2>1, <2>2
<1>8. Target(w, d, o, job, ready) = target
    BY <1>1, <1>2 DEF Target
<1>9. Eases(w, d, o, job)
    BY LaterIsNoLonger DEF Eases, Drive
<1>10. target <= Minutes - 1
    BY <1>3, <1>7, HoursConstants
<1>11. /\ hop.arrive = target /\ hop.leg \in Nat /\ hop.arrive - hop.leg \in ready..Minutes - 1
       /\ Drive(w, d, o, job, hop.arrive - hop.leg) <= hop.leg
    BY <1>8, <1>9, <1>10, HopInTime
<1>12. target \in Nat
    BY <1>1, <1>3, DriveTyped
<1>13. ASSUME job.windows # <<>>
       PROVE  \E win \in ToSet(job.windows) :
                  /\ Clock(d, win.from) <= target
                  /\ win.hard \/ Confirmed(job) => target + job.dur <= Clock(d, win.until)
    <2>1. PICK one \in ToSet(job.windows) : /\ Later(Clock(d, one.from), 0) <= begin
                                            /\ Binding(job, one) => begin + job.dur <= Clock(d, one.until)
        BY <1>6, <1>13
    <2>2. one \in Fits(job, d, arrival)
        BY <1>5, <2>1
    <2>3. PICK win \in Fits(job, d, arrival) : target = Later(arrival, Clock(d, win.from))
        BY <1>3, <2>2
    <2>4. win \in ToSet(job.windows) /\ (win.hard => target + job.dur <= Clock(d, win.until))
        BY <2>3 DEF Fits
    <2>5. Clock(d, win.from) \in Int /\ Clock(d, win.until) \in Int /\ Clock(d, win.from) <= target
        BY <1>1, <2>3, <2>4, WindowTyped, LaterMeans
    <2>6. ASSUME Confirmed(job) PROVE target + job.dur <= Clock(d, win.until)
        <3>1. win = one
            <4>1. Len(job.windows) < 2
                BY <2>6
            <4>2. PICK i \in DOMAIN job.windows : win = job.windows[i]
                BY <2>4 DEF ToSet
            <4>3. PICK k \in DOMAIN job.windows : one = job.windows[k]
                BY DEF ToSet
            <4>4. i = 1 /\ k = 1
                BY <1>4, <4>1
            <4> QED
                BY <4>2, <4>3, <4>4
        <3>2. begin + job.dur <= Clock(d, win.until)
            BY <2>1, <2>6, <3>1 DEF Binding
        <3> QED
            BY <1>3, <1>4, <1>7, <2>5, <3>2
    <2> QED
        BY <2>4, <2>5, <2>6
<1> QED
    BY <1>1, <1>3, <1>7, <1>11, <1>12, <1>13 DEF HopIn

LEMMA StopInTime ==
    ASSUME NEW w, NEW days, NEW d, NEW late0, NEW v, NEW js, NEW r, NEW route, NEW n, NEW hours, NEW start,
           Runner(w, days, d, late0, v, js, r, route, n, hours, start), NEW i \in 1..n,
           NEW ready \in Int, ready = ReadyFor(r, route, i), r.depart <= ready,
           ready + Worst(w, d, late0, Place(w, r.stops, i - 1), Place(w, r.stops, i)) <= start[i]
    PROVE  InTime(w, r, route, start, i)
<1>1. /\ RunTyped(w, d, late0, r, js, n) /\ RoadOK(w) /\ d \in Int /\ hours[1] \in Int
    BY RunnerTyped DEF Runner
<1>2. PICK job : job = w.jobs[r.stops[i]]
    OBVIOUS
<1>3. PICK o : o = Place(w, r.stops, i - 1)
    OBVIOUS
<1>4. PICK worst \in Nat : worst = Worst(w, d, late0, o, job.at)
    BY <1>1 DEF RunTyped
<1>5. IsJob(job) /\ job.dur \in Nat \ {0} /\ Place(w, r.stops, i) = job.at /\ r.stops[i] \in DOMAIN w.jobs
    BY <1>1, <1>2 DEF RunTyped, Runner
<1>6. start[i] \in 0..Minutes - 1 /\ ready + worst <= start[i]
    BY <1>3, <1>4, <1>5, StartsInDay
<1>7. ready \in 0..Minutes - 1 /\ hours[1] <= ready
    <2>1. r.depart \in 0..Minutes /\ hours[1] <= r.depart
        BY DEF Runner, IsRun
    <2> QED
        BY <1>1, <1>4, <1>6, <2>1, HoursConstants
<1>8. Drive(w, d, o, job, ready) <= worst
    <2>1. PICK f : f \in r.crew
        BY <1>1 DEF RunTyped
    <2>2. f \in FittersOn(w, d) /\ FitterHours(w, f, d)[1] <= hours[1]
        BY <2>1 DEF Runner, IsRun, HoursBound
    <2>3. FitterHours(w, f, d)[1] \in Int
        <3>1. PICK a, b : WorksOn(w, d, f, a, b)
            BY <2>2, FittersWork DEF Runner
        <3> QED
            BY <3>1 DEF WorksOn, FreeHours
    <2>4. FitterHours(w, f, d)[1] <= ready
        BY <1>1, <1>7, <2>2, <2>3
    <2>5. IsWorld(w, days) /\ d \in days /\ RoadEases(w, d)
        BY DEF Runner, SeenAlike
    <2>6. Leg(w.delays, o, job.at, d, ready) <= Worst(w, d, late0, o, job.at)
        BY <1>1, <1>7, <2>2, <2>4, <2>5, MatrixIsWorst
    <2> QED
        BY <1>4, <2>6 DEF Drive
<1>9. PICK hop : hop = DepartAndArrive(w, d, o, job, ready)
    OBVIOUS
<1>10. HopIn(w, d, o, job, ready, hop, start[i])
    <2>1. ready + Drive(w, d, o, job, ready) <= start[i]
        BY <1>1, <1>6, <1>7, <1>8, DriveTyped
    <2>2. job.windows = <<>> \/ WindowAllows(job, d, start[i])
        BY <1>2 DEF Runner, Timed
    <2>3. (Confirmed(job) => Len(job.windows) < 2) /\ RoadEases(w, d)
        BY <1>2, <1>5 DEF Runner, SeenAlike, OnePromise
    <2> QED
        BY <1>1, <1>5, <1>6, <1>7, <1>9, <2>1, <2>2, <2>3, HopFits
<1>11. PICK s : s = route.stops[i]
    OBVIOUS
<1>12. s = [job |-> r.stops[i], arrive |-> hop.arrive, leave |-> hop.arrive + job.dur, travel |-> hop.leg]
    <2>1. s = StopAfter(w, d, r, i, ready)
        BY <1>11 DEF Runner, IsRun, Replays
    <2> QED
        BY <1>2, <1>3, <1>9, <2>1 DEF StopAfter
<1>13. s.job = r.stops[i] /\ s.arrive = hop.arrive /\ s.leave = hop.arrive + job.dur /\ s.travel = hop.leg /\ w.jobs[s.job] = job
    BY <1>2, <1>12
<1>14. route.day = d /\ DOMAIN route.stops = 1..n
    BY DEF Runner, IsRun, Replays
<1>15. Origin(w, route, i) = o
    <2>1. CASE i = 1
        BY <1>1, <1>3, <2>1 DEF Origin, RunTyped
    <2>2. CASE i # 1
        <3>1. i - 1 \in 1..n /\ n \in Nat
            BY <1>1, <2>2 DEF RunTyped
        <3>2. route.stops[i - 1].job = r.stops[i - 1]
            BY <3>1, ReplaysJobs DEF Runner, IsRun
        <3>3. Place(w, r.stops, i - 1) = w.jobs[r.stops[i - 1]].at
            BY <1>1, <3>1 DEF RunTyped
        <3> QED
            BY <1>3, <2>2, <3>2, <3>3 DEF Origin
    <2> QED
        BY <2>1, <2>2
<1>16. ~Strays(w, route, i)
    <2>1. PICK at : at = Leaves(route, i)
        OBVIOUS
    <2>2. \/ at = ready
          \/ at = hop.arrive - hop.leg
        BY <1>11, <1>13, <2>1 DEF Leaves, ReadyFor
    <2>3. hop.arrive \in Nat /\ hop.leg \in Nat /\ job.dur \in Nat
        BY <1>5, <1>10 DEF HopIn
    <2>4. at \in Int
        BY <2>2, <2>3
    <2>5. PICK leg \in Nat : leg = Drive(w, d, o, job, at)
        BY <1>1, <2>4, DriveTyped
    <2>6. at + leg <= hop.arrive
        <3>1. CASE at = ready
            BY <1>10, <2>5, <3>1 DEF HopIn
        <3>2. CASE at = hop.arrive - hop.leg
            <4>1. leg <= hop.leg
                BY <1>10, <2>5, <3>2 DEF HopIn
            <4> QED
                BY <2>3, <3>2, <4>1
        <3> QED
            BY <2>2, <3>1, <3>2
    <2>7. ~(hop.arrive < at) /\ ~(hop.arrive < at + leg) /\ ~(hop.arrive + job.dur - hop.arrive < job.dur)
        BY <2>3, <2>4, <2>5, <2>6
    <2>8. Leg(w.delays, Origin(w, route, i), job.at, route.day, at) = leg
        BY <1>14, <1>15, <2>5 DEF Drive
    <2>9. /\ ~(s.arrive < Leaves(route, i))
          /\ ~(s.arrive < Leaves(route, i) + Leg(w.delays, Origin(w, route, i), w.jobs[s.job].at, route.day, Leaves(route, i)))
          /\ ~(s.leave - s.arrive < w.jobs[s.job].dur)
        <3>1. PICK away : away = Leg(w.delays, Origin(w, route, i), w.jobs[s.job].at, route.day, Leaves(route, i))
            OBVIOUS
        <3>2. away = leg
            BY <1>13, <2>1, <2>8, <3>1
        <3>3. ~(s.arrive < at) /\ ~(s.arrive < at + away)
            BY <1>13, <2>7, <3>2
        <3>5. s.leave - s.arrive = hop.arrive + job.dur - hop.arrive
            <4>1. s.leave = hop.arrive + job.dur
                BY <1>13
            <4>2. s.arrive = hop.arrive
                BY <1>13
            <4> QED
                BY ONLY <2>3, <4>1, <4>2
        <3>6. w.jobs[s.job].dur = job.dur
            BY ONLY <1>13
        <3>4. ~(s.leave - s.arrive < w.jobs[s.job].dur)
            BY ONLY <2>7, <3>5, <3>6
        <3> QED
            BY ONLY <2>1, <3>1, <3>3, <3>4
    <2> QED
        BY <1>11, <2>9 DEF Strays
<1>17. Windowed(w, route, i)
    <2> SUFFICES ASSUME job.windows # <<>>
                 PROVE  MatchesWindow(job, s, d, FALSE) /\ ~(s.arrive < Clock(d, job.requested))
        BY <1>11, <1>13, <1>14 DEF Windowed
    <2>1. PICK win \in ToSet(job.windows) :
              /\ Clock(d, win.from) <= s.arrive
              /\ win.hard \/ Confirmed(job) => s.leave <= Clock(d, win.until)
        BY <1>10, <1>13 DEF HopIn
    <2>2. MatchesWindow(job, s, d, FALSE)
        BY <2>1 DEF MatchesWindow, Confirmed
    <2>3. Clock(d, job.requested) <= 0 \/ job.requested <= win.from
        BY <1>2, <1>5 DEF Runner, SeenAlike, AskedBefore
    <2>4. job.requested \in Int /\ win.from \in Int /\ s.arrive \in Nat
        BY <1>5, <1>10, <1>13, WindowTyped, <1>1 DEF IsJob, HopIn
    <2>5. PICK m \in Int : m = (d - 1) * Minutes
        BY <1>1, HoursConstants
    <2>6. job.requested - m <= s.arrive
        BY <2>1, <2>3, <2>4, <2>5 DEF Clock
    <2>7. ~(s.arrive < Clock(d, job.requested))
        BY <2>4, <2>5, <2>6 DEF Clock
    <2> QED
        BY <2>2, <2>7
<1>18. route.stops[i].arrive \in Nat /\ route.stops[i].arrive <= start[i]
    BY <1>10, <1>11, <1>13 DEF HopIn
<1> QED
    BY <1>16, <1>17, <1>18 DEF InTime

LEMMA RunInTime ==
    ASSUME NEW w, NEW days, NEW d, NEW late0, NEW v, NEW js, NEW r, NEW route, NEW n, NEW hours, NEW start,
           Runner(w, days, d, late0, v, js, r, route, n, hours, start)
    PROVE  \A i \in 1..n : InTime(w, r, route, start, i)
<1> DEFINE S == {k \in 0..n : \A i \in 1..k : InTime(w, r, route, start, i)}
<1>1. RunTyped(w, d, late0, r, js, n) /\ n \in Nat \ {0}
    BY RunnerTyped DEF RunTyped
<1>2. /\ RouteTyped(route) /\ DOMAIN route.stops = 1..n /\ r.depart \in Nat
      /\ r.depart <= route.stops[1].arrive - route.stops[1].travel
    BY DEF Runner, IsRun, Replays
<1>3. \A i \in 1..n : /\ route.stops[i].arrive \in Int /\ route.stops[i].leave \in Int
                      /\ route.stops[i].travel \in Nat /\ route.stops[i].arrive < route.stops[i].leave
    BY <1>2 DEF RouteTyped
<1>4. ASSUME NEW i \in 1..n PROVE r.depart <= route.stops[i].leave
    <2>1. 1 \in 1..n
        BY <1>1
    <2>2. r.depart <= route.stops[1].leave
        BY <1>2, <1>3, <2>1
    <2>3. CASE i # 1
        <3>1. route.stops[1].leave <= route.stops[i].arrive - route.stops[i].travel
            BY <1>2, <2>1, <2>3 DEF RouteTyped
        <3> QED
            <4>1. /\ route.stops[1].leave \in Int /\ route.stops[i].arrive \in Int /\ route.stops[i].leave \in Int
                  /\ route.stops[i].travel \in Nat /\ route.stops[i].arrive < route.stops[i].leave
                BY <1>3, <2>1
            <4>2. r.depart \in Nat
                BY <1>2
            <4> QED
                BY ONLY <2>2, <3>1, <4>1, <4>2
    <2> QED
        BY <2>2, <2>3
<1>5. 0 \in S
    BY <1>1
<1>6. ASSUME NEW k \in 0..n - 1, k \in S PROVE k + 1 \in S
    <2>1. PICK i : i = k + 1
        OBVIOUS
    <2>2. i \in 1..n /\ i - 1 = k
        BY <1>1, <2>1
    <2>3. PICK ready : ready = ReadyFor(r, route, i)
        OBVIOUS
    <2>4. PICK worst \in Nat : worst = Worst(w, d, late0, Place(w, r.stops, i - 1), Place(w, r.stops, i))
        BY <1>1 DEF RunTyped
    <2>5. (IF i = 1 THEN r.depart ELSE start[i - 1] + w.jobs[r.stops[i - 1]].dur) + worst <= start[i]
        BY <2>2, <2>4 DEF Runner, Timed
    <2>6. ready \in Int /\ r.depart <= ready /\ ready + worst <= start[i]
        <3>1. CASE i = 1
            BY <1>2, <2>3, <2>5, <3>1 DEF ReadyFor
        <3>2. CASE i # 1
            <4>1. k \in 1..n
                BY <1>1, <2>2, <3>2
            <4>2. InTime(w, r, route, start, k) /\ k \in 1..k
                BY <1>6, <4>1
            <4>3. route.stops[k].arrive <= start[k] /\ start[k] \in Int /\ start[i] \in Int
                BY <2>2, <4>1, <4>2 DEF InTime, Runner, Timed
            <4>4. PICK dur \in Nat : dur = w.jobs[r.stops[k]].dur
                BY <1>1, <4>1 DEF RunTyped
            <4>5. route.stops[k].leave = route.stops[k].arrive + dur
                BY <1>1, <4>1, <4>4, ReplaysJobs DEF Runner, IsRun
            <4>6. ready = route.stops[k].leave
                BY <2>2, <2>3, <3>2 DEF ReadyFor
            <4>7. start[k] + dur + worst <= start[i]
                BY <2>2, <2>5, <3>2, <4>4
            <4>8. route.stops[k].leave \in Int /\ route.stops[k].arrive \in Int
                BY <1>3, <4>1
            <4>9. ready + worst <= start[i]
                BY ONLY <4>3, <4>5, <4>6, <4>7, <4>8, <2>4, <4>4
            <4> QED
                BY <1>4, <4>1, <4>6, <4>8, <4>9
        <3> QED
            BY <3>1, <3>2
    <2>7. InTime(w, r, route, start, i)
        BY <2>2, <2>3, <2>4, <2>6, StopInTime
    <2>8. \A q \in 1..k + 1 : q \in 1..k \/ q = i
        BY <2>1
    <2> QED
        BY <1>6, <2>1, <2>2, <2>7, <2>8
<1>7. \A k \in 0..n : k \in S
    <2> HIDE DEF S
    <2> QED
        BY <1>1, <1>5, <1>6, IntervalInduction
<1> QED
    BY <1>1, <1>7

\* Crew and van are out within their hours.
LEMMA RunWithinHours ==
    ASSUME NEW w, NEW days, NEW d, NEW late0, NEW v, NEW js, NEW r, NEW route, NEW n, NEW hours, NEW start,
           Runner(w, days, d, late0, v, js, r, route, n, hours, start)
    PROVE  /\ Span(route)[1] \in Nat /\ Span(route)[2] \in Int /\ Span(route)[1] < Span(route)[2]
           /\ hours[1] <= Span(route)[1] /\ Span(route)[2] <= hours[2]
<1>1. /\ RunTyped(w, d, late0, r, js, n) /\ n \in Nat \ {0} /\ RoadOK(w) /\ d \in Int
      /\ hours[1] \in Int /\ hours[2] \in Int /\ hours[2] <= Minutes
    BY RunnerTyped DEF RunTyped, Runner
<1>2. /\ RouteTyped(route) /\ DOMAIN route.stops = 1..n /\ r.depart \in Nat /\ route.stops # <<>>
      /\ r.depart <= route.stops[1].arrive - route.stops[1].travel /\ hours[1] <= r.depart
    BY <1>1 DEF Runner, IsRun, Replays
<1>3. PICK m \in Nat \ {0} :
          /\ DOMAIN route.stops = 1..m /\ Last(route.stops) = route.stops[m]
          /\ Span(route)[1] \in Int /\ Span(route)[2] \in Int /\ Span(route)[1] < Span(route)[2]
          /\ Span(route)[1] = route.stops[1].arrive - route.stops[1].travel
          /\ Span(route)[2] = route.stops[m].leave + route.home
    BY <1>2, SpanMeans
<1>4. m = n
    BY <1>1, <1>2, <1>3
<1>5. PICK job : job = w.jobs[r.stops[n]]
    OBVIOUS
<1>6. PICK gone : gone = route.stops[n].leave
    OBVIOUS
<1>7. job.dur \in Nat \ {0} /\ Place(w, r.stops, n) = job.at /\ n \in 1..n
    BY <1>1, <1>5 DEF RunTyped
<1>8. gone = route.stops[n].arrive + job.dur
    BY <1>1, <1>5, <1>6, <1>7, ReplaysJobs DEF Runner, IsRun
<1>9. route.stops[n].arrive \in Nat /\ route.stops[n].arrive <= start[n] /\ start[n] \in Int
    <2>1. InTime(w, r, route, start, n)
        BY <1>7, RunInTime
    <2>2. start \in [1..n -> 0..Minutes]
        BY DEF Runner, Timed
    <2> QED
        BY <1>7, <2>1, <2>2 DEF InTime
<1>10. PICK worst \in Nat : worst = Worst(w, d, late0, job.at, Depot)
    BY <1>1 DEF RunTyped
<1>11. start[n] + job.dur + worst <= hours[2]
    <2>1. start[n] + w.jobs[r.stops[n]].dur
             + Worst(w, d, late0, Place(w, r.stops, (n + 1) - 1), Place(w, r.stops, n + 1)) <= hours[2]
        BY DEF Runner, Timed
    <2>2. (n + 1) - 1 = n /\ Place(w, r.stops, n + 1) = Depot
        BY <1>1 DEF RunTyped
    <2> QED
        BY <1>5, <1>7, <1>10, <2>1, <2>2
<1>12. gone \in Nat /\ gone + worst <= hours[2]
    BY <1>1, <1>7, <1>8, <1>9, <1>10, <1>11
<1>13. PICK home \in Nat : home = Leg(w.delays, job.at, Depot, d, gone)
    BY <1>1, <1>12, LegTyped DEF RoadOK
<1>14. route.home = home
    <2>1. Last(r.stops) = r.stops[n]
        <3>1. r.stops \in [1..n -> js]
            BY DEF Runner, IsRun
        <3>2. Len(r.stops) = n
            BY <1>1, <3>1
        <3> QED
            BY <3>2 DEF Last
    <2>2. route.home = Leg(w.delays, w.jobs[Last(r.stops)].at, Depot, d, Last(route.stops).leave)
        BY DEF Runner, IsRun, Replays
    <2> QED
        BY <1>3, <1>4, <1>5, <1>6, <1>13, <2>1, <2>2
<1>15. home <= worst
    <2>1. CASE job.at = Depot
        <3>1. home = 0
            BY <1>13, <2>1 DEF Leg
        <3> QED
            BY <1>10, <3>1
    <2>2. CASE job.at # Depot
        <3>1. PICK f : f \in r.crew
            BY <1>1 DEF RunTyped
        <3>2. f \in FittersOn(w, d) /\ FitterHours(w, f, d)[1] <= hours[1] /\ IsWorld(w, days) /\ d \in days
              /\ RoadEases(w, d)
            BY <3>1 DEF Runner, IsRun, HoursBound, SeenAlike
        <3>3. FitterHours(w, f, d)[1] \in Int
            <4>1. PICK a, b : WorksOn(w, d, f, a, b)
                BY <1>1, <3>2, FittersWork
            <4> QED
                BY <4>1 DEF WorksOn, FreeHours
        <3>4. worst # 0
            <4>1. FittersOn(w, d) # {}
                BY <3>2
            <4>2. PICK t : t \in Probes(w, d, late0) /\ t \in 0..Minutes - 1
                BY <1>1, <3>2, <4>1, ProbesMean
            <4>3. Leg(w.delays, job.at, Depot, d, t) <= Worst(w, d, late0, job.at, Depot)
                BY <1>1, <3>2, <4>1, <4>2, WorstMeans
            <4>4. Leg(w.delays, job.at, Depot, d, t) \in Nat \ {0}
                BY <1>1, <2>2, <4>2, LegTyped DEF RoadOK
            <4> QED
                BY <1>10, <4>3, <4>4
        <3>5. gone \in 0..Minutes - 1
            BY <1>1, <1>10, <1>12, <3>4, HoursConstants
        <3>6. FitterHours(w, f, d)[1] <= gone
            <4>1. hours[1] <= gone
                <5>1. route.stops[n].arrive < route.stops[n].leave
                    BY <1>2, <1>7 DEF RouteTyped
                <5>2. Span(route)[1] <= gone
                    <6>1. 1 \in 1..n
                        BY <1>1
                    <6>2. /\ route.stops[1].arrive \in Int /\ route.stops[1].leave \in Int
                          /\ route.stops[1].travel \in Nat /\ route.stops[1].arrive < route.stops[1].leave
                          /\ route.stops[n].arrive \in Int /\ route.stops[n].travel \in Nat
                        BY <1>2, <1>7, <6>1 DEF RouteTyped
                    <6>3. n = 1 \/ route.stops[1].leave <= route.stops[n].arrive - route.stops[n].travel
                        <7>1. \A i, k \in DOMAIN route.stops : i < k => route.stops[i].leave <= route.stops[k].arrive - route.stops[k].travel
                            BY <1>2 DEF RouteTyped
                        <7>2. 1 \in DOMAIN route.stops /\ n \in DOMAIN route.stops /\ (n = 1 \/ 1 < n)
                            BY <1>1, <1>2, <1>7, <6>1
                        <7> QED
                            BY ONLY <7>1, <7>2
                    <6>4. route.stops[1].arrive - route.stops[1].travel <= gone
                        <7>1. CASE n = 1
                            BY <1>6, <6>2, <7>1
                        <7>2. CASE n # 1
                            <8>1. gone \in Int /\ route.stops[n].arrive < gone
                                BY <1>6, <1>12, <5>1
                            <8>2. route.stops[1].leave <= route.stops[n].arrive - route.stops[n].travel
                                BY <6>3, <7>2
                            <8> QED
                                BY ONLY <6>2, <8>1, <8>2
                        <7> QED
                            BY <7>1, <7>2
                    <6> QED
                        BY <1>3, <6>4
                <5> QED
                    BY <1>1, <1>2, <1>3, <1>12, <5>2
            <4> QED
                BY <1>1, <1>12, <3>2, <3>3, <4>1
        <3>7. Leg(w.delays, job.at, Depot, d, gone) <= Worst(w, d, late0, job.at, Depot)
            BY <1>1, <3>2, <3>5, <3>6, MatrixIsWorst
        <3> QED
            BY <1>10, <1>13, <3>7
    <2> QED
        BY <2>1, <2>2
<1>16. Span(route)[2] = gone + home
    BY <1>3, <1>4, <1>6, <1>14
<1>17. Span(route)[2] <= hours[2]
    BY ONLY <1>1, <1>10, <1>12, <1>13, <1>15, <1>16
<1>18. r.depart <= Span(route)[1]
    BY <1>2, <1>3
<1>19. Span(route)[1] \in Nat /\ hours[1] <= Span(route)[1]
    <2>1. Span(route)[1] \in Int /\ r.depart \in Nat /\ hours[1] \in Int /\ hours[1] <= r.depart
        BY <1>1, <1>2, <1>3
    <2> QED
        BY ONLY <1>18, <2>1
<1> QED
    BY <1>3, <1>17, <1>19

\* Free hours are free of every outage that ends after it begins.
LEMMA FreeIsClear ==
    ASSUME PerMinute = 1, NEW outages \in SUBSET [from : Int, until : Int], \A o \in outages : o.from < o.until,
           NEW d \in Int, NEW a \in Nat, NEW b \in Nat, NEW h, FreeHours(h, a, b, OnDay(outages, d)),
           NEW x \in Int, NEW y \in Int, h[1] <= x, x < y, y <= h[2], NEW span, span[1] = x, span[2] = y
    PROVE  ~Out(outages, d, span)
<1> SUFFICES ASSUME NEW o \in outages, Covers([from |-> Clock(d, o.from), until |-> Clock(d, o.until)], x, y)
             PROVE  FALSE
    BY DEF Out
<1>1. PICK c : c = [from |-> Clock(d, o.from), until |-> Clock(d, o.until)]
    OBVIOUS
<1>2. c \in OnDay(outages, d)
    BY <1>1 DEF OnDay
<1>3. c.from \in Int /\ c.until \in Int /\ c.from < c.until
    <2>1. PICK m \in Int : m = (d - 1) * Minutes
        BY HoursConstants
    <2>2. o.from \in Int /\ o.until \in Int /\ o.from < o.until
        OBVIOUS
    <2>3. c.from = o.from - m /\ c.until = o.until - m
        BY <1>1, <2>1 DEF Clock
    <2> QED
        BY ONLY <2>1, <2>2, <2>3
<1>4. c.from < y /\ x < c.until
    BY <1>1, <1>3 DEF Covers
<1>5. PICK t \in Int : t = Later(x, c.from)
    BY <1>3 DEF Later
<1>6. x <= t /\ t < y /\ c.from <= t /\ t < c.until
    BY <1>3, <1>4, <1>5 DEF Later
<1>7. h[1] \in Nat /\ h[2] \in Nat /\ a <= h[1] /\ h[2] <= b
    BY DEF FreeHours
<1>8. t \in h[1]..h[2] - 1 /\ t \in a..b - 1
    BY <1>6, <1>7
<1>9. c.from < (t + 1) * PerMinute /\ (t + 1) * PerMinute <= c.until
    BY <1>3, <1>6
<1>10. Blocks(OnDay(outages, d), <<a, b>>, t)
    <2>1. \A q \in OnDay(outages, d) : q.from \in Int /\ q.until \in Int
        BY OnDayTyped
    <2> QED
        BY <1>2, <1>8, <1>9, <2>1, BlocksMeans
<1> QED
    BY <1>8, <1>10 DEF FreeHours

\* Who is out for the hours and then for the minutes after them was out then.
LEMMA OutSplits ==
    ASSUME NEW outages \in SUBSET [from : Int, until : Int], \A o \in outages : o.from < o.until, NEW d \in Int,
           NEW x \in Int, NEW y \in Int, NEW m \in Int, NEW k \in Int, x < y, m < y, y <= k,
           NEW span, span[1] = x, span[2] = y, Out(outages, d, span)
    PROVE  (x < m /\ Out(outages, d, <<x, m>>)) \/ Out(outages, d, <<m, k>>)
<1>1. PICK o \in outages : Covers([from |-> Clock(d, o.from), until |-> Clock(d, o.until)], x, y)
    BY DEF Out
<1>2. PICK c : c = [from |-> Clock(d, o.from), until |-> Clock(d, o.until)]
    OBVIOUS
<1>3. c.from \in Int /\ c.until \in Int /\ c.from < c.until
    <2>1. PICK z \in Int : z = (d - 1) * Minutes
        BY HoursConstants
    <2>2. o.from \in Int /\ o.until \in Int /\ o.from < o.until
        OBVIOUS
    <2>3. c.from = o.from - z /\ c.until = o.until - z
        BY <1>2, <2>1 DEF Clock
    <2> QED
        BY ONLY <2>1, <2>2, <2>3
<1>4. ~(y <= c.from) /\ x < c.until
    BY <1>1, <1>2 DEF Covers
<1>5. CASE x < m /\ c.from < m
    <2>1. Covers(c, x, m)
        BY <1>3, <1>4, <1>5 DEF Covers
    <2> QED
        BY <1>2, <1>5, <2>1 DEF Out
<1>6. CASE ~(x < m /\ c.from < m)
    <2>1. Covers(c, m, k)
        BY <1>3, <1>4, <1>6 DEF Covers
    <2> QED
        BY <1>2, <2>1 DEF Out
<1> QED
    BY <1>5, <1>6

\* Nobody of the crew works outside hours or through an outage, and the van is there.
LEMMA RunWorks ==
    ASSUME PerMinute = 1, NEW w, NEW days, NEW d, NEW late0, NEW v, NEW js, NEW r, NEW route, NEW n, NEW hours,
           NEW start, Runner(w, days, d, late0, v, js, r, route, n, hours, start)
    PROVE  /\ \A f \in r.crew : Worked(w, late0, route, f)
           /\ ~Out(w.vans[v].outages, d, Span(route))
<1>1. PICK x \in Nat : x = Span(route)[1]
    BY RunWithinHours
<1>2. PICK y \in Int : y = Span(route)[2]
    BY RunWithinHours
<1>3. x < y /\ hours[1] <= x /\ y <= hours[2] /\ hours[1] \in Int /\ hours[2] \in Int /\ hours[2] <= Minutes
    BY <1>1, <1>2, RunWithinHours, RunnerTyped
<1>4. route.day = d /\ IsWorld(w, days) /\ d \in days /\ d \in Int /\ OutagesEnd(w)
    BY DEF Runner, IsRun, Replays, SeenAlike
<1>5. ~Out(w.vans[v].outages, d, Span(route))
    <2>1. v \in DOMAIN w.vans /\ FreeHours(VanHours(w, v, d), 0, Minutes, OnDay(w.vans[v].outages, d))
        BY <1>4, VansWork DEF Runner
    <2>2. /\ w.vans[v].outages \in SUBSET [from : Int, until : Int]
          /\ \A o \in w.vans[v].outages : o.from < o.until
        BY <1>4, <2>1 DEF IsWorld, IsVan, OutagesEnd
    <2>3. PICK h : h = VanHours(w, v, d)
        OBVIOUS
    <2>4. h[1] <= hours[1] /\ hours[2] <= h[2] /\ h[1] \in Nat /\ h[2] \in Nat
        BY <2>1, <2>3 DEF Runner, HoursBound, FreeHours
    <2>5. h[1] <= x /\ y <= h[2]
        BY <1>3, <2>4
    <2>6. FreeHours(h, 0, Minutes, OnDay(w.vans[v].outages, d)) /\ 0 \in Nat /\ Minutes \in Nat
        BY <2>1, <2>3, HoursConstants
    <2>7. x \in Int
        OBVIOUS
    <2> QED
        BY <1>1, <1>2, <1>3, <1>4, <2>2, <2>5, <2>6, <2>7, FreeIsClear
<1>6. ASSUME NEW f \in r.crew PROVE Worked(w, late0, route, f)
    <2>1. f \in FittersOn(w, d) /\ FitterHours(w, f, d)[1] <= hours[1] /\ hours[2] <= KeptUntil(w, f, d, late0)
        BY DEF Runner, IsRun, HoursBound
    <2>2. PICK a, b : WorksOn(w, d, f, a, b)
        BY <1>4, <2>1, FittersWork
    <2>3. PICK h : h = FitterHours(w, f, d)
        OBVIOUS
    <2>4. PICK k \in Int : k = KeptUntil(w, f, d, late0)
        BY <2>2, KeptMeansLater
    <2>5. /\ a \in Nat /\ b \in Nat /\ a < b /\ b <= Minutes /\ w.fitters[f].shift[d] = <<a, b>>
          /\ f \in DOMAIN w.fitters /\ FreeHours(h, a, b, OnDay(w.fitters[f].outages, d))
        BY <2>2, <2>3 DEF WorksOn
    <2>6. h[1] \in Nat /\ h[2] \in Nat /\ a <= h[1] /\ h[2] <= b /\ h[1] <= hours[1] /\ hours[2] <= k /\ h # <<>>
        BY <2>1, <2>3, <2>4, <2>5 DEF FreeHours, FittersOn
    <2>7. a <= x /\ h[1] <= x /\ y <= k /\ y <= Minutes
        BY <1>3, <2>5, <2>6, HoursConstants
    <2>8. ASSUME h[2] < y
          PROVE  /\ h[2] = b /\ late0 /\ w.fitters[f].eligible
                 /\ ~Out(w.fitters[f].outages, d, <<h[2], k>>)
        <3>1. h # <<>> /\ k > h[2]
            BY <2>4, <2>6, <2>7, <2>8
        <3>2. NobodyIsKeptPastAnOutage(w, d, late0)
            BY DEF Runner, SeenAlike
        <3>3. /\ h[2] = w.fitters[f].shift[d][2] /\ late0 /\ w.fitters[f].eligible
              /\ ~Out(w.fitters[f].outages, d, <<h[2], k>>)
            BY <2>3, <2>4, <2>5, <3>1, <3>2 DEF NobodyIsKeptPastAnOutage
        <3> QED
            BY <2>5, <3>3
    <2>9. x % Minutes = x
        <3>1. x \in 0..Minutes - 1 /\ Minutes \in Nat \ {0}
            BY <1>3, <2>7, HoursConstants
        <3> QED
            BY ONLY <3>1
    <2>10. ~(y % Minutes > b /\ ~(late0 /\ w.fitters[f].eligible))
        <3>1. CASE y = Minutes
            <4>1. y % Minutes = 0
                BY <3>1, HoursConstants
            <4> QED
                BY <2>5, <4>1
        <3>2. CASE y # Minutes
            <4>0. y \in 0..Minutes - 1 /\ Minutes \in Nat \ {0}
                BY <1>3, <2>7, <3>2, HoursConstants
            <4>1. y % Minutes = y
                BY ONLY <4>0
            <4>2. y > b => h[2] < y
                BY <2>5, <2>6
            <4> QED
                BY <2>8, <4>1, <4>2
        <3> QED
            BY <3>1, <3>2
    <2>11. ~Out(w.fitters[f].outages, d, Span(route))
        <3>0. /\ w.fitters[f].outages \in SUBSET [from : Int, until : Int]
              /\ \A o \in w.fitters[f].outages : o.from < o.until
            BY <1>4, <2>5 DEF IsWorld, IsFitter, OutagesEnd
        <3>1. CASE y <= h[2]
            <4>1. x \in Int
                OBVIOUS
            <4> QED
                BY <1>1, <1>2, <1>3, <1>4, <2>5, <2>7, <3>0, <3>1, <4>1, FreeIsClear
        <3>2. CASE h[2] < y
            <4> SUFFICES ASSUME Out(w.fitters[f].outages, d, Span(route)) PROVE FALSE
                OBVIOUS
            <4>1. x \in Int /\ h[2] \in Int
                BY <2>6
            <4>2. (x < h[2] /\ Out(w.fitters[f].outages, d, <<x, h[2]>>)) \/ Out(w.fitters[f].outages, d, <<h[2], k>>)
                BY <1>1, <1>2, <1>3, <1>4, <2>7, <3>0, <3>2, <4>1, OutSplits
            <4>3. x < h[2] /\ Out(w.fitters[f].outages, d, <<x, h[2]>>)
                BY <2>8, <3>2, <4>2
            <4>4. PICK span : span = <<x, h[2]>>
                OBVIOUS
            <4>5. span[1] = x /\ span[2] = h[2] /\ h[2] <= h[2]
                BY <4>1, <4>4
            <4>6. ~Out(w.fitters[f].outages, d, span)
                BY <1>4, <2>5, <2>7, <3>0, <4>1, <4>3, <4>5, FreeIsClear
            <4> QED
                BY <4>3, <4>4, <4>6
        <3> QED
            BY <2>6, <3>1, <3>2
    <2>12. /\ ~(Span(route)[1] % Minutes < w.fitters[f].shift[route.day][1])
           /\ ~(Span(route)[2] % Minutes > w.fitters[f].shift[route.day][2] /\ ~(late0 /\ w.fitters[f].eligible))
           /\ w.fitters[f].shift[route.day] # <<>>
        <3>1. w.fitters[f].shift[route.day][1] = a /\ w.fitters[f].shift[route.day][2] = b
            BY <1>4, <2>5
        <3>2. ~(x < a)
            BY <2>5, <2>7
        <3>3. w.fitters[f].shift[route.day] # <<>>
            BY <1>4, <2>5
        <3> QED
            BY <1>1, <1>2, <2>9, <2>10, <3>1, <3>2, <3>3
    <2> QED
        BY <1>4, <2>11, <2>12 DEF Worked
<1> QED
    BY <1>5, <1>6

\* What the checker adds up along a route.
Burden(u, r, g) == [i \in DOMAIN r.stops |-> u.jobs[r.stops[i].job].load[g]]

LEMMA CarriesMeans ==
    ASSUME NEW u, NEW r, NEW n \in Nat, DOMAIN r.stops = 1..n, NEW g,
           \A i \in 1..n : u.jobs[r.stops[i].job].load[g] \in Nat
    PROVE  /\ Carries(u, r, g) = SumOver(Burden(u, r, g), 1..n) /\ IsFiniteSet(1..n)
           /\ Counts(Burden(u, r, g), 1..n)
<1> DEFINE js == 1..n
           Folds(iter) == iter = [s \in SUBSET js |->
               IF s = {} THEN 0
               ELSE u.jobs[r.stops[CHOOSE x \in s : TRUE].job].load[g] + iter[s \ {CHOOSE x \in s : TRUE}]]
           fold == CHOOSE iter : Folds(iter)
<1>1. Carries(u, r, g) = fold[js]
    BY DEF Carries, MapThenSumSet, MapThenFoldSet
<1>2. IsFiniteSet(js)
    BY FS_Interval
<1>3. Counts(Burden(u, r, g), js)
    BY DEF Counts, Burden
<1>4. ASSUME NEW s \in SUBSET js, s # {}
      PROVE  /\ First(s) = (CHOOSE x \in s : TRUE)
             /\ Burden(u, r, g)[First(s)] = u.jobs[r.stops[CHOOSE x \in s : TRUE].job].load[g]
    <2>1. First(s) \in 1..n
        BY <1>2, <1>4, FirstOut
    <2>2. First(s) = (CHOOSE x \in s : TRUE)
        BY DEF First
    <2>3. Burden(u, r, g)[First(s)] = u.jobs[r.stops[First(s)].job].load[g]
        BY <2>1 DEF Burden
    <2> QED
        BY <2>2, <2>3
<1>5. PICK iter : Sums(iter, Burden(u, r, g), js)
    BY <1>2, <1>3, SumsExist
<1>6. ASSUME NEW it, Sums(it, Burden(u, r, g), js) PROVE Folds(it)
    BY <1>4, <1>6 DEF Sums
<1>7. ASSUME NEW it, Folds(it) PROVE Sums(it, Burden(u, r, g), js)
    <2>1. ASSUME NEW s \in SUBSET js
          PROVE  it[s] = IF s = {} THEN 0 ELSE Burden(u, r, g)[First(s)] + it[s \ {First(s)}]
        <3>1. it[s] = IF s = {} THEN 0
                      ELSE u.jobs[r.stops[CHOOSE x \in s : TRUE].job].load[g] + it[s \ {CHOOSE x \in s : TRUE}]
            BY <1>7
        <3>2. CASE s = {}
            BY <3>1, <3>2
        <3>3. CASE s # {}
            BY <1>4, <3>1, <3>3
        <3> QED
            BY <3>2, <3>3
    <2>2. it = [s \in SUBSET js |-> it[s]]
        BY <1>7
    <2> QED
        BY <2>1, <2>2 DEF Sums
<1>8. Folds(fold)
    <2> HIDE DEF Folds
    <2> QED
        BY <1>5, <1>6
<1> HIDE DEF Folds, fold
<1>9. fold[js] = SumOver(Burden(u, r, g), js)
    BY <1>2, <1>3, <1>7, <1>8, SumIs
<1> QED
    BY <1>1, <1>2, <1>3, <1>9

\* What a run's van takes is what the checker finds in it.
LEMMA RunLoaded ==
    ASSUME NEW w, NEW days, IsWorld(w, days), NEW d, NEW v \in DOMAIN w.vans, NEW js \in SUBSET DOMAIN w.jobs,
           NEW late0, NEW r \in Runs(w, d, v, js, late0), NEW route, NEW n, IsRun(w, d, r, js, route, n)
    PROVE  Loaded(w, route)
<1>1. /\ n \in Nat \ {0} /\ r.stops \in [1..n -> js] /\ DOMAIN r.stops = 1..n
      /\ \A i, k \in 1..n : r.stops[i] = r.stops[k] => i = k
      /\ DOMAIN route.stops = 1..n /\ route.van = v
    <2>1. r.van = v
        BY DEF Runs
    <2> QED
        BY <2>1 DEF IsRun, Replays
<1>2. \A i \in 1..n : route.stops[i].job = r.stops[i] /\ r.stops[i] \in DOMAIN w.jobs
    BY <1>1, ReplaysJobs DEF IsRun
<1> SUFFICES ASSUME NEW g \in Goods PROVE ~(Carries(w, route, g) > w.vans[v].room[g])
    BY <1>1 DEF Loaded
<1>3. \A i \in 1..n : w.jobs[route.stops[i].job].load[g] \in Nat
    BY <1>2 DEF IsWorld, IsJob
<1>4. /\ Carries(w, route, g) = SumOver(Burden(w, route, g), 1..n) /\ IsFiniteSet(1..n)
      /\ Counts(Burden(w, route, g), 1..n)
    BY <1>1, <1>3, CarriesMeans
<1>5. ToSet(r.stops) = {r.stops[i] : i \in 1..n} /\ ToSet(r.stops) \in SUBSET DOMAIN w.jobs
    BY <1>1, <1>2 DEF ToSet
<1>6. SumOver(Burden(w, route, g), 1..n) = SumOver(Loads(w, g), {r.stops[i] : i \in 1..n})
    <2>1. \A i \in 1..n : /\ Burden(w, route, g)[i] = Loads(w, g)[r.stops[i]]
                          /\ Burden(w, route, g)[i] \in Nat
        BY <1>1, <1>2, <1>3 DEF Burden, Loads
    <2>2. PICK bs : bs = Burden(w, route, g)
        OBVIOUS
    <2>3. PICK ls : ls = Loads(w, g)
        OBVIOUS
    <2>4. PICK q : q = r.stops
        OBVIOUS
    <2>5. PICK S : S = 1..n
        OBVIOUS
    <2>6. \A i \in S : bs[i] = ls[q[i]] /\ bs[i] \in Nat
        BY <2>1, <2>2, <2>3, <2>4, <2>5
    <2>7. \A i, k \in S : q[i] = q[k] => i = k
        BY <1>1, <2>4, <2>5
    <2>9. IsFiniteSet(S)
        BY <1>4, <2>5
    <2>8. SumOver(bs, S) = SumOver(ls, {q[i] : i \in S})
        BY ONLY <2>9, <2>6, <2>7, SumAlong
    <2> QED
        BY <2>2, <2>3, <2>4, <2>5, <2>8
<1>7. Load(w, ToSet(r.stops), g) = SumOver(Loads(w, g), ToSet(r.stops))
    BY <1>5, LoadMeans
<1>8. Load(w, ToSet(r.stops), g) <= w.vans[v].room[g]
    BY DEF Runs, CanServe
<1>9. SumOver(Burden(w, route, g), 1..n) \in Nat
    BY <1>4, SumTyped
<1>10. w.vans[v].room[g] \in Int
    BY DEF IsWorld, IsVan
<1>11. Carries(w, route, g) = Load(w, ToSet(r.stops), g)
    BY <1>4, <1>5, <1>6, <1>7
<1> QED
    BY <1>4, <1>8, <1>9, <1>10, <1>11

\* A run that spends no promise is sound, and its van is free.
LEMMA RunSound ==
    ASSUME PerMinute = 1, NEW w, NEW days, IsWorld(w, days), NEW d \in days, d \in Int,
           NEW late0, SeenAlike(w, d, late0), NEW v \in VansOn(w, d), NEW js \in SUBSET DOMAIN w.jobs,
           \A j \in js : w.jobs[j].ready <= d,
           NEW r \in Runs(w, d, v, js, late0), r.loose = {}, NEW route, NEW n, IsRun(w, d, r, js, route, n)
    PROVE  Sound(w, late0, route) /\ ~Out(w.vans[v].outages, d, Span(route))
<1>1. PICK hours, start : Runner(w, days, d, late0, v, js, r, route, n, hours, start)
    BY TimedMean
<1>2. v \in DOMAIN w.vans /\ r.van = v
    BY VansWork DEF Runs
<1>3. /\ n \in Nat \ {0} /\ r.stops \in [1..n -> js] /\ DOMAIN r.stops = 1..n
      /\ r.crew \in SUBSET FittersOn(w, d) /\ Cardinality(r.crew) \in 1..2
      /\ DOMAIN route.stops = 1..n /\ route.van = v /\ route.crew = r.crew /\ route.day = d
    BY <1>2 DEF IsRun, Replays
<1>4. \A i \in 1..n : route.stops[i].job = r.stops[i] /\ r.stops[i] \in js
    BY <1>3, ReplaysJobs DEF IsRun
<1>5. Loaded(w, route)
    BY <1>2, RunLoaded
<1>6. Knows(w, route)
    BY <1>2, <1>3, <1>4 DEF Knows, FittersOn
<1>7. ASSUME NEW i \in 1..n PROVE Skilled(w, route, i)
    <2>1. PICK job : job = w.jobs[r.stops[i]]
        OBVIOUS
    <2>2. CanServe(w, d, v, r.crew, ToSet(r.stops)) /\ r.stops[i] \in ToSet(r.stops)
        BY <1>3 DEF Runs, ToSet
    <2>3. Cardinality(r.crew) >= job.crew /\ job.certs \subseteq UNION {w.fitters[f].certs : f \in r.crew}
        BY <2>1, <2>2 DEF CanServe, Skills
    <2>4. job.ready <= d /\ job.ready \in Int /\ job.crew \in Int
        BY <1>4, <2>1 DEF IsWorld, IsJob
    <2>5. ~(Cardinality(r.crew) < job.crew) /\ ~(d < job.ready)
        BY <1>3, <2>3, <2>4
    <2> QED
        BY <1>3, <1>4, <2>1, <2>3, <2>5 DEF Skilled
<1>8. \A i \in 1..n : ~Strays(w, route, i) /\ Windowed(w, route, i)
    BY <1>1, RunInTime DEF InTime
<1>9. /\ \A f \in r.crew : Worked(w, late0, route, f)
      /\ ~Out(w.vans[v].outages, d, Span(route))
    BY <1>1, RunWorks
<1> QED
    BY <1>3, <1>5, <1>6, <1>7, <1>8, <1>9 DEF Sound

\* A day that spends no promise passes the check.
DaySound(w, late0, routes) ==
    /\ RoutesOK(routes) /\ Exclusive(routes)
    /\ \A r \in routes : Sound(w, late0, r) /\ VanFree(w, r)

LEMMA PlanDaySound ==
    ASSUME PerMinute = 1, NEW w, NEW days, IsWorld(w, days), NEW d \in days, d \in Int,
           NEW today, NEW must, NEW late0, SeenAlike(w, d, late0),
           NEW result \in PlanDay(w, d, today, must, late0),
           result.released \cap Stopped(result.routes) = {}
    PROVE  DaySound(w, late0, result.routes)
<1>1. PICK js : js = Candidates(w, d, today)
    OBVIOUS
<1>2. js \in SUBSET DOMAIN w.jobs /\ \A j \in js : w.jobs[j].ready <= d
    BY <1>1 DEF Candidates
<1>3. RoutesOK(result.routes)
    BY PlanDayMeans DEF IsWorld
<1>4. CASE result.routes = {}
    BY <1>3, <1>4 DEF DaySound, Exclusive
<1>5. ASSUME NEW s, Solved(w, d, js, must, late0, result, s) PROVE DaySound(w, late0, result.routes)
    <2>1. /\ result.routes = RoutesOf(w, d, s) /\ AreRuns(w, d, js, s)
          /\ \A r \in s : r.van \in VansOn(w, d) /\ r \in Runs(w, d, r.van, js, late0)
          /\ \A r, q \in s : r # q => r.van # q.van /\ Disjoint(r, q)
          /\ Stopped(result.routes) = Served(s)
        BY <1>5 DEF Solved
    <2>2. PICK day : js = Candidates(w, d, day) /\ result = Outcome(w, d, day, s)
        BY <1>5 DEF Solved
    <2>3. ASSUME NEW r \in s PROVE r.loose = {}
        <3>1. r.loose \subseteq ToSet(r.stops) /\ r.loose \subseteq {j \in js : Confirmed(w.jobs[j])}
            BY <2>1 DEF Runs
        <3>2. \A j \in r.loose : j \in result.released
            BY <2>2, <3>1 DEF Outcome
        <3>3. \A j \in r.loose : j \in Served(s)
            BY <3>1 DEF Served
        <3> QED
            BY <2>1, <3>2, <3>3
    <2>4. ASSUME NEW r \in s
          PROVE  /\ Sound(w, late0, MaterializeRoute(w, d, r)) /\ VanFree(w, MaterializeRoute(w, d, r))
                 /\ MaterializeRoute(w, d, r).van = r.van /\ MaterializeRoute(w, d, r).crew = r.crew
        <3>1. PICK route : route = MaterializeRoute(w, d, r)
            OBVIOUS
        <3>2. PICK n : IsRun(w, d, r, js, route, n)
            BY <2>1, <3>1 DEF AreRuns
        <3>3. route.van = r.van /\ route.crew = r.crew /\ route.day = d
            BY <3>2 DEF IsRun, Replays
        <3>4. Sound(w, late0, route) /\ ~Out(w.vans[r.van].outages, d, Span(route))
            <4>1. PICK v : v = r.van
                OBVIOUS
            <4>2. v \in VansOn(w, d) /\ r \in Runs(w, d, v, js, late0) /\ r.loose = {}
                BY <2>1, <2>3, <4>1
            <4>3. Sound(w, late0, route) /\ ~Out(w.vans[v].outages, d, Span(route))
                BY <1>2, <3>2, <4>2, RunSound
            <4> QED
                BY <4>1, <4>3
        <3> QED
            BY <3>1, <3>3, <3>4 DEF VanFree
    <2>5. \A a \in result.routes : Sound(w, late0, a) /\ VanFree(w, a)
        BY <2>1, <2>4 DEF RoutesOf
    <2>6. ASSUME NEW a \in result.routes, NEW b \in result.routes, a # b PROVE a.crew \cap b.crew = {} /\ a.van # b.van
        <3>1. PICK r \in s : a = MaterializeRoute(w, d, r)
            BY <2>1 DEF RoutesOf
        <3>2. PICK q \in s : b = MaterializeRoute(w, d, q)
            BY <2>1 DEF RoutesOf
        <3>3. r # q
            BY <2>6, <3>1, <3>2
        <3>4. r.van # q.van /\ r.crew \cap q.crew = {}
            BY <2>1, <3>3 DEF Disjoint
        <3> QED
            BY <2>4, <3>1, <3>2, <3>4
    <2> QED
        BY <1>3, <2>5, <2>6 DEF DaySound, Exclusive, Apart
<1> QED
    BY <1>1, <1>4, <1>5, PlanDaySolved

\* The crews of a day that is planned leave on that day.
LEMMA PlanDayStarts ==
    ASSUME NEW w, NEW days, IsWorld(w, days), NEW d \in Int, NEW today, NEW must, NEW late0,
           NEW result \in PlanDay(w, d, today, must, late0)
    PROVE  \A route \in result.routes : route.stops # <<>> /\ 0 <= Span(route)[1]
<1>1. PICK js : js = Candidates(w, d, today)
    OBVIOUS
<1>2. ASSUME NEW s, Solved(w, d, js, must, late0, result, s), NEW route \in result.routes
      PROVE  route.stops # <<>> /\ 0 <= Span(route)[1]
    <2>1. PICK r \in s : route = MaterializeRoute(w, d, r)
        BY <1>2 DEF Solved, RoutesOf
    <2>2. PICK n : IsRun(w, d, r, js, route, n)
        BY <1>2, <2>1 DEF Solved, AreRuns
    <2>3. /\ n \in Nat \ {0} /\ DOMAIN route.stops = 1..n /\ RouteTyped(route)
          /\ r.depart \in 0..Minutes /\ r.depart <= route.stops[1].arrive - route.stops[1].travel
        BY <2>2 DEF IsRun, Replays
    <2>4. route.stops # <<>>
        <3>1. 1 \in 1..n /\ DOMAIN <<>> = {}
            BY <2>3
        <3> QED
            BY <2>3, <3>1
    <2>5. Span(route)[1] = route.stops[1].arrive - route.stops[1].travel /\ Span(route)[1] \in Int
        BY <2>3, <2>4, SpanMeans
    <2>6. r.depart <= Span(route)[1] /\ 0 <= r.depart /\ r.depart \in Int
        BY <2>3, <2>5
    <2>7. 0 <= Span(route)[1]
        BY <2>5, <2>6
    <2> QED
        BY <2>4, <2>7
<1> QED
    BY <1>1, <1>2, PlanDaySolved

-----------------------------------------------------------------------------
(* The checker looks at what a route drives and carries, and at its crew's   *)
(* hours: a world that has these looks the same.                             *)

\* Crews are out less in u than in w, and all else that a route asks is there.
Alike(w, u) ==
    /\ u.delays = w.delays
    /\ \A j \in DOMAIN w.jobs :
          /\ j \in DOMAIN u.jobs
          /\ u.jobs[j].at = w.jobs[j].at /\ u.jobs[j].dur = w.jobs[j].dur
          /\ u.jobs[j].crew = w.jobs[j].crew /\ u.jobs[j].certs = w.jobs[j].certs
          /\ u.jobs[j].ready = w.jobs[j].ready /\ u.jobs[j].load = w.jobs[j].load
    /\ DOMAIN u.fitters = DOMAIN w.fitters
    /\ \A f \in DOMAIN w.fitters :
          /\ u.fitters[f].shift = w.fitters[f].shift /\ u.fitters[f].certs = w.fitters[f].certs
          /\ u.fitters[f].eligible = w.fitters[f].eligible
          /\ u.fitters[f].outages \subseteq w.fitters[f].outages
    /\ DOMAIN u.vans = DOMAIN w.vans /\ \A v \in DOMAIN w.vans : u.vans[v].room = w.vans[v].room

LEMMA SoundElsewhere ==
    ASSUME NEW w, NEW u, NEW days, IsWorld(w, days), IsWorld(u, days), Alike(w, u),
           NEW late0, NEW r, RouteTyped(r), Sound(w, late0, r), \A i \in DOMAIN r.stops : Windowed(u, r, i)
    PROVE  Sound(u, late0, r)
<1>1. PICK n \in Nat : r.stops = [i \in 1..n |-> r.stops[i]]
    BY DEF RouteTyped, IsRoute
<1>2. DOMAIN r.stops = 1..n
    BY <1>1
<1>3. /\ r.crew \subseteq DOMAIN w.fitters /\ r.van \in DOMAIN w.vans
      /\ \A i \in 1..n : r.stops[i].job \in DOMAIN w.jobs
    BY <1>2 DEF Sound, Knows
<1>4. Knows(u, r)
    BY <1>2, <1>3 DEF Alike, Knows
<1>5. Loaded(u, r)
    <2> SUFFICES ASSUME NEW g \in Goods PROVE ~(Carries(u, r, g) > u.vans[r.van].room[g])
        BY DEF Loaded
    <2>1. \A i \in 1..n : /\ w.jobs[r.stops[i].job].load[g] \in Nat
                          /\ u.jobs[r.stops[i].job].load[g] = w.jobs[r.stops[i].job].load[g]
        BY <1>3 DEF IsWorld, IsJob, Alike
    <2>2. Carries(w, r, g) = SumOver(Burden(w, r, g), 1..n)
        BY <1>2, <2>1, CarriesMeans
    <2>3. Carries(u, r, g) = SumOver(Burden(u, r, g), 1..n)
        BY <1>2, <2>1, CarriesMeans
    <2>4. Burden(u, r, g) = Burden(w, r, g)
        BY <1>2, <2>1 DEF Burden
    <2>5. ~(Carries(w, r, g) > w.vans[r.van].room[g])
        BY DEF Sound, Loaded
    <2>6. u.vans[r.van].room = w.vans[r.van].room
        BY <1>3 DEF Alike
    <2> QED
        BY <2>2, <2>3, <2>4, <2>5, <2>6
<1>6. ASSUME NEW i \in 1..n PROVE Skilled(u, r, i) /\ ~Strays(u, r, i)
    <2>1. Skilled(w, r, i) /\ ~Strays(w, r, i)
        BY <1>2 DEF Sound
    <2>2. PICK a, b : a = w.jobs[r.stops[i].job] /\ b = u.jobs[r.stops[i].job]
        OBVIOUS
    <2>3. b.at = a.at /\ b.dur = a.dur /\ b.crew = a.crew /\ b.certs = a.certs /\ b.ready = a.ready
        BY <1>3, <2>2 DEF Alike
    <2>4. UNION {u.fitters[f].certs : f \in r.crew} = UNION {w.fitters[f].certs : f \in r.crew}
        BY <1>3 DEF Alike
    <2>5. Skilled(u, r, i)
        BY <2>1, <2>2, <2>3, <2>4 DEF Skilled
    <2>6. Origin(u, r, i) = Origin(w, r, i)
        <3>1. CASE i = 1
            BY <3>1 DEF Origin
        <3>2. CASE i # 1
            <4>1. i - 1 \in 1..n
                BY <3>2
            <4> QED
                BY <1>3, <3>2, <4>1 DEF Origin, Alike
        <3> QED
            BY <3>1, <3>2
    <2>7. u.delays = w.delays
        BY DEF Alike
    <2>8. ~Strays(u, r, i)
        BY <2>1, <2>2, <2>3, <2>6, <2>7 DEF Strays
    <2> QED
        BY <2>5, <2>8
<1>7. ASSUME r.stops # <<>>, NEW f \in r.crew PROVE Worked(u, late0, r, f)
    <2>1. Worked(w, late0, r, f)
        BY <1>7 DEF Sound
    <2>2. f \in DOMAIN w.fitters
        BY <1>3
    <2>3. PICK a, b : a = w.fitters[f] /\ b = u.fitters[f]
        OBVIOUS
    <2>4. b.shift = a.shift /\ b.eligible = a.eligible /\ b.outages \subseteq a.outages
        BY <2>2, <2>3 DEF Alike
    <2>5. Out(b.outages, r.day, Span(r)) => Out(a.outages, r.day, Span(r))
        BY <2>4 DEF Out
    <2> QED
        BY <2>1, <2>3, <2>4, <2>5 DEF Worked
<1> QED
    BY <1>2, <1>4, <1>5, <1>6, <1>7 DEF Sound

\* Out for longer meets more outages.
LEMMA OutLonger ==
    ASSUME NEW outages \in SUBSET [from : Int, until : Int], NEW d \in Int, NEW p, NEW q,
           {p[1], p[2], q[1], q[2]} \subseteq Int, q[1] <= p[1], p[2] <= q[2], Out(outages, d, p)
    PROVE  Out(outages, d, q)
<1>1. PICK o \in outages : Covers([from |-> Clock(d, o.from), until |-> Clock(d, o.until)], p[1], p[2])
    BY DEF Out
<1>2. PICK a, b : a = Clock(d, o.from) /\ b = Clock(d, o.until)
    OBVIOUS
<1>3. a \in Int /\ b \in Int
    <2>1. o.from \in Int /\ o.until \in Int
        OBVIOUS
    <2>2. Minutes \in Int
        BY HoursConstants
    <2> QED
        BY <1>2, <2>1, <2>2 DEF Clock
<1>4. ~(p[2] <= a) /\ p[1] < b
    BY <1>1, <1>2 DEF Covers
<1>5. ~(q[2] <= a) /\ q[1] < b
    <2>1. PICK x \in Int, y \in Int, s \in Int, t \in Int : x = p[1] /\ y = p[2] /\ s = q[1] /\ t = q[2]
        OBVIOUS
    <2>2. s <= x /\ y <= t /\ ~(y <= a) /\ x < b
        BY <1>4, <2>1
    <2>3. ~(t <= a) /\ s < b
        BY ONLY <1>3, <2>2
    <2> QED
        BY <2>1, <2>3
<1> QED
    BY <1>1, <1>2, <1>5 DEF Out, Covers
==============================================================================
