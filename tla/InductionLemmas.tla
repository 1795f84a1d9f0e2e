-------------------------- MODULE InductionLemmas ---------------------------
(***************************************************************************)
(* Induction over the natural numbers, and what follows from it: bounded   *)
(* numbers have a greatest, and a fold along a sequence goes through       *)
(* stages, each its operator applied to the stage before; a fold of a set  *)
(* has what every step of it keeps.                                        *)
(***************************************************************************)
EXTENDS Integers, FiniteSetsExt, FiniteSetTheorems, WellFoundedInduction, TLAPS

LEMMA NatsAreWellFounded ==
    IsWellFoundedOn({ss \in Nat \X Nat : ss[1] < ss[2]}, Nat)
BY NatLessThanWellFounded DEF OpToRel

\* A set of numbers that holds 0 and every number's successor holds them all.
LEMMA SetInduction ==
    ASSUME NEW S \in SUBSET Nat, 0 \in S, \A n \in S : n + 1 \in S
    PROVE  S = Nat
<1> DEFINE R == {ss \in Nat \X Nat : ss[1] < ss[2]}
<1> DEFINE T == Nat \ S
<1> SUFFICES ASSUME T # {} PROVE FALSE
    OBVIOUS
<1>1. \E x \in T : \A y \in T : ~(<<y, x>> \in R)
    <2>1. T \subseteq Nat /\ T # {}
        OBVIOUS
    <2> HIDE DEF T
    <2> QED
        BY <2>1, NatsAreWellFounded, WFMin
<1>2. PICK x \in T : \A y \in T : ~(<<y, x>> \in R)
    BY <1>1
<1>3. x # 0 /\ x \in Nat /\ x - 1 \in Nat /\ (x - 1) + 1 = x
    BY <1>2
<1>4. x - 1 \in T
    BY <1>2, <1>3
<1>5. <<x - 1, x>> \in R
    BY <1>3
<1> QED
    BY <1>2, <1>4, <1>5

\* The same up to a bound.
LEMMA IntervalInduction ==
    ASSUME NEW n \in Nat, NEW S, 0 \in S, \A k \in 0..n - 1 : k \in S => k + 1 \in S
    PROVE  \A k \in 0..n : k \in S
<1> DEFINE T == {k \in Nat : k <= n => k \in S}
<1>1. T \in SUBSET Nat /\ 0 \in T
    OBVIOUS
<1>2. \A k \in T : k + 1 \in T
    OBVIOUS
<1>3. T = Nat
    <2> HIDE DEF T
    <2> QED
        BY <1>1, <1>2, SetInduction
<1> QED
    BY <1>3

\* Numbers that are bounded have a greatest among them.
LEMMA BoundedHaveGreatest ==
    ASSUME NEW n \in Nat, NEW T \in SUBSET (0..n), T # {}
    PROVE  \E x \in T : \A y \in T : y <= x
<1> DEFINE S == {k \in 0..n : \A t \in SUBSET (0..k) : t # {} => \E x \in t : \A y \in t : y <= x}
<1>1. 0 \in S
    <2>1. 0..0 = {0} /\ 0 \in 0..n
        OBVIOUS
    <2>2. \A t \in SUBSET (0..0) : t # {} => \E x \in t : \A y \in t : y <= x
        <3> TAKE t \in SUBSET (0..0)
        <3> HAVE t # {}
        <3>1. \A y \in t : y = 0
            BY <2>1
        <3>2. PICK x \in t : TRUE
            OBVIOUS
        <3>3. \A y \in t : y <= x
            BY <3>1, <3>2
        <3> QED
            BY <3>3
    <2> QED
        BY <2>1, <2>2
<1>2. ASSUME NEW k \in 0..n - 1, k \in S PROVE k + 1 \in S
    <2>1. ASSUME NEW t \in SUBSET (0..k + 1), t # {} PROVE \E x \in t : \A y \in t : y <= x
        <3>1. CASE k + 1 \in t
            BY <3>1
        <3>2. CASE k + 1 \notin t
            <4>1. t \in SUBSET (0..k)
                BY <3>2
            <4> QED
                BY <1>2, <2>1, <4>1
        <3> QED
            BY <3>1, <3>2
    <2>2. k + 1 \in 0..n
        OBVIOUS
    <2> QED
        BY <2>1, <2>2
<1>3. n \in S
    <2> HIDE DEF S
    <2>1. \A k \in 0..n : k \in S
        BY <1>1, <1>2, IntervalInduction
    <2> QED
        BY <2>1
<1> QED
    BY <1>3

\* The numbers along a finite sequence are bounded.
LEMMA ValuesAreBounded ==
    ASSUME NEW n \in Nat, NEW f \in [1..n -> Nat]
    PROVE  \E m \in Nat : \A i \in 1..n : f[i] <= m
<1> DEFINE S == {k \in 0..n : \E m \in Nat : \A i \in 1..k : f[i] <= m}
<1>1. 0 \in S
    <2>1. 0 \in 0..n /\ \A i \in 1..0 : f[i] <= 0
        OBVIOUS
    <2> QED
        BY <2>1
<1>2. ASSUME NEW k \in 0..n - 1, k \in S PROVE k + 1 \in S
    <2>1. PICK m \in Nat : \A i \in 1..k : f[i] <= m
        BY <1>2
    <2>2. k + 1 \in 1..n /\ k + 1 \in 0..n /\ f[k + 1] \in Nat
        OBVIOUS
    <2>3. \A i \in 1..k + 1 : i \in 1..n /\ (i = k + 1 \/ i \in 1..k)
        OBVIOUS
    <2>4. \A i \in 1..k + 1 : f[i] <= m + f[k + 1]
        BY <2>1, <2>2, <2>3
    <2>5. m + f[k + 1] \in Nat
        BY <2>2
    <2> QED
        BY <2>2, <2>4, <2>5
<1>3. n \in S
    <2> HIDE DEF S
    <2>1. \A k \in 0..n : k \in S
        BY <1>1, <1>2, IntervalInduction
    <2> QED
        BY <2>1
<1> QED
    BY <1>3

LEMMA MaxOfInterval == \A n \in Nat \ {0} : Max(1..n) = n
<1> TAKE n \in Nat \ {0}
<1>1. n \in 1..n /\ \A y \in 1..n : n >= y
    OBVIOUS
<1>2. \A x \in 1..n : (\A y \in 1..n : x >= y) => x = n
    OBVIOUS
<1> QED
    BY <1>1, <1>2 DEF Max

LEMMA MaxIsIn ==
    ASSUME NEW n \in Nat, NEW s \in SUBSET (1..n), s # {}
    PROVE  Max(s) \in s
<1>1. s \in SUBSET (0..n)
    OBVIOUS
<1>2. PICK x \in s : \A y \in s : y <= x
    BY <1>1, BoundedHaveGreatest
<1>3. \A y \in s : x >= y
    BY <1>1, <1>2
<1> QED
    BY <1>3 DEF Max

\* Numbers with a bound on one side have an extreme there.
LEMMA MaxMeans ==
    ASSUME NEW b \in Int, NEW T \in SUBSET Int, T # {}, \A y \in T : y <= b
    PROVE  Max(T) \in T /\ Max(T) \in Int /\ \A y \in T : y <= Max(T)
<1>0. PICK z \in T : TRUE
    OBVIOUS
<1>1. z \in T /\ z \in Int /\ b - z \in Nat
    OBVIOUS
<1> DEFINE N == {c \in 0..b - z : z + c \in T}
<1>2. N \in SUBSET (0..b - z) /\ 0 \in N
    BY <1>1
<1>3. PICK c \in N : \A e \in N : e <= c
    <2> HIDE DEF N
    <2> QED
        BY <1>1, <1>2, BoundedHaveGreatest
<1>4. z + c \in T /\ c \in 0..b - z
    OBVIOUS
<1>5. ASSUME NEW y \in T PROVE y <= z + c
    <2>1. y \in Int /\ y <= b
        OBVIOUS
    <2>2. CASE y <= z
        BY <1>1, <1>4, <2>1, <2>2
    <2>3. CASE y > z
        <3>1. y - z \in 0..b - z /\ z + (y - z) = y
            BY <1>1, <2>1, <2>3
        <3>2. y - z \in N
            BY <3>1
        <3>3. y - z <= c
            BY <1>3, <3>2
        <3> QED
            BY <1>1, <1>4, <2>1, <3>3
    <2> QED
        BY <1>1, <2>1, <2>2, <2>3
<1>6. \A y \in T : z + c >= y
    BY <1>1, <1>4, <1>5
<1>7. PICK m \in T : m = Max(T) /\ \A y \in T : m >= y
    BY <1>4, <1>6 DEF Max
<1> QED
    BY <1>7

LEMMA MinMeans ==
    ASSUME NEW b \in Int, NEW T \in SUBSET Int, T # {}, \A y \in T : b <= y
    PROVE  Min(T) \in T /\ Min(T) \in Int /\ \A y \in T : Min(T) <= y
<1>0. PICK z \in T : TRUE
    OBVIOUS
<1>1. z \in T /\ z \in Int /\ z - b \in Nat
    OBVIOUS
<1> DEFINE N == {c \in 0..z - b : z - c \in T}
<1>2. N \in SUBSET (0..z - b) /\ 0 \in N
    BY <1>1
<1>3. PICK c \in N : \A e \in N : e <= c
    <2> HIDE DEF N
    <2> QED
        BY <1>1, <1>2, BoundedHaveGreatest
<1>4. z - c \in T /\ c \in 0..z - b
    OBVIOUS
<1>5. ASSUME NEW y \in T PROVE z - c <= y
    <2>1. y \in Int /\ b <= y
        OBVIOUS
    <2>2. CASE z <= y
        BY <1>1, <1>4, <2>1, <2>2
    <2>3. CASE z > y
        <3>1. z - y \in 0..z - b /\ z - (z - y) = y
            BY <1>1, <2>1, <2>3
        <3>2. z - y \in N
            BY <3>1
        <3>3. z - y <= c
            BY <1>3, <3>2
        <3> QED
            BY <1>1, <1>4, <2>1, <3>3
    <2> QED
        BY <1>1, <2>1, <2>2, <2>3
<1>6. PICK m \in T : m = Min(T) /\ \A y \in T : m <= y
    BY <1>4, <1>5 DEF Min
<1> QED
    BY <1>6

LEMMA MaxOfUpper ==
    ASSUME NEW n \in Nat, NEW s \in SUBSET (1..n + 1), n + 1 \in s
    PROVE  Max(s) = n + 1
<1>1. \A y \in s : n + 1 >= y
    OBVIOUS
<1>2. \A x \in s : (\A y \in s : x >= y) => x = n + 1
    OBVIOUS
<1> QED
    BY <1>1, <1>2 DEF Max

\* The function by which the community modules define a fold: what folding a
\* sequence of length n over some of its indices gives.
IsFold(iter, n, base, step) ==
    \A s \in SUBSET (1..n) :
        iter[s] = IF s = {} THEN base ELSE step[Max(s)][iter[s \ {Max(s)}]]

\* The same of a function whose values are not known to be stages yet.
FoldsStages(iter, n, States, base, step) ==
    /\ iter[{}] = base
    /\ \A s \in SUBSET (1..n) : s # {} /\ iter[s \ {Max(s)}] \in States =>
           iter[s] = step[Max(s)][iter[s \ {Max(s)}]]

\* The stages of folding all of it, from left to right.
AreStages(stage, iter, n, base, step) ==
    /\ stage[0] = base
    /\ \A k \in 1..n : stage[k] = step[k][stage[k - 1]]
    /\ stage[n] = iter[1..n]

\* There is such a function, when every step is one on the stages.
LEMMA FoldExists ==
    ASSUME NEW n \in Nat, NEW States, NEW base \in States,
           NEW step \in [1..n -> [States -> States]]
    PROVE  \E iter \in [SUBSET (1..n) -> States] : IsFold(iter, n, base, step)
<1> USE DEF IsFold
<1> DEFINE Good(k, iter) == \A s \in SUBSET (1..k) :
               iter[s] = IF s = {} THEN base ELSE step[Max(s)][iter[s \ {Max(s)}]]
<1> DEFINE S == {k \in 0..n : \E iter \in [SUBSET (1..k) -> States] : Good(k, iter)}
<1>1. 0 \in S
    <2> DEFINE iter == [s \in SUBSET (1..0) |-> base]
    <2>1. SUBSET (1..0) = {{}}
        OBVIOUS
    <2>2. iter \in [SUBSET (1..0) -> States]
        OBVIOUS
    <2>3. Good(0, iter)
        BY <2>1
    <2>4. 0 \in 0..n
        OBVIOUS
    <2> HIDE DEF iter, Good
    <2>5. \E it \in [SUBSET (1..0) -> States] : Good(0, it)
        BY <2>2, <2>3
    <2> QED
        BY <2>4, <2>5
<1>2. ASSUME NEW k \in 0..n - 1, k \in S PROVE k + 1 \in S
    <2>1. PICK iter \in [SUBSET (1..k) -> States] : Good(k, iter)
        BY <1>2
    <2> DEFINE next == [s \in SUBSET (1..k + 1) |->
                            IF k + 1 \in s THEN step[k + 1][iter[s \ {k + 1}]] ELSE iter[s]]
    <2>2. ASSUME NEW s \in SUBSET (1..k + 1)
          PROVE  /\ k + 1 \notin s => s \in SUBSET (1..k)
                 /\ s \ {k + 1} \in SUBSET (1..k) /\ s \ {k + 1} \in SUBSET (1..k + 1)
                 /\ k + 1 \in 1..n
        OBVIOUS
    <2>3. next \in [SUBSET (1..k + 1) -> States]
        BY <2>2
    <2>4. ASSUME NEW s \in SUBSET (1..k + 1)
          PROVE  next[s] = IF s = {} THEN base ELSE step[Max(s)][next[s \ {Max(s)}]]
        <3>1. CASE k + 1 \in s
            <4>1. Max(s) = k + 1 /\ s # {}
                BY <3>1, MaxOfUpper
            <4>2. next[s \ {k + 1}] = iter[s \ {k + 1}]
                BY <2>2
            <4> QED
                BY <3>1, <4>1, <4>2
        <3>2. CASE k + 1 \notin s
            <4>1. s \in SUBSET (1..k) /\ next[s] = iter[s]
                BY <2>2, <3>2
            <4>2. CASE s = {}
                BY <2>1, <4>1, <4>2
            <4>3. CASE s # {}
                <5>1. s \ {Max(s)} \in SUBSET (1..k) /\ s \ {Max(s)} \in SUBSET (1..k + 1)
                      /\ k + 1 \notin s \ {Max(s)}
                    BY <3>2, <4>1
                <5>2. next[s \ {Max(s)}] = iter[s \ {Max(s)}]
                    BY <5>1
                <5> HIDE DEF next
                <5> QED
                    BY <2>1, <4>1, <4>3, <5>2
            <4> QED
                BY <4>2, <4>3
        <3> QED
            BY <3>1, <3>2
    <2>5. Good(k + 1, next)
        BY <2>4
    <2>6. k + 1 \in 0..n
        OBVIOUS
    <2> HIDE DEF next, Good
    <2> QED
        BY <2>3, <2>5, <2>6
<1>3. n \in S
    <2> HIDE DEF S
    <2>1. \A k \in 0..n : k \in S
        BY <1>1, <1>2, IntervalInduction
    <2> QED
        BY <2>1
<1> QED
    BY <1>3

\* Along an interval, such a function goes through the stages of the fold.
LEMMA FoldStages ==
    ASSUME NEW n \in Nat, NEW States, NEW base \in States,
           NEW step \in [1..n -> [States -> States]],
           NEW iter, FoldsStages(iter, n, States, base, step)
    PROVE  \E stage \in [0..n -> States] : AreStages(stage, iter, n, base, step)
<1> USE DEF FoldsStages, AreStages
<1>1. ASSUME NEW k \in 0..n - 1, iter[1..k] \in States
      PROVE  iter[1..k + 1] = step[k + 1][iter[1..k]] /\ iter[1..k + 1] \in States
    <2>1. (1..k + 1) \in SUBSET (1..n) /\ 1..k + 1 # {} /\ (1..k + 1) \ {k + 1} = 1..k
        <3>1. k + 1 \in 1..k + 1 /\ \A i \in 1..k + 1 : i \in 1..n /\ (i = k + 1 \/ i \in 1..k)
            OBVIOUS
        <3>2. \A i \in 1..k : i \in 1..k + 1 /\ i # k + 1
            OBVIOUS
        <3> QED
            BY <3>1, <3>2
    <2>2. Max(1..k + 1) = k + 1
        BY MaxOfInterval
    <2>3. iter[1..k + 1] = step[k + 1][iter[1..k]]
        BY <1>1, <2>1, <2>2
    <2>4. k + 1 \in 1..n
        OBVIOUS
    <2> QED
        BY <1>1, <2>3, <2>4
<1> DEFINE S == {k \in 0..n : iter[1..k] \in States}
<1>2. \A k \in 0..n : k \in S
    <2>1. 0 \in S
        <3>1. 1..0 = {} /\ 0 \in 0..n
            OBVIOUS
        <3> QED
            BY <3>1
    <2>2. \A k \in 0..n - 1 : k \in S => k + 1 \in S
        BY <1>1
    <2> HIDE DEF S
    <2> QED
        BY <2>1, <2>2, IntervalInduction
<1> DEFINE stage == [k \in 0..n |-> iter[1..k]]
<1>3. stage \in [0..n -> States]
    BY <1>2
<1>4. stage[0] = base /\ stage[n] = iter[1..n]
    <2>1. 1..0 = {} /\ 0 \in 0..n /\ n \in 0..n
        OBVIOUS
    <2> QED
        BY <2>1
<1>5. \A k \in 1..n : stage[k] = step[k][stage[k - 1]]
    <2> TAKE k \in 1..n
    <2>1. k - 1 \in 0..n - 1 /\ k - 1 \in 0..n /\ k \in 0..n /\ (k - 1) + 1 = k
        OBVIOUS
    <2>2. iter[1..k - 1] \in States
        BY <1>2, <2>1
    <2>3. iter[1..(k - 1) + 1] = step[(k - 1) + 1][iter[1..k - 1]]
        BY <1>1, <2>1, <2>2
    <2> QED
        BY <2>1, <2>3
<1> HIDE DEF stage
<1> QED
    BY <1>3, <1>4, <1>5

\* A fold of a set takes its elements as CHOOSE does.
First(s) == CHOOSE x \in s : TRUE

LEMMA FirstOut ==
    ASSUME NEW S, IsFiniteSet(S), NEW s \in SUBSET S, s # {}
    PROVE  /\ First(s) \in s /\ s \ {First(s)} \in SUBSET S
           /\ Cardinality(s) \in Nat \ {0} /\ Cardinality(s \ {First(s)}) = Cardinality(s) - 1
           /\ Cardinality(s) <= Cardinality(S)
<1>1. First(s) \in s
    BY DEF First
<1>2. IsFiniteSet(s) /\ Cardinality(s) <= Cardinality(S)
    BY FS_Subset
<1>3. Cardinality(s) \in Nat /\ Cardinality(s) # 0
    BY <1>2, FS_CardinalityType, FS_EmptySet
<1>4. Cardinality(s \ {First(s)}) = Cardinality(s) - 1
    BY <1>1, <1>2, FS_RemoveElement
<1> QED
    BY <1>1, <1>2, <1>3, <1>4

IsSetFold(iter, S, base, step) ==
    \A s \in SUBSET S :
        iter[s] = IF s = {} THEN base ELSE step[First(s)][iter[s \ {First(s)}]]

\* There is such a function, when every step is one on the stages.
LEMMA SetFoldExists ==
    ASSUME NEW S, IsFiniteSet(S), NEW States, NEW base \in States,
           NEW step \in [S -> [States -> States]]
    PROVE  \E iter \in [SUBSET S -> States] : IsSetFold(iter, S, base, step)
<1> USE DEF IsSetFold
<1>1. PICK n \in Nat : n = Cardinality(S)
    BY FS_CardinalityType
<1>2. ASSUME NEW s \in SUBSET S, s # {}
      PROVE  /\ First(s) \in S /\ s \ {First(s)} \in SUBSET S
             /\ Cardinality(s) \in Nat /\ Cardinality(s) # 0 /\ Cardinality(s) <= n
             /\ Cardinality(s \ {First(s)}) = Cardinality(s) - 1
    <2>1. /\ First(s) \in s /\ s \ {First(s)} \in SUBSET S
          /\ Cardinality(s) \in Nat \ {0} /\ Cardinality(s \ {First(s)}) = Cardinality(s) - 1
          /\ Cardinality(s) <= Cardinality(S)
        BY <1>2, FirstOut
    <2> QED
        BY <1>1, <2>1
<1> DEFINE Small(k) == {s \in SUBSET S : Cardinality(s) <= k}
           Good(k, iter) == \A s \in Small(k) :
               iter[s] = IF s = {} THEN base ELSE step[First(s)][iter[s \ {First(s)}]]
           T == {k \in 0..n : \E iter \in [Small(k) -> States] : Good(k, iter)}
<1>3. 0 \in T
    <2> DEFINE iter == [s \in Small(0) |-> base]
    <2>1. \A s \in Small(0) : s = {}
        <3> SUFFICES ASSUME NEW s \in Small(0), s # {} PROVE FALSE
            OBVIOUS
        <3>1. s \in SUBSET S /\ Cardinality(s) <= 0
            OBVIOUS
        <3> HIDE DEF Small
        <3>2. Cardinality(s) \in Nat /\ Cardinality(s) # 0
            BY <1>2, <3>1
        <3> QED
            BY <3>1, <3>2
    <2>2. iter \in [Small(0) -> States] /\ Good(0, iter)
        BY <2>1
    <2>3. 0 \in 0..n
        OBVIOUS
    <2> HIDE DEF iter, Good, Small
    <2>4. \E it \in [Small(0) -> States] : Good(0, it)
        BY <2>2
    <2> QED
        BY <2>3, <2>4
<1>4. ASSUME NEW k \in 0..n - 1, k \in T PROVE k + 1 \in T
    <2>1. PICK iter \in [Small(k) -> States] : Good(k, iter)
        BY <1>4
    <2> DEFINE next == [s \in Small(k + 1) |->
                  IF s = {} THEN base ELSE step[First(s)][iter[s \ {First(s)}]]]
    <2>2. ASSUME NEW s \in Small(k + 1), s # {}
          PROVE  /\ First(s) \in S /\ s \ {First(s)} \in Small(k) /\ s \ {First(s)} \in Small(k + 1)
        BY <1>2, <2>2
    <2>3. next \in [Small(k + 1) -> States]
        <3>1. ASSUME NEW s \in Small(k + 1), s # {}
              PROVE  step[First(s)][iter[s \ {First(s)}]] \in States
            <4>1. First(s) \in S /\ iter[s \ {First(s)}] \in States
                BY <2>2, <3>1
            <4> QED
                BY <4>1
        <3> HIDE DEF Small
        <3> QED
            BY <3>1
    <2>4. \A s \in Small(k) : s \in Small(k + 1) /\ next[s] = iter[s]
        <3> TAKE s \in Small(k)
        <3>1. s \in Small(k + 1)
            <4>1. CASE s = {}
                BY <4>1, FS_EmptySet
            <4>2. CASE s # {}
                <5>1. PICK c \in Nat : c = Cardinality(s) /\ c <= k
                    BY <1>2, <4>2
                <5> QED
                    BY <5>1
            <4> QED
                BY <4>1, <4>2
        <3>2. iter[s] = IF s = {} THEN base ELSE step[First(s)][iter[s \ {First(s)}]]
            BY <2>1
        <3> HIDE DEF Small
        <3> QED
            BY <3>1, <3>2
    <2>5. ASSUME NEW s \in Small(k + 1)
          PROVE  next[s] = IF s = {} THEN base ELSE step[First(s)][next[s \ {First(s)}]]
        <3>1. s # {} => next[s \ {First(s)}] = iter[s \ {First(s)}]
            BY <2>2, <2>4
        <3> HIDE DEF Small
        <3> QED
            BY <3>1
    <2>6. Good(k + 1, next)
        BY <2>5
    <2>7. k + 1 \in 0..n
        OBVIOUS
    <2> HIDE DEF next, Good, Small
    <2> QED
        BY <2>3, <2>6, <2>7
<1>5. n \in T
    <2> HIDE DEF T
    <2>1. \A k \in 0..n : k \in T
        BY <1>3, <1>4, IntervalInduction
    <2> QED
        BY <2>1
<1>6. Small(n) = SUBSET S
    <2>1. ASSUME NEW s \in SUBSET S PROVE Cardinality(s) <= n
        <3>1. CASE s = {}
            BY <3>1, FS_EmptySet
        <3>2. CASE s # {}
            <4>1. Cardinality(s) <= n
                BY <1>2, <3>2
            <4> QED
                BY <4>1
        <3> QED
            BY <3>1, <3>2
    <2> QED
        BY <2>1
<1>7. PICK iter \in [Small(n) -> States] : Good(n, iter)
    BY <1>5
<1>8. iter \in [SUBSET S -> States]
    <2> HIDE DEF Small, Good
    <2> QED
        BY <1>6, <1>7
<1>9. \A s \in SUBSET S :
        iter[s] = IF s = {} THEN base ELSE step[First(s)][iter[s \ {First(s)}]]
    <2>1. \A s \in Small(n) :
        iter[s] = IF s = {} THEN base ELSE step[First(s)][iter[s \ {First(s)}]]
        BY <1>7
    <2> HIDE DEF Small, Good
    <2> QED
        BY <1>6, <2>1
<1> QED
    BY <1>8, <1>9

\* What holds at the start and is kept by every step holds of the fold.
LEMMA SetFoldKeeps ==
    ASSUME NEW S, IsFiniteSet(S), NEW States, NEW iter, iter[{}] \in States,
           \A s \in SUBSET S : s # {} /\ iter[s \ {First(s)}] \in States => iter[s] \in States
    PROVE  iter[S] \in States
<1>1. PICK n \in Nat : n = Cardinality(S)
    BY FS_CardinalityType
<1> DEFINE T == {k \in 0..n : \A s \in SUBSET S : Cardinality(s) = k => iter[s] \in States}
<1>2. 0 \in T
    <2>1. ASSUME NEW s \in SUBSET S, Cardinality(s) = 0 PROVE s = {}
        BY <2>1, FirstOut
    <2>2. 0 \in 0..n
        OBVIOUS
    <2> QED
        BY <2>1, <2>2
<1>3. ASSUME NEW k \in 0..n - 1, k \in T PROVE k + 1 \in T
    <2>1. ASSUME NEW s \in SUBSET S, Cardinality(s) = k + 1 PROVE iter[s] \in States
        <3>1. s # {}
            <4>1. Cardinality({}) = 0 /\ k + 1 # 0
                BY FS_EmptySet
            <4> QED
                BY <2>1, <4>1
        <3>2. s \ {First(s)} \in SUBSET S /\ Cardinality(s \ {First(s)}) = k
            BY <2>1, <3>1, FirstOut
        <3>3. iter[s \ {First(s)}] \in States
            BY <1>3, <3>2
        <3> QED
            BY <3>1, <3>3
    <2>2. k + 1 \in 0..n
        OBVIOUS
    <2> QED
        BY <2>1, <2>2
<1>4. n \in T
    <2> HIDE DEF T
    <2>1. \A k \in 0..n : k \in T
        BY <1>2, <1>3, IntervalInduction
    <2> QED
        BY <2>1
<1> QED
    BY <1>1, <1>4


-----------------------------------------------------------------------------
(* Sums.                                                                   *)

\* What holds of nothing and goes on holding as elements are added holds of a
\* finite set.
LEMMA FiniteInduction ==
    ASSUME NEW S, IsFiniteSet(S), NEW Q, {} \in Q,
           \A t \in SUBSET S, x \in S : t \in Q /\ x \notin t => t \cup {x} \in Q
    PROVE  S \in Q
<1> DEFINE it == [s \in SUBSET S |-> s]
<1>1. it[{}] \in Q
    OBVIOUS
<1>2. ASSUME NEW s \in SUBSET S, s # {}, it[s \ {First(s)}] \in Q PROVE it[s] \in Q
    <2>1. First(s) \in s /\ s \ {First(s)} \in SUBSET S
        BY <1>2, FirstOut
    <2>2. s \ {First(s)} \in Q
        BY <1>2, <2>1
    <2>3. (s \ {First(s)}) \cup {First(s)} = s
        BY <2>1
    <2>4. (s \ {First(s)}) \cup {First(s)} \in Q
        BY <2>1, <2>2
    <2> QED
        BY <2>3, <2>4
<1>3. it[S] \in Q
    <2> HIDE DEF it
    <2> QED
        BY <1>1, <1>2, SetFoldKeeps
<1> QED
    BY <1>3

\* The function by which the community modules define a sum.
Sums(iter, f, S) ==
    iter = [s \in SUBSET S |-> IF s = {} THEN 0 ELSE f[First(s)] + iter[s \ {First(s)}]]

SumOver(f, S) == (CHOOSE iter : Sums(iter, f, S))[S]

Counts(f, S) == \A x \in S : f[x] \in Nat

LEMMA SumsExist ==
    ASSUME NEW S, IsFiniteSet(S), NEW f, Counts(f, S)
    PROVE  \E iter : Sums(iter, f, S)
<1> DEFINE step == [x \in S |-> [n \in Nat |-> f[x] + n]]
<1>1. step \in [S -> [Nat -> Nat]]
    BY DEF Counts
<1>2. PICK iter \in [SUBSET S -> Nat] : IsSetFold(iter, S, 0, step)
    <2> HIDE DEF step
    <2> QED
        BY <1>1, SetFoldExists
<1>3. ASSUME NEW s \in SUBSET S
      PROVE  iter[s] = IF s = {} THEN 0 ELSE f[First(s)] + iter[s \ {First(s)}]
    <2>1. CASE s = {}
        <3> HIDE DEF step
        <3> QED
            BY <1>2, <2>1 DEF IsSetFold
    <2>2. CASE s # {}
        <3>1. First(s) \in S /\ s \ {First(s)} \in SUBSET S
            BY <2>2, FirstOut
        <3>2. step[First(s)][iter[s \ {First(s)}]] = f[First(s)] + iter[s \ {First(s)}]
            BY <1>2, <3>1
        <3> HIDE DEF step
        <3>3. iter[s] = step[First(s)][iter[s \ {First(s)}]]
            BY <1>2, <2>2 DEF IsSetFold
        <3> QED
            BY <2>2, <3>2, <3>3
    <2> QED
        BY <2>1, <2>2
<1> QED
    BY <1>2, <1>3 DEF Sums

\* There is one such function, as far as its values go.
LEMMA SumsAgree ==
    ASSUME NEW S, IsFiniteSet(S), NEW f, Counts(f, S),
           NEW a, Sums(a, f, S), NEW b, Sums(b, f, S)
    PROVE  a[S] = b[S]
<1> DEFINE same == [s \in SUBSET S |-> IF a[s] = b[s] THEN 1 ELSE 0]
           One == {1}
<1>1. same[{}] \in One
    BY DEF Sums
<1>2. ASSUME NEW s \in SUBSET S, s # {}, same[s \ {First(s)}] \in One PROVE same[s] \in One
    <2>1. s \ {First(s)} \in SUBSET S
        BY <1>2, FirstOut
    <2>2. a[s \ {First(s)}] = b[s \ {First(s)}]
        BY <1>2, <2>1
    <2>3. a[s] = f[First(s)] + a[s \ {First(s)}] /\ b[s] = f[First(s)] + b[s \ {First(s)}]
        BY <1>2 DEF Sums
    <2>4. a[s] = b[s]
        BY <2>2, <2>3
    <2> QED
        BY <2>4
<1>3. same[S] \in One
    <2> HIDE DEF same, One
    <2> QED
        BY <1>1, <1>2, SetFoldKeeps
<1> QED
    BY <1>3

LEMMA SumIs ==
    ASSUME NEW S, IsFiniteSet(S), NEW f, Counts(f, S), NEW iter, Sums(iter, f, S)
    PROVE  SumOver(f, S) = iter[S]
<1>1. Sums(CHOOSE it : Sums(it, f, S), f, S)
    BY SumsExist
<1> QED
    BY <1>1, SumsAgree DEF SumOver

LEMMA SumEmpty == ASSUME NEW f PROVE SumOver(f, {}) = 0
<1>1. IsFiniteSet({}) /\ Counts(f, {})
    BY FS_EmptySet DEF Counts
<1>2. PICK iter : Sums(iter, f, {})
    BY <1>1, SumsExist
<1>3. SumOver(f, {}) = iter[{}]
    BY <1>1, <1>2, SumIs
<1> QED
    BY <1>2, <1>3 DEF Sums

LEMMA SumStep ==
    ASSUME NEW S, IsFiniteSet(S), NEW f, Counts(f, S), S # {}
    PROVE  SumOver(f, S) = f[First(S)] + SumOver(f, S \ {First(S)})
<1> DEFINE T == S \ {First(S)}
<1>1. IsFiniteSet(T) /\ Counts(f, T) /\ T \in SUBSET S
    BY FS_Subset DEF Counts
<1>2. PICK iter : Sums(iter, f, S)
    BY SumsExist
<1> DEFINE rest == [s \in SUBSET T |-> iter[s]]
<1>3. ASSUME NEW s \in SUBSET T
      PROVE  rest[s] = IF s = {} THEN 0 ELSE f[First(s)] + rest[s \ {First(s)}]
    <2>1. iter[s] = IF s = {} THEN 0 ELSE f[First(s)] + iter[s \ {First(s)}]
        BY <1>2 DEF Sums
    <2>2. s \ {First(s)} \in SUBSET T
        OBVIOUS
    <2> HIDE DEF T
    <2> QED
        BY <2>1, <2>2
<1>4. Sums(rest, f, T)
    <2> HIDE DEF T
    <2> QED
        BY <1>3 DEF Sums
<1>5. SumOver(f, T) = iter[T]
    <2>1. SumOver(f, T) = rest[T]
        <3> HIDE DEF T, rest
        <3> QED
            BY <1>1, <1>4, SumIs
    <2> QED
        BY <2>1
<1>6. SumOver(f, S) = iter[S]
    BY <1>2, SumIs
<1> QED
    BY <1>2, <1>5, <1>6 DEF Sums

LEMMA SumTyped ==
    ASSUME NEW S, IsFiniteSet(S), NEW f, Counts(f, S)
    PROVE  SumOver(f, S) \in Nat
<1> DEFINE sum == [s \in SUBSET S |-> SumOver(f, s)]
<1>1. sum[{}] \in Nat
    BY SumEmpty
<1>2. ASSUME NEW s \in SUBSET S, s # {}, sum[s \ {First(s)}] \in Nat PROVE sum[s] \in Nat
    <2>1. First(s) \in S /\ s \ {First(s)} \in SUBSET S
        BY <1>2, FirstOut
    <2>2. IsFiniteSet(s) /\ Counts(f, s) /\ f[First(s)] \in Nat
        BY <2>1, FS_Subset DEF Counts
    <2>3. SumOver(f, s) = f[First(s)] + SumOver(f, s \ {First(s)})
        BY <1>2, <2>2, SumStep
    <2>4. SumOver(f, s \ {First(s)}) \in Nat
        BY <1>2, <2>1
    <2> QED
        BY <2>2, <2>3, <2>4
<1>3. sum[S] \in Nat
    <2> HIDE DEF sum
    <2> QED
        BY <1>1, <1>2, SetFoldKeeps
<1> QED
    BY <1>3

\* Any element may be counted last.
LEMMA SumRemove ==
    ASSUME NEW S, IsFiniteSet(S), NEW f, Counts(f, S), NEW x \in S
    PROVE  SumOver(f, S) = f[x] + SumOver(f, S \ {x})
<1> DEFINE Fine(t) == \A y \in t : SumOver(f, t) = f[y] + SumOver(f, t \ {y})
           n == Cardinality(S)
           T == {k \in 0..n : \A t \in SUBSET S : Cardinality(t) = k => Fine(t)}
<1>1. n \in Nat
    BY FS_CardinalityType
<1>2. \A t \in SUBSET S : IsFiniteSet(t) /\ Counts(f, t) /\ Cardinality(t) \in Nat
    BY FS_Subset, FS_CardinalityType DEF Counts
<1>3. 0 \in T
    <2>1. \A t \in SUBSET S : Cardinality(t) = 0 => t = {}
        BY <1>2, FS_EmptySet
    <2>2. 0 \in 0..n
        BY <1>1
    <2> HIDE DEF n
    <2> QED
        BY <2>1, <2>2
<1>4. ASSUME NEW k \in 0..n - 1, k \in T PROVE k + 1 \in T
    <2>1. ASSUME NEW t \in SUBSET S, Cardinality(t) = k + 1, NEW y \in t
          PROVE  SumOver(f, t) = f[y] + SumOver(f, t \ {y})
        <3>1. PICK c : c = First(t)
            OBVIOUS
        <3>2. /\ c \in t /\ SumOver(f, t) = f[c] + SumOver(f, t \ {c})
            BY <1>2, <2>1, <3>1, FirstOut, SumStep
        <3>3. CASE y = c
            BY <3>2, <3>3
        <3>4. CASE y # c
            <4>1. \A z \in t : t \ {z} \in SUBSET S /\ Cardinality(t \ {z}) = k
                <5>1. \A z \in t : Cardinality(t \ {z}) = Cardinality(t) - 1
                    BY <1>2, FS_RemoveElement
                <5> QED
                    BY <1>1, <2>1, <5>1
            <4>2. \A z \in t : Fine(t \ {z})
                <5> HIDE DEF Fine, n
                <5> QED
                    BY <1>4, <4>1
            <4>3. SumOver(f, t \ {c}) = f[y] + SumOver(f, (t \ {c}) \ {y})
                BY <2>1, <3>2, <3>4, <4>2
            <4>4. SumOver(f, t \ {y}) = f[c] + SumOver(f, (t \ {y}) \ {c})
                BY <2>1, <3>2, <3>4, <4>2
            <4>5. (t \ {c}) \ {y} = (t \ {y}) \ {c}
                OBVIOUS
            <4>6. PICK rest \in Nat : rest = SumOver(f, (t \ {y}) \ {c})
                <5>1. (t \ {y}) \ {c} \in SUBSET S
                    OBVIOUS
                <5> QED
                    BY <1>2, <5>1, SumTyped
            <4>7. f[y] \in Nat /\ f[c] \in Nat
                BY <2>1, <3>2 DEF Counts
            <4>8. SumOver(f, t) = f[c] + (f[y] + rest) /\ SumOver(f, t \ {y}) = f[c] + rest
                BY <3>2, <4>3, <4>4, <4>5, <4>6
            <4> QED
                BY <4>7, <4>8
        <3> QED
            BY <3>3, <3>4
    <2>2. k + 1 \in 0..n
        BY <1>1
    <2> QED
        BY <2>1, <2>2
<1>5. n \in T
    <2>1. \A k \in 0..n : k \in T
        <3> HIDE DEF T, n
        <3> QED
            BY <1>1, <1>3, <1>4, IntervalInduction
    <2>2. n \in 0..n
        BY <1>1
    <2> HIDE DEF T, n
    <2> QED
        BY <2>1, <2>2
<1> QED
    BY <1>5

\* Fewer things come to no more.
LEMMA SumMonotone ==
    ASSUME NEW S, IsFiniteSet(S), NEW f, Counts(f, S), NEW U \in SUBSET S
    PROVE  SumOver(f, U) <= SumOver(f, S)
<1> DEFINE Q == {t \in SUBSET S : SumOver(f, U \cap t) <= SumOver(f, t)}
<1>1. \A t \in SUBSET S : IsFiniteSet(t) /\ Counts(f, t) /\ SumOver(f, t) \in Nat
    BY FS_Subset, SumTyped DEF Counts
<1>2. {} \in Q
    <2>1. U \cap {} = {}
        OBVIOUS
    <2> QED
        BY <2>1, SumEmpty
<1>3. ASSUME NEW t \in SUBSET S, NEW x \in S, t \in Q, x \notin t PROVE t \cup {x} \in Q
    <2>1. SumOver(f, t \cup {x}) = f[x] + SumOver(f, t)
        <3>1. (t \cup {x}) \ {x} = t /\ t \cup {x} \in SUBSET S
            BY <1>3
        <3> QED
            BY <1>1, <3>1, SumRemove
    <2>2. f[x] \in Nat
        BY DEF Counts
    <2>3. SumOver(f, U \cap t) <= SumOver(f, t) /\ SumOver(f, U \cap t) \in Nat /\ SumOver(f, t) \in Nat
        BY <1>1, <1>3
    <2>4. CASE x \in U
        <3>1. (U \cap (t \cup {x})) \ {x} = U \cap t /\ U \cap (t \cup {x}) \in SUBSET S
              /\ x \in U \cap (t \cup {x})
            BY <1>3, <2>4
        <3>2. SumOver(f, U \cap (t \cup {x})) = f[x] + SumOver(f, U \cap t)
            BY <1>1, <3>1, SumRemove
        <3> QED
            BY <2>1, <2>2, <2>3, <3>2
    <2>5. CASE x \notin U
        <3>1. U \cap (t \cup {x}) = U \cap t
            BY <2>5
        <3>2. SumOver(f, U \cap (t \cup {x})) = SumOver(f, U \cap t)
            BY <3>1
        <3> QED
            BY <2>1, <2>2, <2>3, <3>2
    <2> QED
        BY <2>4, <2>5
<1>4. S \in Q
    <2> HIDE DEF Q
    <2> QED
        BY <1>2, <1>3, FiniteInduction
<1>5. U \cap S = U
    OBVIOUS
<1> QED
    BY <1>4, <1>5

\* A sum may be taken along whatever counts its things once.
LEMMA SumAlong ==
    ASSUME NEW S, IsFiniteSet(S), NEW g, NEW f, NEW h,
           \A i \in S : h[i] = f[g[i]] /\ h[i] \in Nat,
           \A i, k \in S : g[i] = g[k] => i = k
    PROVE  SumOver(h, S) = SumOver(f, {g[i] : i \in S})
<1> DEFINE Q == {t \in SUBSET S : /\ IsFiniteSet({g[i] : i \in t})
                                  /\ SumOver(h, t) = SumOver(f, {g[i] : i \in t})}
<1>1. ASSUME NEW t \in SUBSET S PROVE IsFiniteSet(t) /\ Counts(h, t) /\ Counts(f, {g[i] : i \in t})
    <2>1. IsFiniteSet(t)
        BY FS_Subset
    <2> QED
        BY <2>1 DEF Counts
<1>2. {} \in Q
    <2>1. {g[i] : i \in {}} = {}
        OBVIOUS
    <2> QED
        BY <2>1, SumEmpty, FS_EmptySet
<1>3. ASSUME NEW t \in SUBSET S, NEW x \in S, t \in Q, x \notin t PROVE t \cup {x} \in Q
    <2>1. t \cup {x} \in SUBSET S /\ (t \cup {x}) \ {x} = t
        BY <1>3
    <2>2. SumOver(h, t \cup {x}) = h[x] + SumOver(h, t)
        <3>1. IsFiniteSet(t \cup {x}) /\ Counts(h, t \cup {x}) /\ x \in t \cup {x}
            BY <1>1, <2>1
        <3>2. SumOver(h, t \cup {x}) = h[x] + SumOver(h, (t \cup {x}) \ {x})
            BY <3>1, SumRemove
        <3> QED
            BY <2>1, <3>2
    <2> DEFINE img == {g[i] : i \in t \cup {x}}
    <2>3. g[x] \in img /\ img \ {g[x]} = {g[i] : i \in t}
        BY <1>3
    <2>4. IsFiniteSet(img) /\ Counts(f, img)
        <3>1. IsFiniteSet({g[i] : i \in t} \cup {g[x]}) /\ img = {g[i] : i \in t} \cup {g[x]}
            BY <1>3, FS_AddElement
        <3> QED
            BY <1>1, <2>1, <3>1
    <2>5. SumOver(f, img) = f[g[x]] + SumOver(f, {g[i] : i \in t})
        <3> HIDE DEF img
        <3> QED
            BY <2>3, <2>4, SumRemove
    <2> QED
        BY <1>3, <2>1, <2>2, <2>4, <2>5
<1>4. S \in Q
    <2> HIDE DEF Q
    <2> QED
        BY <1>2, <1>3, FiniteInduction
<1> QED
    BY <1>4

-----------------------------------------------------------------------------
(* Products.                                                               *)

LEMMA TimesGrow ==
    \A a, b, c \in Nat \ {0} : /\ a * b \in Nat \ {0}
                              /\ b <= c => b <= a * c /\ a * b <= a * c
<1> SUFFICES ASSUME NEW a \in Nat \ {0}, NEW b \in Nat \ {0}, NEW c \in Nat \ {0}
             PROVE  /\ a * b \in Nat \ {0}
                    /\ b <= c => b <= a * c /\ a * b <= a * c
    OBVIOUS
<1>1. PICK k \in Nat : a = k + 1
    <2>1. a - 1 \in Nat /\ a = (a - 1) + 1
        OBVIOUS
    <2> QED
        BY <2>1
<1>2. k * b \in Nat /\ k * c \in Nat
    OBVIOUS
<1>3. a * b = k * b + b /\ a * c = k * c + c
    BY <1>1
<1>4. b <= c => k * b <= k * c
    OBVIOUS
<1> QED
    BY <1>2, <1>3, <1>4

LEMMA TimesSwap == \A a, b, c \in Nat : a * (b * c) = b * (a * c)
OBVIOUS

\* The function by which the community modules define a product.
Products(iter, f, S) ==
    iter = [s \in SUBSET S |-> IF s = {} THEN 1 ELSE f[First(s)] * iter[s \ {First(s)}]]

ProductOver(f, S) == (CHOOSE iter : Products(iter, f, S))[S]

Scales(f, S) == \A x \in S : f[x] \in Nat \ {0}

LEMMA ProductsExist ==
    ASSUME NEW S, IsFiniteSet(S), NEW f, Scales(f, S)
    PROVE  \E iter : Products(iter, f, S)
<1> DEFINE Pos == Nat \ {0}
           step == [x \in S |-> [n \in Pos |-> f[x] * n]]
<1>1. step \in [S -> [Pos -> Pos]]
    <2>1. \A x \in S : \A n \in Nat \ {0} : f[x] * n \in Nat \ {0}
        BY TimesGrow DEF Scales
    <2> QED
        BY <2>1
<1>2. PICK iter \in [SUBSET S -> Pos] : IsSetFold(iter, S, 1, step)
    <2>1. 1 \in Pos
        OBVIOUS
    <2> HIDE DEF step, Pos
    <2> QED
        BY <1>1, <2>1, SetFoldExists
<1>3. ASSUME NEW s \in SUBSET S
      PROVE  iter[s] = IF s = {} THEN 1 ELSE f[First(s)] * iter[s \ {First(s)}]
    <2>1. CASE s = {}
        <3> HIDE DEF step
        <3> QED
            BY <1>2, <2>1 DEF IsSetFold
    <2>2. CASE s # {}
        <3>1. First(s) \in S /\ s \ {First(s)} \in SUBSET S
            BY <2>2, FirstOut
        <3>2. step[First(s)][iter[s \ {First(s)}]] = f[First(s)] * iter[s \ {First(s)}]
            BY <1>2, <3>1
        <3> HIDE DEF step
        <3>3. iter[s] = step[First(s)][iter[s \ {First(s)}]]
            BY <1>2, <2>2 DEF IsSetFold
        <3> QED
            BY <2>2, <3>2, <3>3
    <2> QED
        BY <2>1, <2>2
<1> QED
    BY <1>2, <1>3 DEF Products

\* There is one such function, as far as its values go.
LEMMA ProductsAgree ==
    ASSUME NEW S, IsFiniteSet(S), NEW f, Scales(f, S),
           NEW a, Products(a, f, S), NEW b, Products(b, f, S)
    PROVE  a[S] = b[S]
<1> DEFINE same == [s \in SUBSET S |-> IF a[s] = b[s] THEN 1 ELSE 0]
           One == {1}
<1>1. same[{}] \in One
    BY DEF Products
<1>2. ASSUME NEW s \in SUBSET S, s # {}, same[s \ {First(s)}] \in One PROVE same[s] \in One
    <2>1. s \ {First(s)} \in SUBSET S
        BY <1>2, FirstOut
    <2>2. a[s \ {First(s)}] = b[s \ {First(s)}]
        BY <1>2, <2>1
    <2>3. a[s] = f[First(s)] * a[s \ {First(s)}] /\ b[s] = f[First(s)] * b[s \ {First(s)}]
        BY <1>2 DEF Products
    <2>4. a[s] = b[s]
        BY <2>2, <2>3
    <2> QED
        BY <2>4
<1>3. same[S] \in One
    <2> HIDE DEF same, One
    <2> QED
        BY <1>1, <1>2, SetFoldKeeps
<1> QED
    BY <1>3

LEMMA ProductIs ==
    ASSUME NEW S, IsFiniteSet(S), NEW f, Scales(f, S), NEW iter, Products(iter, f, S)
    PROVE  ProductOver(f, S) = iter[S]
<1>1. Products(CHOOSE it : Products(it, f, S), f, S)
    BY ProductsExist
<1> QED
    BY <1>1, ProductsAgree DEF ProductOver

LEMMA ProductEmpty == ASSUME NEW f PROVE ProductOver(f, {}) = 1
<1>1. IsFiniteSet({}) /\ Scales(f, {})
    BY FS_EmptySet DEF Scales
<1>2. PICK iter : Products(iter, f, {})
    BY <1>1, ProductsExist
<1>3. ProductOver(f, {}) = iter[{}]
    BY <1>1, <1>2, ProductIs
<1> QED
    BY <1>2, <1>3 DEF Products

LEMMA ProductStep ==
    ASSUME NEW S, IsFiniteSet(S), NEW f, Scales(f, S), S # {}
    PROVE  ProductOver(f, S) = f[First(S)] * ProductOver(f, S \ {First(S)})
<1> DEFINE T == S \ {First(S)}
<1>1. IsFiniteSet(T) /\ Scales(f, T) /\ T \in SUBSET S
    BY FS_Subset DEF Scales
<1>2. PICK iter : Products(iter, f, S)
    BY ProductsExist
<1> DEFINE rest == [s \in SUBSET T |-> iter[s]]
<1>3. ASSUME NEW s \in SUBSET T
      PROVE  rest[s] = IF s = {} THEN 1 ELSE f[First(s)] * rest[s \ {First(s)}]
    <2>1. iter[s] = IF s = {} THEN 1 ELSE f[First(s)] * iter[s \ {First(s)}]
        BY <1>2 DEF Products
    <2>2. s \ {First(s)} \in SUBSET T
        OBVIOUS
    <2> HIDE DEF T
    <2> QED
        BY <2>1, <2>2
<1>4. Products(rest, f, T)
    <2> HIDE DEF T
    <2> QED
        BY <1>3 DEF Products
<1>5. ProductOver(f, T) = iter[T]
    <2>1. ProductOver(f, T) = rest[T]
        <3> HIDE DEF T, rest
        <3> QED
            BY <1>1, <1>4, ProductIs
    <2> QED
        BY <2>1
<1>6. ProductOver(f, S) = iter[S]
    BY <1>2, ProductIs
<1> QED
    BY <1>2, <1>5, <1>6 DEF Products

LEMMA ProductTyped ==
    ASSUME NEW S, IsFiniteSet(S), NEW f, Scales(f, S)
    PROVE  ProductOver(f, S) \in Nat \ {0}
<1> DEFINE Pos == Nat \ {0}
           prod == [s \in SUBSET S |-> ProductOver(f, s)]
<1>1. prod[{}] \in Pos
    BY ProductEmpty
<1>2. ASSUME NEW s \in SUBSET S, s # {}, prod[s \ {First(s)}] \in Pos PROVE prod[s] \in Pos
    <2>1. First(s) \in S /\ s \ {First(s)} \in SUBSET S
        BY <1>2, FirstOut
    <2>2. IsFiniteSet(s) /\ Scales(f, s) /\ f[First(s)] \in Pos
        BY <2>1, FS_Subset DEF Scales
    <2>3. ProductOver(f, s) = f[First(s)] * ProductOver(f, s \ {First(s)})
        BY <1>2, <2>2, ProductStep
    <2>4. ProductOver(f, s \ {First(s)}) \in Pos
        BY <1>2, <2>1
    <2> QED
        BY <2>2, <2>3, <2>4, TimesGrow
<1>3. prod[S] \in Pos
    <2> HIDE DEF prod, Pos
    <2> QED
        BY <1>1, <1>2, SetFoldKeeps
<1> QED
    BY <1>3

\* Any element may be counted last.
LEMMA ProductRemove ==
    ASSUME NEW S, IsFiniteSet(S), NEW f, Scales(f, S), NEW x \in S
    PROVE  ProductOver(f, S) = f[x] * ProductOver(f, S \ {x})
<1> DEFINE Fine(t) == \A y \in t : ProductOver(f, t) = f[y] * ProductOver(f, t \ {y})
           n == Cardinality(S)
           T == {k \in 0..n : \A t \in SUBSET S : Cardinality(t) = k => Fine(t)}
<1>1. n \in Nat
    BY FS_CardinalityType
<1>2. \A t \in SUBSET S : IsFiniteSet(t) /\ Scales(f, t) /\ Cardinality(t) \in Nat
    BY FS_Subset, FS_CardinalityType DEF Scales
<1>3. 0 \in T
    <2>1. \A t \in SUBSET S : Cardinality(t) = 0 => t = {}
        BY <1>2, FS_EmptySet
    <2>2. 0 \in 0..n
        BY <1>1
    <2> HIDE DEF n
    <2> QED
        BY <2>1, <2>2
<1>4. ASSUME NEW k \in 0..n - 1, k \in T PROVE k + 1 \in T
    <2>1. ASSUME NEW t \in SUBSET S, Cardinality(t) = k + 1, NEW y \in t
          PROVE  ProductOver(f, t) = f[y] * ProductOver(f, t \ {y})
        <3>1. PICK c : c = First(t)
            OBVIOUS
        <3>2. /\ c \in t /\ ProductOver(f, t) = f[c] * ProductOver(f, t \ {c})
            BY <1>2, <2>1, <3>1, FirstOut, ProductStep
        <3>3. CASE y = c
            BY <3>2, <3>3
        <3>4. CASE y # c
            <4>1. \A z \in t : t \ {z} \in SUBSET S /\ Cardinality(t \ {z}) = k
                <5>1. \A z \in t : Cardinality(t \ {z}) = Cardinality(t) - 1
                    BY <1>2, FS_RemoveElement
                <5> QED
                    BY <1>1, <2>1, <5>1
            <4>2. \A z \in t : Fine(t \ {z})
                <5> HIDE DEF Fine, n
                <5> QED
                    BY <1>4, <4>1
            <4>3. ProductOver(f, t \ {c}) = f[y] * ProductOver(f, (t \ {c}) \ {y})
                BY <2>1, <3>2, <3>4, <4>2
            <4>4. ProductOver(f, t \ {y}) = f[c] * ProductOver(f, (t \ {y}) \ {c})
                BY <2>1, <3>2, <3>4, <4>2
            <4>5. (t \ {c}) \ {y} = (t \ {y}) \ {c}
                OBVIOUS
            <4>6. PICK rest \in Nat \ {0} : rest = ProductOver(f, (t \ {y}) \ {c})
                <5>1. (t \ {y}) \ {c} \in SUBSET S
                    OBVIOUS
                <5> QED
                    BY <1>2, <5>1, ProductTyped
            <4>7. f[y] \in Nat \ {0} /\ f[c] \in Nat \ {0}
                BY <2>1, <3>2 DEF Scales
            <4>8. ProductOver(f, t) = f[c] * (f[y] * rest) /\ ProductOver(f, t \ {y}) = f[c] * rest
                BY <3>2, <4>3, <4>4, <4>5, <4>6
            <4> QED
                BY <4>6, <4>7, <4>8, TimesSwap
        <3> QED
            BY <3>3, <3>4
    <2>2. k + 1 \in 0..n
        BY <1>1
    <2> QED
        BY <2>1, <2>2
<1>5. n \in T
    <2>1. \A k \in 0..n : k \in T
        <3> HIDE DEF T, n
        <3> QED
            BY <1>1, <1>3, <1>4, IntervalInduction
    <2>2. n \in 0..n
        BY <1>1
    <2> HIDE DEF T, n
    <2> QED
        BY <2>1, <2>2
<1> QED
    BY <1>5

\* Fewer things make no more.
LEMMA ProductMonotone ==
    ASSUME NEW S, IsFiniteSet(S), NEW f, Scales(f, S), NEW U \in SUBSET S
    PROVE  ProductOver(f, U) <= ProductOver(f, S)
<1> DEFINE Q == {t \in SUBSET S : ProductOver(f, U \cap t) <= ProductOver(f, t)}
<1>1. \A t \in SUBSET S : IsFiniteSet(t) /\ Scales(f, t) /\ ProductOver(f, t) \in Nat \ {0}
    BY FS_Subset, ProductTyped DEF Scales
<1>2. {} \in Q
    <2>1. U \cap {} = {}
        OBVIOUS
    <2> QED
        BY <2>1, ProductEmpty
<1>3. ASSUME NEW t \in SUBSET S, NEW x \in S, t \in Q, x \notin t PROVE t \cup {x} \in Q
    <2>1. ProductOver(f, t \cup {x}) = f[x] * ProductOver(f, t)
        <3>1. (t \cup {x}) \ {x} = t /\ t \cup {x} \in SUBSET S
            BY <1>3
        <3> QED
            BY <1>1, <3>1, ProductRemove
    <2>2. f[x] \in Nat \ {0}
        BY DEF Scales
    <2>3. ProductOver(f, U \cap t) <= ProductOver(f, t) /\ ProductOver(f, U \cap t) \in Nat \ {0} /\ ProductOver(f, t) \in Nat \ {0}
        BY <1>1, <1>3
    <2>4. CASE x \in U
        <3>1. (U \cap (t \cup {x})) \ {x} = U \cap t /\ U \cap (t \cup {x}) \in SUBSET S
              /\ x \in U \cap (t \cup {x})
            BY <1>3, <2>4
        <3>2. ProductOver(f, U \cap (t \cup {x})) = f[x] * ProductOver(f, U \cap t)
            BY <1>1, <3>1, ProductRemove
        <3> QED
            BY <2>1, <2>2, <2>3, <3>2, TimesGrow
    <2>5. CASE x \notin U
        <3>1. U \cap (t \cup {x}) = U \cap t
            BY <2>5
        <3>2. ProductOver(f, U \cap (t \cup {x})) = ProductOver(f, U \cap t)
            BY <3>1
        <3> QED
            BY <2>1, <2>2, <2>3, <3>2, TimesGrow
    <2> QED
        BY <2>4, <2>5
<1>4. S \in Q
    <2> HIDE DEF Q
    <2> QED
        BY <1>2, <1>3, FiniteInduction
<1>5. U \cap S = U
    OBVIOUS
<1> QED
    BY <1>4, <1>5
==============================================================================
