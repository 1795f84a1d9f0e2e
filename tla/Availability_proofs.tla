-------------------------- MODULE Availability_proofs --------------------------
(***************************************************************************)
(* For a log of any length and moments of any kind, what the run of        *)
(* Availability checks on three events: what the fold of outages means,    *)
(* and what the planner's hours make of them.                              *)
(***************************************************************************)
EXTENDS Availability, DayPlan_proofs

Kinds == {"unavailable", "restored", "removed", "registered"}
Events == [kind : Kinds, at : Stamps, from : Times, until : Times \cup {Forever}]

\* The log is a sequence of what the handlers record.
LogTypeOK == log \in Seq(Events)

\* The stages of the fold.
Moments == 0..Forever
States == [listed : BOOLEAN, outages : SUBSET [from : Moments, until : Moments]]
Seeded == [listed |-> TRUE, outages |-> {}]

LEMMA EventsAreMoments ==
    ASSUME NEW e \in Events PROVE e.from \in Moments /\ e.until \in Moments /\ e.kind \in Kinds
<1>1. Times \subseteq 0..Forever - 1 /\ Forever \in Nat
    BY AvailabilityConstants
<1>2. Times \subseteq Moments /\ Forever \in Moments
    BY <1>1 DEF Moments
<1> QED
    BY <1>2 DEF Events

\* An event takes its place among the others, and none is lost.
LEMMA Recording ==
    ASSUME LogTypeOK, NEW e \in Events, Record(e) PROVE LogTypeOK'
<1>1. PICK i \in 1..Len(log) + 1 : log' = InsertAt(log, i, e)
    BY DEF Record
<1>2. log \in Seq(Events) /\ Len(log) \in Nat
    BY LenProperties DEF LogTypeOK
<1>3. \A k \in 1..Len(log) : log[k] \in Events
    BY <1>2, ElementOfSeq
<1>4. SubSeq(log, 1, i - 1) \in Seq(Events) /\ SubSeq(log, i, Len(log)) \in Seq(Events)
    <2>1. \A k \in 1..i - 1 : k \in 1..Len(log)
        BY <1>2
    <2>2. \A k \in i..Len(log) : k \in 1..Len(log)
        BY <1>2
    <2> QED
        BY <1>2, <1>3, <2>1, <2>2, SubSeqProperties
<1>5. <<e>> \in Seq(Events)
    OBVIOUS
<1> QED
    BY <1>1, <1>4, <1>5, ConcatProperties DEF InsertAt, LogTypeOK

LEMMA LogTyped == Spec => []LogTypeOK
<1>1. Init => LogTypeOK
    BY EmptySeq DEF Init, LogTypeOK
<1>2. LogTypeOK /\ [Next]_log => LogTypeOK'
    <2> SUFFICES ASSUME LogTypeOK, [Next]_log PROVE LogTypeOK'
        OBVIOUS
    <2>1. CASE UNCHANGED log
        BY <2>1 DEF LogTypeOK
    <2>2. CASE Next
        <3>1. \E e \in Events : Record(e)
            BY <2>2, AvailabilityConstants
               DEF Next, Unavailable, Restored, Removed, Registered, Event, Events, Kinds
        <3> QED
            BY <3>1, Recording
    <2> QED
        BY <2>1, <2>2
<1> QED
    BY <1>1, <1>2, PTL DEF Spec

-----------------------------------------------------------------------------
Covered(outages, t) == \E o \in outages : o.from <= t /\ t < o.until

\* What is left of an outage when he is back during [from, until) are the
\* moments of it outside of that window: all of them, and no others.
LEMMA CarvedMoments ==
    ASSUME NEW o \in [from : Moments, until : Moments], NEW from \in Moments, NEW until \in Moments,
           NEW t \in Moments
    PROVE  /\ Carve(o, from, until) \subseteq [from : Moments, until : Moments]
           /\ Covered(Carve(o, from, until), t)
              <=> (o.from <= t /\ t < o.until) /\ ~(from <= t /\ t < until)
<1>1. \A a \in Moments : a \in Int
    BY AvailabilityConstants DEF Moments
<1>2. o.from \in Moments /\ o.until \in Moments
    OBVIOUS
<1>3. CASE o.until <= from \/ o.from >= until
    BY <1>1, <1>2, <1>3 DEF Carve, Covered
<1>4. CASE ~(o.until <= from \/ o.from >= until)
    <2> DEFINE before == [o EXCEPT !.until = from]
    <2> DEFINE behind == [o EXCEPT !.from = until]
    <2>1. Carve(o, from, until)
            = {p \in {before} : o.from < from} \cup {p \in {behind} : o.until > until}
        BY <1>4 DEF Carve
    <2>2. /\ before \in [from : Moments, until : Moments]
          /\ before.from = o.from /\ before.until = from
          /\ behind \in [from : Moments, until : Moments]
          /\ behind.from = until /\ behind.until = o.until
        OBVIOUS
    <2> HIDE DEF before, behind
    <2>3. Covered(Carve(o, from, until), t)
            <=> \/ o.from < from /\ o.from <= t /\ t < from
                \/ o.until > until /\ until <= t /\ t < o.until
        BY <2>1, <2>2 DEF Covered
    <2> QED
        BY <1>1, <1>2, <1>4, <2>1, <2>2, <2>3
<1> QED
    BY <1>3, <1>4

\* Every event makes a state of a state.
LEMMA ApplyTyped ==
    ASSUME NEW s \in States, NEW e \in Events
    PROVE  Apply(s, e) \in States
<1> USE DEF States
<1>1. e.from \in Moments /\ e.until \in Moments /\ e.kind \in Kinds
    BY EventsAreMoments
<1>2. CASE e.kind = "unavailable"
    BY <1>1, <1>2 DEF Apply
<1>3. CASE e.kind = "restored"
    <2>1. \A o \in s.outages : Carve(o, e.from, e.until) \subseteq [from : Moments, until : Moments]
        <3> TAKE o \in s.outages
        <3>1. 0 \in Moments
            BY AvailabilityConstants DEF Moments
        <3> QED
            BY <1>1, <3>1, CarvedMoments
    <2> QED
        BY <1>3, <2>1 DEF Apply
<1>4. CASE e.kind = "removed"
    BY <1>4 DEF Apply
<1>5. CASE e.kind = "registered"
    BY <1>5 DEF Apply
<1> QED
    BY <1>1, <1>2, <1>3, <1>4, <1>5 DEF Kinds

\* The world is the last of the stages that the log leads through.
LEMMA WorldUnfolds ==
    ASSUME log \in Seq(Events)
    PROVE  \E stage \in [0..Len(log) -> States] :
               /\ stage[0] = Seeded
               /\ \A k \in 1..Len(log) : stage[k] = Apply(stage[k - 1], log[k])
               /\ stage[Len(log)] = World
<1>1. PICK n \in Nat : n = Len(log)
    BY LenProperties
<1>2. DOMAIN log = 1..n /\ \A k \in 1..n : log[k] \in Events
    BY <1>1, LenProperties, ElementOfSeq
<1>3. Seeded \in States
    BY DEF Seeded, States
<1> DEFINE step == [k \in 1..n |-> [s \in States |-> Apply(s, log[k])]]
<1>4. step \in [1..n -> [States -> States]]
    BY <1>2, ApplyTyped
<1> DEFINE Folds(iter) == iter = [s \in SUBSET (1..n) |->
                              IF s = {} THEN [listed |-> TRUE, outages |-> {}]
                              ELSE Apply(iter[s \ {Max(s)}], log[Max(s)])]
<1>5. \A s \in SUBSET (1..n) : s # {} => Max(s) \in 1..n
    BY MaxIsIn
<1>6. \E iter : Folds(iter)
    <2>1. PICK iter \in [SUBSET (1..n) -> States] : IsFold(iter, n, Seeded, step)
        <3> HIDE DEF step
        <3> QED
            BY <1>3, <1>4, FoldExists, Zenon
    <2>2. \A s \in SUBSET (1..n) :
              iter[s] = IF s = {} THEN Seeded ELSE Apply(iter[s \ {Max(s)}], log[Max(s)])
        BY <1>5, <2>1 DEF IsFold
    <2> QED
        BY <2>1, <2>2 DEF Seeded
<1> DEFINE fold == CHOOSE iter : Folds(iter)
<1>7. Folds(fold)
    <2> HIDE DEF Folds
    <2> QED
        BY <1>6
<1>8. World = fold[1..n]
    BY <1>2 DEF World, FoldLeft, MapThenFoldSet
<1> HIDE DEF fold
<1>9. FoldsStages(fold, n, States, Seeded, step)
    <2>1. \A s \in SUBSET (1..n) :
              fold[s] = IF s = {} THEN Seeded ELSE Apply(fold[s \ {Max(s)}], log[Max(s)])
        BY <1>7 DEF Seeded
    <2>2. fold[{}] = Seeded
        BY <2>1
    <2> QED
        BY <1>5, <2>1, <2>2 DEF FoldsStages
<1>10. PICK stage \in [0..n -> States] : AreStages(stage, fold, n, Seeded, step)
    <2> HIDE DEF step
    <2> QED
        BY <1>3, <1>4, <1>9, FoldStages, Zenon
<1>11. \A k \in 1..n : stage[k - 1] \in States
    OBVIOUS
<1> QED
    BY <1>1, <1>2, <1>8, <1>10, <1>11 DEF AreStages

-----------------------------------------------------------------------------
\* The events among the first k that speak of t; SpeaksOf(t) is all of them.
Speaks(k, t) == {i \in 1..k : \/ log[i].kind = "removed"
                              \/ /\ log[i].kind \in {"unavailable", "restored"}
                                 /\ log[i].from <= t /\ t < log[i].until}

SaidOut(k, t) == \E i \in Speaks(k, t) :
                     log[i].kind = "unavailable" /\ \A m \in Speaks(k, t) : m <= i

\* One event more: if it speaks of t, it is the last that does.
LEMMA OneMore ==
    ASSUME NEW k \in Nat, NEW t
    PROVE  /\ k + 1 \in Speaks(k + 1, t) => (SaidOut(k + 1, t) <=> log[k + 1].kind = "unavailable")
           /\ k + 1 \notin Speaks(k + 1, t) => (SaidOut(k + 1, t) <=> SaidOut(k, t))
<1>1. \A i \in 1..k : i \in 1..k + 1 /\ i <= k + 1 /\ i # k + 1
    OBVIOUS
<1>2. \A i \in 1..k + 1 : i = k + 1 \/ i \in 1..k
    OBVIOUS
<1>3. Speaks(k + 1, t) \ {k + 1} = Speaks(k, t)
    BY <1>1, <1>2 DEF Speaks
<1>4. CASE k + 1 \in Speaks(k + 1, t)
    <2>1. \A m \in Speaks(k + 1, t) : m <= k + 1
        BY DEF Speaks
    <2>2. \A i \in Speaks(k + 1, t) : (\A m \in Speaks(k + 1, t) : m <= i) => i = k + 1
        BY <1>4, <1>1, <1>2 DEF Speaks
    <2> QED
        BY <1>4, <2>1, <2>2 DEF SaidOut
<1>5. CASE k + 1 \notin Speaks(k + 1, t)
    BY <1>3, <1>5 DEF SaidOut
<1> QED
    BY <1>4, <1>5

\* What an event does to the moments that are covered.
LEMMA ApplyMeans ==
    ASSUME NEW s \in States, NEW e \in Events, NEW t \in Moments
    PROVE  Covered(Apply(s, e).outages, t) <=>
             \/ e.kind = "unavailable" /\ e.from <= t /\ t < e.until
             \/ /\ Covered(s.outages, t)
                /\ e.kind # "removed"
                /\ ~(e.kind = "restored" /\ e.from <= t /\ t < e.until)
<1>1. e.from \in Moments /\ e.until \in Moments /\ e.kind \in Kinds
    BY EventsAreMoments
<1>2. s.outages \subseteq [from : Moments, until : Moments]
    BY DEF States
<1>3. CASE e.kind = "unavailable"
    <2>1. Apply(s, e).outages = s.outages \cup {[from |-> e.from, until |-> e.until]}
        BY <1>3 DEF Apply, States
    <2>2. PICK new : new = [from |-> e.from, until |-> e.until]
        OBVIOUS
    <2>3. new.from = e.from /\ new.until = e.until
        BY <2>2
    <2>4. Covered(Apply(s, e).outages, t)
            <=> Covered(s.outages, t) \/ (e.from <= t /\ t < e.until)
        BY <2>1, <2>2, <2>3 DEF Covered
    <2> QED
        BY <1>3, <2>4
<1>4. CASE e.kind = "restored"
    <2>1. Apply(s, e).outages = UNION {Carve(o, e.from, e.until) : o \in s.outages}
        BY <1>4 DEF Apply, States
    <2>2. Covered(Apply(s, e).outages, t) <=>
            \E o \in s.outages : Covered(Carve(o, e.from, e.until), t)
        BY <2>1 DEF Covered
    <2>3. \A o \in s.outages : Covered(Carve(o, e.from, e.until), t)
            <=> (o.from <= t /\ t < o.until) /\ ~(e.from <= t /\ t < e.until)
        BY <1>1, <1>2, CarvedMoments
    <2> QED
        BY <1>4, <2>2, <2>3 DEF Covered
<1>5. CASE e.kind = "removed"
    BY <1>5 DEF Apply, Covered
<1>6. CASE e.kind = "registered"
    <2>1. Apply(s, e).outages = s.outages
        BY <1>6 DEF Apply, States
    <2> QED
        BY <1>6, <2>1
<1> QED
    BY <1>1, <1>3, <1>4, <1>5, <1>6 DEF Kinds

\* By induction along the log.
LEMMA FoldMeansWhatWasSaid ==
    ASSUME log \in Seq(Events), NEW t \in 0..Forever - 1
    PROVE  Covered(World.outages, t) <=> SaidOut(Len(log), t)
<1>1. PICK n \in Nat : n = Len(log)
    BY LenProperties
<1>2. PICK stage \in [0..n -> States] :
          /\ stage[0] = Seeded
          /\ \A k \in 1..n : stage[k] = Apply(stage[k - 1], log[k])
          /\ stage[n] = World
    BY <1>1, WorldUnfolds
<1>3. \A k \in 1..n : log[k] \in Events
    BY <1>1, ElementOfSeq
<1>4. t \in Moments
    BY AvailabilityConstants DEF Moments
<1> DEFINE S == {k \in 0..n : Covered(stage[k].outages, t) <=> SaidOut(k, t)}
<1>5. 0 \in S
    <2>1. Speaks(0, t) = {}
        BY DEF Speaks
    <2>2. ~SaidOut(0, t)
        BY <2>1 DEF SaidOut
    <2>3. ~Covered(stage[0].outages, t)
        BY <1>2 DEF Seeded, Covered
    <2> QED
        BY <1>1, <2>2, <2>3
<1>6. ASSUME NEW k \in 0..n - 1, k \in S PROVE k + 1 \in S
    <2>1. k + 1 \in 1..n /\ k + 1 \in 0..n /\ (k + 1) - 1 = k /\ k \in Nat /\ k \in 0..n
        OBVIOUS
    <2>2. PICK e \in Events : e = log[k + 1]
        BY <1>3, <2>1
    <2>3. stage[k] \in States /\ stage[k + 1] = Apply(stage[k], e)
        BY <1>2, <2>1, <2>2
    <2>4. k + 1 \in Speaks(k + 1, t)
            <=> \/ e.kind = "removed"
                \/ e.kind \in {"unavailable", "restored"} /\ e.from <= t /\ t < e.until
        BY <2>1, <2>2 DEF Speaks
    <2>5. Covered(stage[k + 1].outages, t) <=>
             \/ e.kind = "unavailable" /\ e.from <= t /\ t < e.until
             \/ /\ Covered(stage[k].outages, t)
                /\ e.kind # "removed"
                /\ ~(e.kind = "restored" /\ e.from <= t /\ t < e.until)
        BY <1>4, <2>3, ApplyMeans
    <2>6. Covered(stage[k].outages, t) <=> SaidOut(k, t)
        BY <1>6
    <2>7. /\ k + 1 \in Speaks(k + 1, t) => (SaidOut(k + 1, t) <=> e.kind = "unavailable")
          /\ k + 1 \notin Speaks(k + 1, t) => (SaidOut(k + 1, t) <=> SaidOut(k, t))
        BY <2>1, <2>2, OneMore
    <2>8. Covered(stage[k + 1].outages, t) <=> SaidOut(k + 1, t)
        <3>1. CASE k + 1 \in Speaks(k + 1, t)
            BY <2>4, <2>5, <2>7, <3>1
        <3>2. CASE k + 1 \notin Speaks(k + 1, t)
            <4>1. e.kind \in Kinds
                BY DEF Events
            <4> QED
                BY <2>4, <2>5, <2>6, <2>7, <3>2, <4>1 DEF Kinds
        <3> QED
            BY <3>1, <3>2
    <2> QED
        BY <2>1, <2>8
<1>7. n \in S
    <2> HIDE DEF S
    <2>1. \A k \in 0..n : k \in S
        BY <1>5, <1>6, IntervalInduction
    <2> QED
        BY <2>1
<1> QED
    BY <1>1, <1>2, <1>7

\* fold and _carve_outages: whatever was reported and restored, in whatever
\* order it arrived, the outages of the world cover exactly the moments that
\* the log's last word on each of them says are covered.
THEOREM OutagesAreWhatWasSaid == Spec => []OutagesMeanWhatWasSaid
<1>1. LogTypeOK => OutagesMeanWhatWasSaid
    <2> SUFFICES ASSUME LogTypeOK, NEW t \in 0..Forever - 1
                 PROVE  (\E o \in World.outages : o.from <= t /\ t < o.until)
                        <=> \E i \in SpeaksOf(t) :
                              log[i].kind = "unavailable" /\ \A k \in SpeaksOf(t) : k <= i
        BY DEF OutagesMeanWhatWasSaid
    <2>1. Speaks(Len(log), t) = SpeaksOf(t)
        BY DEF Speaks, SpeaksOf
    <2> QED
        BY <2>1, FoldMeansWhatWasSaid DEF LogTypeOK, Covered, SaidOut
<1> QED
    BY <1>1, LogTyped, PTL

-----------------------------------------------------------------------------
(* The planner's hours and the outages.                                    *)

\* The stages of the world keep to whatever moments the events keep to.
LEMMA ApplyKeepsTo ==
    ASSUME NEW M, NEW s \in States, NEW e \in Events, e.from \in M, e.until \in M,
           s.outages \subseteq [from : M, until : M]
    PROVE  Apply(s, e).outages \subseteq [from : M, until : M]
<1>1. e.kind \in Kinds
    BY EventsAreMoments
<1>2. CASE e.kind = "unavailable"
    <2>1. Apply(s, e).outages = s.outages \cup {[from |-> e.from, until |-> e.until]}
        BY <1>2 DEF Apply, States
    <2> QED
        BY <2>1
<1>3. CASE e.kind = "restored"
    <2>1. Apply(s, e).outages = UNION {Carve(o, e.from, e.until) : o \in s.outages}
        BY <1>3 DEF Apply, States
    <2>2. ASSUME NEW o \in [from : M, until : M], NEW x \in Carve(o, e.from, e.until)
          PROVE  x \in [from : M, until : M]
        BY <2>2 DEF Carve
    <2>3. \A o \in s.outages : o \in [from : M, until : M]
        OBVIOUS
    <2> QED
        BY <2>1, <2>2, <2>3
<1>4. CASE e.kind = "removed"
    BY <1>4 DEF Apply
<1>5. CASE e.kind = "registered"
    <2>1. Apply(s, e).outages = s.outages
        BY <1>5 DEF Apply, States
    <2> QED
        BY <2>1
<1> QED
    BY <1>1, <1>2, <1>3, <1>4, <1>5 DEF Kinds

\* So does the world: in a log of whole minutes, outages are whole minutes.
LEMMA WorldKeepsTo ==
    ASSUME log \in Seq(Events), NEW M, \A i \in 1..Len(log) : log[i].from \in M /\ log[i].until \in M
    PROVE  World \in States /\ World.outages \subseteq [from : M, until : M]
<1>1. PICK n \in Nat : n = Len(log)
    BY LenProperties
<1>2. PICK stage \in [0..n -> States] :
          /\ stage[0] = Seeded
          /\ \A k \in 1..n : stage[k] = Apply(stage[k - 1], log[k])
          /\ stage[n] = World
    BY <1>1, WorldUnfolds
<1>3. \A k \in 1..n : log[k] \in Events
    BY <1>1, ElementOfSeq
<1> DEFINE S == {k \in 0..n : stage[k].outages \subseteq [from : M, until : M]}
<1>4. 0 \in S
    BY <1>2 DEF Seeded
<1>5. ASSUME NEW k \in 0..n - 1, k \in S PROVE k + 1 \in S
    <2>1. k + 1 \in 1..n /\ k + 1 \in 0..n /\ (k + 1) - 1 = k /\ k \in 0..n
        OBVIOUS
    <2>2. stage[k] \in States /\ stage[k + 1] = Apply(stage[k], log[k + 1]) /\ log[k + 1] \in Events
        BY <1>2, <1>3, <2>1
    <2>3. log[k + 1].from \in M /\ log[k + 1].until \in M
        BY <1>1, <2>1
    <2>4. Apply(stage[k], log[k + 1]).outages \subseteq [from : M, until : M]
        BY <1>5, <2>2, <2>3, ApplyKeepsTo
    <2> QED
        BY <2>1, <2>2, <2>4
<1>6. \A k \in 0..n : k \in S
    <2> HIDE DEF S
    <2> QED
        BY <1>4, <1>5, IntervalInduction
<1>7. n \in 0..n
    OBVIOUS
<1> QED
    BY <1>2, <1>6, <1>7

LEMMA OutagesTyped ==
    ASSUME LogTypeOK
    PROVE  \A o \in World.outages : o.from \in Nat /\ o.until \in Nat
<1>1. World \in States
    BY WorldUnfolds, LenProperties DEF LogTypeOK
<1> QED
    BY <1>1, AvailabilityConstants DEF States, Moments

LEMMA SpansTyped ==
    ASSUME NEW span \in Spans
    PROVE  \E a, b \in 0..Minutes : span = <<a, b>> /\ a < b
<1>1. span \in (0..Minutes) \X (0..Minutes) /\ span[1] < span[2]
    BY AvailabilityConstants
<1> QED
    BY <1>1


\* _largest_free_interval, for any log and any shift: no whole minute of the
\* hours it gives is under an outage, and no stretch of the shift that is clear
\* of outages even in part is longer.
THEOREM FreeHoursAreLongest == Spec => []FreeTimeIsLongest
<1>1. LogTypeOK => FreeTimeIsLongest
    <2> SUFFICES ASSUME LogTypeOK, NEW span \in Spans
                 PROVE  LET free == LargestFree(World.outages, span)
                        IN /\ free # <<>> => Clear(free[1], free[2])
                           /\ \A a, b \in span[1]..span[2] :
                                a < b /\ (\A o \in World.outages :
                                             ~(o.from < o.until /\ Covers(o, a * PerMinute, b * PerMinute)))
                                => b - a <= Length(free)
        BY DEF FreeTimeIsLongest
    <2>1. PICK outages : outages = World.outages
        OBVIOUS
    <2>2. \A o \in outages : o.from \in Nat /\ o.until \in Nat
        BY <2>1, OutagesTyped
    <2>3. PICK from, until \in Nat : span = <<from, until>> /\ from < until
        BY SpansTyped, AvailabilityConstants
    <2>4. span[1] = from /\ span[2] = until
        BY <2>3
    <2>5. PICK free : free = LargestFree(outages, <<from, until>>)
        OBVIOUS
    <2>6. /\ free \in {<<>>} \cup Stretches(from, until)
          /\ free # <<>> => /\ free[1] < free[2]
                            /\ \A t \in free[1]..free[2] - 1 : ~Blocks(outages, <<from, until>>, t)
          /\ \A x, y \in from..until :
                 x < y /\ (\A t \in x..y - 1 : ~Blocks(outages, <<from, until>>, t))
                 => y - x <= Length(free)
        <3>1. \A o \in outages : o.from \in Int /\ o.until \in Int
            BY <2>2
        <3> QED
            BY <2>3, <2>5, <3>1, LargestFreeMeans
    <2>7. ASSUME free # <<>> PROVE Clear(free[1], free[2])
        <3> SUFFICES ASSUME NEW m \in free[1]..free[2] - 1, NEW o \in outages,
                            o.from <= m * PerMinute, (m + 1) * PerMinute <= o.until
                     PROVE  FALSE
            BY <2>1 DEF Clear
        <3>1. free[1] \in from..until /\ free[2] \in from..until
            BY <2>6, <2>7 DEF Stretches
        <3>2. m \in from..until - 1 /\ m \in Nat
            BY <2>3, <3>1
        <3>3. o.from \in Nat /\ m * PerMinute \in Nat /\ (m + 1) * PerMinute = m * PerMinute + PerMinute
            BY <2>2, <3>2, MinutesGrow
        <3>4. o.from < (m + 1) * PerMinute
            BY <3>3, HoursConstants
        <3>5. Blocks(outages, <<from, until>>, m)
            BY <2>2, <3>2, <3>4, BlocksMeans
        <3> QED
            BY <2>6, <2>7, <3>5
    <2>8. ASSUME NEW x \in from..until, NEW y \in from..until, x < y,
                 \A o \in outages : ~(o.from < o.until /\ Covers(o, x * PerMinute, y * PerMinute))
          PROVE  y - x <= Length(free)
        <3>1. ASSUME NEW t \in x..y - 1, Blocks(outages, <<from, until>>, t) PROVE FALSE
            <4>1. t \in from..until - 1 /\ t \in Nat /\ x \in Nat /\ y \in Nat
                BY <2>3
            <4>2. PICK o \in outages : o.from < (t + 1) * PerMinute /\ (t + 1) * PerMinute <= o.until
                BY <2>2, <3>1, <4>1, BlocksMeans
            <4>3. o.from \in Nat /\ o.until \in Nat /\ x * PerMinute \in Nat /\ y * PerMinute \in Nat
                BY <2>2, <4>1, MinutesGrow
            <4>4. (t + 1) * PerMinute \in Nat /\ (t + 1) * PerMinute <= y * PerMinute
                <5>1. t + 1 \in Nat /\ t + 1 <= y
                    BY <4>1
                <5> QED
                    BY <4>1, <5>1, MinutesGrow
            <4>5. x * PerMinute < (t + 1) * PerMinute
                <5>1. x * PerMinute <= t * PerMinute /\ t * PerMinute \in Nat
                      /\ (t + 1) * PerMinute = t * PerMinute + PerMinute
                    BY <4>1, MinutesGrow
                <5> QED
                    BY <4>3, <5>1, HoursConstants
            <4>6. o.from < o.until /\ Covers(o, x * PerMinute, y * PerMinute)
                BY <4>2, <4>3, <4>4, <4>5 DEF Covers
            <4> QED
                BY <2>8, <4>6
        <3> QED
            BY <2>6, <2>8, <3>1
    <2> QED
        BY <2>1, <2>3, <2>4, <2>5, <2>7, <2>8
<1> QED
    BY <1>1, LogTyped, PTL

\* _largest_free_interval and validate_plan, for any log of whole minutes: what
\* the planner takes for free, Unavailability.covers does not object to.
THEOREM FreeHoursPassTheChecker == Spec => []FreeTimePassesTheChecker
<1> DEFINE Whole == {m * PerMinute : m \in 0..Minutes} \cup {Forever}
<1>1. LogTypeOK => FreeTimePassesTheChecker
    <2> SUFFICES ASSUME LogTypeOK, World.listed, OnTheMinute, NoneInverted, NEW span \in Spans
                 PROVE  LET free == LargestFree(World.outages, span)
                        IN free # <<>> => IsAvailable(free[1] * PerMinute, free[2] * PerMinute)
        BY DEF FreeTimePassesTheChecker
    <2>1. PICK outages : outages = World.outages
        OBVIOUS
    <2>2. \A o \in outages : o.from \in Nat /\ o.until \in Nat
        BY <2>1, OutagesTyped
    <2>3. PICK from, until \in 0..Minutes : span = <<from, until>> /\ from < until
        BY SpansTyped
    <2>4. from \in Nat /\ until \in Nat
        BY AvailabilityConstants, HoursConstants
    <2>5. PICK free : free = LargestFree(outages, <<from, until>>)
        OBVIOUS
    <2>6. /\ free \in {<<>>} \cup Stretches(from, until)
          /\ free # <<>> => /\ free[1] < free[2]
                            /\ \A t \in free[1]..free[2] - 1 : ~Blocks(outages, <<from, until>>, t)
        <3>1. \A o \in outages : o.from \in Int /\ o.until \in Int
            BY <2>2
        <3> QED
            BY <2>3, <2>4, <2>5, <3>1, LargestFreeMeans
    <2>7. \A o \in outages : o.from \in Whole /\ o.until \in Whole
        <3>1. \A i \in 1..Len(log) : log[i].from \in Whole /\ log[i].until \in Whole
            BY DEF OnTheMinute
        <3> HIDE DEF Whole
        <3>2. World.outages \subseteq [from : Whole, until : Whole]
            BY <3>1, WorldKeepsTo DEF LogTypeOK
        <3> QED
            BY <2>1, <3>2
    <2>8. ASSUME free # <<>>, NEW o \in outages, Covers(o, free[1] * PerMinute, free[2] * PerMinute)
          PROVE  FALSE
        <3>1. PICK x, y \in from..until : x = free[1] /\ y = free[2] /\ x < y
            BY <2>6, <2>8 DEF Stretches
        <3>2. x \in Nat /\ y \in Nat /\ y <= Minutes
            BY <2>3, <2>4, <3>1, AvailabilityConstants, HoursConstants
        <3>3. PICK p, q, day \in Nat : /\ p = x * PerMinute /\ q = y * PerMinute
                                       /\ day = Minutes * PerMinute /\ q <= day
            BY <3>2, MinutesGrow, AvailabilityConstants, HoursConstants
        <3>4. o.from < q /\ p < o.until /\ o.from < o.until /\ o.from \in Nat /\ o.until \in Nat
            BY <2>1, <2>2, <2>8, <3>1, <3>3 DEF Covers, NoneInverted
        <3>5. day < Forever /\ Forever \in Nat
            BY <3>3, AvailabilityConstants, HoursConstants
        <3>6. PICK m \in 0..Minutes : o.from = m * PerMinute
            BY <2>7, <3>3, <3>4, <3>5
        <3>7. m \in Nat /\ m < y
            BY <3>2, <3>3, <3>4, <3>6, MinutesGrow, AvailabilityConstants, HoursConstants
        <3>8. PICK t \in x..y - 1 : t \in Nat /\ m <= t /\ (t = x \/ t = m)
            <4>1. CASE x <= m
                BY <3>1, <3>2, <3>7, <4>1
            <4>2. CASE m < x
                BY <3>1, <3>2, <3>7, <4>2
            <4> QED
                BY <3>2, <3>7, <4>1, <4>2
        <3>9. PICK end \in Nat : end = (t + 1) * PerMinute
            BY <3>8, HoursConstants
        <3>10. o.from < end
            <4>1. m * PerMinute <= t * PerMinute /\ t * PerMinute \in Nat /\ end = t * PerMinute + PerMinute
                BY <3>7, <3>8, <3>9, MinutesGrow
            <4> QED
                BY <3>4, <3>6, <4>1, HoursConstants
        <3>11. end <= o.until
            <4>1. CASE o.until = Forever
                <5>1. t + 1 \in Nat /\ t + 1 <= y
                    BY <3>2, <3>8
                <5>2. end <= q
                    BY <3>2, <3>3, <3>9, <5>1, MinutesGrow
                <5> QED
                    BY <3>3, <3>5, <4>1, <5>2
            <4>2. CASE o.until # Forever
                <5>1. PICK k \in 0..Minutes : o.until = k * PerMinute
                    BY <2>7, <4>2
                <5>2. k \in Nat /\ x < k /\ m < k
                    BY <3>2, <3>3, <3>4, <3>6, <3>7, <5>1, MinutesGrow, AvailabilityConstants, HoursConstants
                <5>3. t + 1 \in Nat /\ t + 1 <= k
                    BY <3>2, <3>7, <3>8, <5>2
                <5> QED
                    BY <3>9, <5>1, <5>2, <5>3, MinutesGrow
            <4> QED
                BY <4>1, <4>2
        <3>12. Blocks(outages, <<from, until>>, t)
            <4>1. t \in from..until - 1
                BY <2>4, <3>1, <3>8
            <4> QED
                BY <2>2, <2>4, <3>9, <3>10, <3>11, <4>1, BlocksMeans
        <3> QED
            BY <2>6, <2>8, <3>1, <3>8, <3>12
    <2> QED
        BY <2>1, <2>3, <2>5, <2>8 DEF IsAvailable
<1> QED
    BY <1>1, LogTyped, PTL
==============================================================================
