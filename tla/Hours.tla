-------------------------------- MODULE Hours ---------------------------------
(***************************************************************************)
(* What an outage leaves of a working day: the question the checker asks   *)
(* of one (Unavailability.covers) and the hours the planner makes of many  *)
(* (_largest_free_interval in scheduler/day_planner.py).                   *)
(*                                                                         *)
(* A moment is a number of ticks since midnight.  The planner works in     *)
(* whole minutes, of PerMinute ticks; everything else works in ticks.      *)
(***************************************************************************)
EXTENDS Integers, SequencesExt

CONSTANTS PerMinute,  \* ticks in a minute
          Minutes     \* minutes in a day

ASSUME HoursConstants == {PerMinute, Minutes} \subseteq Nat \ {0}

Covers(o, start, end) == ~(end <= o.from) /\ start < o.until

(* The planner's hours.  It clips every outage to the shift in whole       *)
(* minutes, merges what overlaps, and walks the gaps; the first of the     *)
(* longest is the day it plans with.                                       *)

Later(a, b) == IF a < b THEN b ELSE a
Earlier(a, b) == IF a < b THEN a ELSE b

Blocked(outages, span) ==
    {b \in {<<Later(span[1], o.from \div PerMinute), Earlier(span[2], o.until \div PerMinute)>> :
              o \in outages} : b[1] < b[2]}

Sooner(a, b) == a[1] < b[1] \/ (a[1] = b[1] /\ a[2] < b[2])

Sorted(blocked) ==
    CHOOSE s \in [1..Cardinality(blocked) -> blocked] :
        \A i, k \in DOMAIN s : i < k => Sooner(s[i], s[k])

MergeInto(merged, b) ==
    IF merged # <<>> /\ b[1] <= Last(merged)[2]
    THEN Front(merged) \o <<<<Last(merged)[1], Later(Last(merged)[2], b[2])>>>>
    ELSE Append(merged, b)

Length(gap) == IF gap = <<>> THEN 0 ELSE gap[2] - gap[1]

\* Mutants of Step: the gap is measured to the end of the outage after it, and
\* the first gap is taken, however short.
StepPast(walk, b) ==
    [cursor |-> Later(walk.cursor, b[2]),
     best |-> IF b[2] - walk.cursor > Length(walk.best) THEN <<walk.cursor, b[2]>> ELSE walk.best]

StepFirst(walk, b) ==
    [cursor |-> Later(walk.cursor, b[2]),
     best |-> IF walk.best = <<>> /\ b[1] > walk.cursor THEN <<walk.cursor, b[1]>> ELSE walk.best]

Step(walk, b) ==
    [cursor |-> Later(walk.cursor, b[2]),
     best |-> IF b[1] - walk.cursor > Length(walk.best) THEN <<walk.cursor, b[1]>> ELSE walk.best]

\* <<>> when nothing of the shift is left.
LargestFree(outages, span) ==
    LET merged == FoldLeft(MergeInto, <<>>, Sorted(Blocked(outages, span)))
    IN FoldLeft(Step, [cursor |-> span[1], best |-> <<>>],
                Append(merged, <<span[2], span[2]>>)).best
=============================================================================
