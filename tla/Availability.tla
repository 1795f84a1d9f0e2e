---------------------------- MODULE Availability -----------------------------
(***************************************************************************)
(* When somebody can be sent out: the part of the world's fold that keeps  *)
(* outages (domain/state.py), the hours the planner makes of them          *)
(* (scheduler/day_planner.py) and the checker's view of the same outages   *)
(* (domain/invariants.py).  Fitters and vans are alike here and touch only *)
(* outages of their own, so that one of them is followed, over one day.    *)
(*                                                                         *)
(* A moment is a number of ticks since midnight.  The planner works in     *)
(* whole minutes, of PerMinute ticks; everything else works in ticks.      *)
(***************************************************************************)
EXTENDS Hours

CONSTANTS Stamps,     \* the moments at which events are recorded
          Times,      \* the moments the events can name
          Forever,    \* the end of an outage, or of a restored window, that has none
          Spans,      \* rostered hours, <<from, to>> in minutes; a van's are the whole day
          MaxEvents   \* bound: events recorded in a behaviour

ASSUME AvailabilityConstants ==
    /\ Times \subseteq 0..Forever - 1 /\ Stamps \subseteq Times
    /\ MaxEvents \in Nat
    /\ Forever \in Nat /\ Minutes * PerMinute < Forever
    /\ Spans \subseteq {s \in (0..Minutes) \X (0..Minutes) : s[1] < s[2]}

VARIABLE log   \* the events in the order fold applies them: by recorded_at, then by event_id

Init == log = <<>>

-----------------------------------------------------------------------------
(* What is recorded.                                                       *)

Event(kind, at, from, until) == [kind |-> kind, at |-> at, from |-> from, until |-> until]

\* A new event takes its place by its stamp, which may be older than events
\* already there: it was stated in the request, or taken before another
\* handler's.  Among equal stamps the event_id decides, which is random.
Record(e) ==
    /\ Len(log) < MaxEvents
    /\ \E i \in 1..Len(log) + 1 :
         /\ \A k \in 1..i - 1 : log[k].at <= e.at
         /\ \A k \in i..Len(log) : e.at <= log[k].at
         /\ log' = InsertAt(log, i, e)

\* build_event: an absence never starts before the event that reports it, but
\* nothing is asked of its end.  The id is not looked up.
Unavailable ==
    \E at \in Stamps, from \in Times, until \in Times \cup {Forever} :
        at <= from /\ Record(Event("unavailable", at, from, until))

\* "He's back", from a stated moment or from the event's own on, for good or
\* for a while.
Restored ==
    \E at \in Stamps, from \in Times, until \in Times \cup {Forever} :
        Record(Event("restored", at, from, until))

\* remove_worker and remove_van look the id up in a world read earlier, in
\* which it may still be listed.
Removed == \E at \in Stamps : Record(Event("removed", at, at, Forever))

\* configure_worker and configure_van: somebody new, changed, or back under the same id.
Registered == \E at \in Stamps : Record(Event("registered", at, at, Forever))

Next == Unavailable \/ Restored \/ Removed \/ Registered

Spec == Init /\ [][Next]_log

-----------------------------------------------------------------------------
(* The fold.                                                               *)

\* Mutant of Carve: an absence that spans the window keeps only its early end.
CarveWithoutSplit(o, from, until) ==
    IF o.until <= from \/ o.from >= until THEN {o}
    ELSE IF o.from < from THEN {[o EXCEPT !.until = from]}
    ELSE {p \in {[o EXCEPT !.from = until]} : o.until > until}

\* What is left of an outage when he is back during [from, until).
Carve(o, from, until) ==
    IF o.until <= from \/ o.from >= until THEN {o}
    ELSE {p \in {[o EXCEPT !.until = from]} : o.from < from}
         \cup {p \in {[o EXCEPT !.from = until]} : o.until > until}

\* Removal forgets the outages; registration leaves them alone.
Apply(state, e) ==
    CASE e.kind = "unavailable" ->
           [state EXCEPT !.outages = @ \cup {[from |-> e.from, until |-> e.until]}]
      [] e.kind = "restored" ->
           [state EXCEPT !.outages = UNION {Carve(o, e.from, e.until) : o \in @}]
      [] e.kind = "removed" -> [listed |-> FALSE, outages |-> {}]
      [] e.kind = "registered" -> [state EXCEPT !.listed = TRUE]

\* The world after the seed, which registers everybody, and then the log.
World == FoldLeft(Apply, [listed |-> TRUE, outages |-> {}], log)

IsAvailable(start, end) == World.listed /\ ~\E o \in World.outages : Covers(o, start, end)

-----------------------------------------------------------------------------
(* What it is all for.                                                     *)

\* The events that say something about moment t.
SpeaksOf(t) == {i \in 1..Len(log) : \/ log[i].kind = "removed"
                                    \/ /\ log[i].kind \in {"unavailable", "restored"}
                                       /\ log[i].from <= t /\ t < log[i].until}

\* At any moment he is out exactly if the last event that speaks of it says so,
\* whatever outages were opened, overlapped, trimmed, split in two or forgotten
\* before: a restore is worth its whole window and not a moment more
\* (_carve_outages).
OutagesMeanWhatWasSaid ==
    \A t \in 0..Forever - 1 :
        (\E o \in World.outages : o.from <= t /\ t < o.until)
        <=> \E i \in SpeaksOf(t) :
              log[i].kind = "unavailable" /\ \A k \in SpeaksOf(t) : k <= i

OnTheMinute == \A i \in 1..Len(log) : {log[i].from, log[i].until} \ {Forever}
                                      \subseteq {m * PerMinute : m \in 0..Minutes}
NoneInverted == \A o \in World.outages : o.from < o.until

\* The hours the planner gets out of _largest_free_interval and the outages
\* validate_plan looks for agree, as long as nobody is kept late, moments are
\* whole minutes and outages end after they begin.
FreeTimePassesTheChecker ==
    World.listed /\ OnTheMinute /\ NoneInverted =>
        \A span \in Spans :
            LET free == LargestFree(World.outages, span)
            IN free # <<>> => IsAvailable(free[1] * PerMinute, free[2] * PerMinute)

\* A stretch of the shift no whole minute of which anybody reported out.
Clear(a, b) == \A m \in a..b - 1 : \A o \in World.outages :
                  ~(o.from <= m * PerMinute /\ (m + 1) * PerMinute <= o.until)

\* Whatever the moments, no whole minute of the planner's hours is under an
\* outage, and no stretch clear of outages even in part is longer than they
\* are: a breakdown costs a crew no more of the day than it must.
FreeTimeIsLongest ==
    \A span \in Spans :
        LET free == LargestFree(World.outages, span)
        IN /\ free # <<>> => Clear(free[1], free[2])
           /\ \A a, b \in span[1]..span[2] :
                a < b /\ (\A o \in World.outages :
                             ~(o.from < o.until /\ Covers(o, a * PerMinute, b * PerMinute)))
                => b - a <= Length(free)
=============================================================================
