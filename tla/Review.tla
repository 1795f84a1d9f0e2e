-------------------------------- MODULE Review --------------------------------
(***************************************************************************)
(* What a change of plan means to people: the diff of two plans and who    *)
(* would notice (domain/diff.py), what may be applied without asking       *)
(* (domain/autonomy.py), the choice among repairs (RepairOptions and       *)
(* agents/coordinator.py), and the check of what customers are told        *)
(* (agents/comms.py).                                                      *)
(*                                                                         *)
(* A plan maps the jobs it serves to their visits, [day, crew, van,        *)
(* arrival, departure]; jobs maps ids to [state, opens, closes].           *)
(***************************************************************************)
EXTENDS Integers, FiniteSets, FiniteSetsExt, Functions

-----------------------------------------------------------------------------
(* The diff.                                                               *)

Promised == {"confirmed", "dispatched"}

Same == "same"

Classify(before, after) ==
    IF before.day # after.day THEN "rescheduled"
    ELSE IF before.arrival # after.arrival THEN "retimed"
    ELSE IF before.crew # after.crew \/ before.van # after.van THEN "reassigned" ELSE Same

KindOf(j, before, after) ==
    IF j \notin DOMAIN before THEN "added"
    ELSE IF j \notin DOMAIN after THEN "dropped" ELSE Classify(before[j], after[j])

VisitIn(plan, j) == {plan[k] : k \in {j} \cap DOMAIN plan}

\* A job the world does not hold counts as provisional; only a confirmed job has
\* a promised window.
ChangeOf(j, before, after, jobs) ==
    LET state == IF j \in DOMAIN jobs THEN jobs[j].state ELSE "provisional"
    IN [job |-> j, kind |-> KindOf(j, before, after), state |-> state,
        before |-> VisitIn(before, j), after |-> VisitIn(after, j),
        promise |-> IF state = "confirmed" THEN {<<jobs[j].opens, jobs[j].closes>>} ELSE {}]

Diff(before, after, jobs) ==
    {c \in {ChangeOf(j, before, after, jobs) : j \in DOMAIN before \cup DOMAIN after} :
       c.kind # Same}

\* Mutant of Within: only the arrival is looked at.
ArrivesWithin(visit, window) == window[1] <= visit.arrival /\ visit.arrival <= window[2]

\* A promise is a window, and both ends of the visit must fit.
Within(visit, window) ==
    window[1] <= visit.arrival /\ visit.arrival <= window[2] /\ visit.departure <= window[2]

CustomerVisible(c) ==
    /\ c.state \in Promised
    /\ \/ c.kind \in {"dropped", "rescheduled"}
       \/ c.kind = "retimed" /\ ~\E w \in c.promise, v \in c.after : Within(v, w)

Visible(diff) == {c \in diff : CustomerVisible(c)}

-----------------------------------------------------------------------------
(* What may be applied without asking, and the choice among repairs.  An   *)
(* option is [name, diff, served, cost]; limits is the AutonomyPolicy.     *)

MustEscalate(option, limits) ==
    \/ Visible(option.diff) # {}
    \/ option.cost > limits.cost
    \/ Cardinality(option.diff) > limits.changes

AutoApplies(option, limits) == ~MustEscalate(option, limits)

\* Least calls first, then most jobs, then fewest changes.
Better(a, b) ==
    LET calls(o) == Cardinality(Visible(o.diff))
        changes(o) == Cardinality(o.diff)
    IN \/ calls(a) < calls(b)
       \/ calls(a) = calls(b) /\ a.served > b.served
       \/ calls(a) = calls(b) /\ a.served = b.served /\ changes(a) <= changes(b)

\* The engine's recommendation (min of the candidates, the first among equals).
Default(options) ==
    CHOOSE i \in DOMAIN options :
        /\ \A k \in DOMAIN options : Better(options[i], options[k])
        /\ \A k \in 1..i - 1 : ~Better(options[k], options[i])

\* A strategy nobody offered, or no answer at all, leaves the recommendation.
Chosen(options, name) ==
    LET named == {i \in DOMAIN options : options[i].name = name}
    IN options[IF named = {} THEN Default(options) ELSE Max(named)]

\* Policy first, model second: the model may only ask for more review.
NeedsHuman(option, wantsReview, limits) == ~AutoApplies(option, limits) \/ wantsReview

-----------------------------------------------------------------------------
(* What customers are told.  A draft is [job, says, seen]: the days and    *)
(* clock readings its text names, each on its own, and those that          *)
(* _TIME_PATTERNS and _HOUR_RANGE find in it.  "See you at 3" names a      *)
(* reading and shows none.                                                 *)

Readings(day, clock) == {<<"day", day>>, <<"clock", clock>>}

\* The facts of one change: where the visit was, where it is now unless it is
\* dropped, and the window that was promised.
Allowed(c) ==
    UNION ({Readings(v.day, v.arrival) : v \in c.before \cup c.after}
           \cup {Readings(v.day, w[i]) : v \in c.before, w \in c.promise, i \in 1..2})

Affected(diff) == {c.job : c \in Visible(diff)}
Addressed(drafts) == {d.job : d \in drafts}

\* verify_grounding: only what the patterns find is looked up.
Unsupported(drafts, diff) ==
    {d \in drafts : \E c \in Visible(diff) : c.job = d.job /\ ~(d.seen \subseteq Allowed(c))}

\* Mutant of Issues: a customer nobody wrote to is not missed.
IssuesOfDrafts(drafts, diff) ==
    (Addressed(drafts) \ Affected(diff)) \cup Addressed(Unsupported(drafts, diff))

\* Held: a draft to somebody unaffected, one that shows an unsupported moment,
\* and somebody affected nobody wrote to.
Issues(drafts, diff) ==
    (Addressed(drafts) \ Affected(diff)) \cup Addressed(Unsupported(drafts, diff))
    \cup (Affected(diff) \ Addressed(drafts))

SafeToSend(drafts, diff) == drafts # {} /\ Issues(drafts, diff) = {}
=============================================================================
