------------------------------- MODULE Planning -------------------------------
(***************************************************************************)
(* Planning a week (plan_week and repair in service.py, plan_horizon in    *)
(* scheduler/horizon.py): work already under way is carved out of the      *)
(* problem, a coarse model gives every other job a day, each day is        *)
(* routed, what did not fit tightens its day, and the days are given out   *)
(* again, MaxRounds times at most.  The routes of the last round and the   *)
(* carried ones are the plan, which the checker then looks at.  A plan it  *)
(* accepts is committed; a crew leaves, something breaks, and the week is  *)
(* planned again.                                                          *)
(***************************************************************************)
EXTENDS Agreement

CONSTANTS Days,         \* the horizon is the days 1..Days
          Worlds,       \* the worlds a behaviour starts from
          Troubles,     \* outages that may be reported once a plan stands, and {}
          Utilization,  \* percent of a day's person-minutes that stage A gives out
          MaxRounds,    \* rounds of assigning and routing
          MaxPlans,     \* bound: plans made in a behaviour
          Followed      \* bound: the worlds in which a crew then leaves

ASSUME PlanningConstants ==
    /\ {Days, MaxRounds, MaxPlans} \subseteq Nat \ {0} /\ Utilization \in 0..100
    /\ PerMinute = 1  \* everything happens on the minute
    /\ \A w \in Worlds : IsWorld(w, 1..Days)
    /\ Troubles \subseteq SUBSET [from : Int, until : Int]

VARIABLES world,     \* the world the week is planned in
          late,      \* overtime is allowed in this plan
          head,      \* the routes of the committed plan
          phase,     \* "start", "assign", "route", "planned"
          plans,     \* plans made so far
          left,      \* the world without the work under way
          carried,   \* the routes of the work under way
          round,
          assigned,  \* [job -> day] of this round
          unplaced,  \* [job -> reason], the jobs stage A gave no day
          capacity,  \* [day -> minutes] what a tightened day takes; absent days are not tightened
          results,   \* [day -> result of plan_day], this round
          plan       \* [routes, unserved, released], once phase is "planned"

vars == <<world, late, head, phase, plans, left, carried, round, assigned, unplaced, capacity, results, plan>>

NoPlan == [routes |-> {}, unserved |-> <<>>, released |-> {}]

Init ==
    /\ world \in Worlds
    /\ late \in BOOLEAN
    /\ head = {} /\ carried = {} /\ left = world
    /\ phase = "start" /\ plans = 0 /\ round = 0
    /\ assigned = <<>> /\ unplaced = <<>> /\ capacity = <<>> /\ results = <<>>
    /\ plan = NoPlan

-----------------------------------------------------------------------------
(* Work under way.                                                         *)

UnderWay == {j \in DOMAIN world.jobs : world.jobs[j].state \in {"dispatched", "completed"}}

\* Mutant of Prefix: the stop under way itself is left to be planned.
PrefixBefore(r) == SubSeq(r.stops, 1, Max({0} \cup {i \in DOMAIN r.stops : r.stops[i].job \in UnderWay}) - 1)

\* A route up to its last stop under way: what is earlier has been driven past.
Prefix(r) == SubSeq(r.stops, 1, Max({0} \cup {i \in DOMAIN r.stops : r.stops[i].job \in UnderWay}))

Kept(r) == [r EXCEPT !.stops = Prefix(r), !.home = 0]

\* Crew and van are out from the depot until the last stop under way is done.
Consumed(r) ==
    [from |-> (r.day - 1) * Minutes + Span(Kept(r))[1], until |-> (r.day - 1) * Minutes + Span(Kept(r))[2]]

\* carve_out_locked.  Without a committed plan nothing is carried.
CarveOut ==
    LET started == {r \in head : Prefix(r) # <<>>}
        gone == UNION {{s.job : s \in ToSet(Prefix(r))} : r \in started}
        busy(r) == {Consumed(r)}
    IN /\ phase = "start" /\ plans < MaxPlans
       /\ carried' = {Kept(r) : r \in started}
       /\ left' = [world EXCEPT
            !.jobs = [j \in DOMAIN world.jobs \ gone |-> world.jobs[j]],
            !.fitters = [f \in DOMAIN world.fitters |-> [world.fitters[f] EXCEPT !.outages =
                            @ \cup UNION {busy(r) : r \in {q \in started : f \in q.crew}}]],
            !.vans = [v \in DOMAIN world.vans |-> [world.vans[v] EXCEPT !.outages =
                            @ \cup UNION {busy(r) : r \in {q \in started : v = q.van}}]]]
       /\ plans' = plans + 1 /\ round' = 1 /\ capacity' = <<>>
       /\ phase' = "assign"
       /\ UNCHANGED <<world, late, head, assigned, unplaced, results, plan>>

-----------------------------------------------------------------------------
(* Stage A.                                                                *)

\* Active work nobody is out on.
Schedulable == {j \in DOMAIN left.jobs : Active(left.jobs[j]) /\ left.jobs[j].state # "dispatched"}

StageHours(w, f, d) ==
    LET shift == w.fitters[f].shift[d]
    IN IF shift = <<>> THEN 0
       ELSE (Length(LargestFree(OnDay(w.fitters[f].outages, d), <<shift[1], ReachEnd(w, f, d, shift[2])>>))
             * Utilization) \div 100

Staff(w, d, fs) == MapThenSumSet(LAMBDA f : StageHours(w, f, d), fs)

\* Person-minutes of the fitters who hold cert ({} for everybody), no more than the day was seen to take.
DayCapacity(d, cert) ==
    LET minutes == Staff(left, d, {f \in DOMAIN left.fitters : cert \subseteq left.fitters[f].certs})
    IN IF d \in DOMAIN capacity THEN Earlier(minutes, capacity[d]) ELSE minutes

FeasibleDays(j) ==
    {d \in 1..Days : left.jobs[j].ready <= d /\ TouchesDay(left.jobs[j], d)}

CertifiedDays(j) ==
    {d \in 1..Days : Cardinality(Certified(left, d, left.jobs[j])) >= left.jobs[j].crew}

WhyNoDay(j) ==
    IF left.jobs[j].ready > Days THEN "materials_not_available"
    ELSE IF FeasibleDays(j) = {} THEN "window_on_another_day"
    ELSE IF CertifiedDays(j) = {} THEN "no_certified_worker"
    ELSE "no_capacity_in_horizon"

Demand(w, js) == MapThenSumSet(LAMBDA j : w.jobs[j].dur * w.jobs[j].crew, js)

Certs == UNION {left.jobs[j].certs : j \in DOMAIN left.jobs}

\* Mutant of FitsDay: the day is given out as if it had not been tightened.
FitsRoster(d, js) ==
    Demand(left, js) <= Staff(left, d, DOMAIN left.fitters)

FitsDay(d, js) ==
    /\ Demand(left, js) <= DayCapacity(d, {})
    /\ \A c \in Certs : Demand(left, {j \in js : c \in left.jobs[j].certs}) <= DayCapacity(d, {c})

\* The days stage A may give out: a placement of some of the jobs that have a
\* day at all.  Driving, sectors and the day of the week only price them.
Assignments ==
    LET options == [j \in Schedulable |-> FeasibleDays(j) \cap CertifiedDays(j)]
        placeable == {j \in Schedulable : options[j] # {}}
    IN {a \in UNION {[js -> 1..Days] : js \in SUBSET placeable} :
          /\ \A j \in DOMAIN a : a[j] \in options[j]
          /\ \A d \in 1..Days : FitsDay(d, {j \in DOMAIN a : a[j] = d})}

AssignDays ==
    /\ phase = "assign"
    /\ assigned' \in Assignments
    /\ unplaced' = [j \in Schedulable \ DOMAIN assigned' |->
                      IF FeasibleDays(j) \cap CertifiedDays(j) = {} THEN WhyNoDay(j) ELSE "no_capacity_in_horizon"]
    /\ results' = <<>>
    /\ phase' = "route"
    /\ UNCHANGED <<world, late, head, plans, left, carried, round, capacity, plan>>

-----------------------------------------------------------------------------
(* Stage B.                                                                *)

Today(d) == {j \in DOMAIN assigned : assigned[j] = d}
ToRoute == {d \in 1..Days : Today(d) # {} /\ d \notin DOMAIN results}

\* The days in order.  One that spilled is tightened to what it absorbed.
RouteDay ==
    /\ phase = "route" /\ ToRoute # {}
    /\ LET d == Min(ToRoute)
       IN \E result \in PlanDay(left, d, Today(d), {}, late) :
            LET absorbed == Stopped(result.routes)
            IN /\ results' = Put(results, d, result)
               /\ capacity' = IF Today(d) \subseteq absorbed THEN capacity
                              ELSE Put(capacity, d, Demand(left, absorbed))
    /\ UNCHANGED <<world, late, head, phase, plans, left, carried, round, assigned, unplaced, plan>>

Spilled == UNION {Today(d) \ Stopped(results[d].routes) : d \in DOMAIN results}

NextRound ==
    /\ phase = "route" /\ ToRoute = {} /\ Spilled # {} /\ round < MaxRounds
    /\ round' = round + 1
    /\ phase' = "assign"
    /\ UNCHANGED <<world, late, head, plans, left, carried, assigned, unplaced, capacity, results, plan>>

Routed == UNION {results[d].routes : d \in DOMAIN results}

\* Mutant of Unserved: only what stage A and the days themselves reported.
UnservedReported == unplaced

\* Stage A's reasons come first, then those of the days, then a general one
\* for a job neither routed nor explained.
Unserved ==
    LET days == {d \in DOMAIN results : DOMAIN results[d].unserved # {}}
        said(j) == {d \in days : j \in DOMAIN results[d].unserved}
        why(j) == IF j \in DOMAIN unplaced THEN unplaced[j]
                  ELSE IF said(j) # {} THEN results[Min(said(j))].unserved[j]
                  ELSE "no_capacity_in_horizon"
    IN [j \in (Schedulable \ Stopped(Routed)) \cup DOMAIN unplaced |-> why(j)]

\* The plan is the carried routes and those of the last round.
Finish ==
    /\ phase = "route" /\ ToRoute = {} /\ (Spilled = {} \/ round = MaxRounds)
    /\ plan' = [routes |-> carried \cup Routed, unserved |-> Unserved,
                released |-> UNION {results[d].released : d \in DOMAIN results}]
    /\ phase' = "planned"
    /\ UNCHANGED <<world, late, head, plans, left, carried, round, assigned, unplaced, capacity, results>>

-----------------------------------------------------------------------------
(* What happens to a plan.                                                 *)

Problems == Violations(plan.routes, world, {}, late)

\* A plan the checker accepts becomes the head, one of its crews reaches a job,
\* and perhaps somebody reports trouble: the week is planned again.
Depart(j, trouble) ==
    /\ phase = "planned" /\ plans < MaxPlans /\ world \in Followed
    /\ Problems = {}
    /\ \E r \in plan.routes : r.day = 1 /\ j \in Stopped({r})
    /\ world.jobs[j].state # "dispatched"
    /\ world' = [world EXCEPT !.jobs[j].state = "dispatched",
                              !.vans = [v \in DOMAIN world.vans |-> [world.vans[v] EXCEPT !.outages = @ \cup trouble]]]
    /\ head' = plan.routes
    /\ phase' = "start"
    /\ plan' = NoPlan /\ left' = world' /\ carried' = {} /\ round' = 0
    /\ assigned' = <<>> /\ unplaced' = <<>> /\ capacity' = <<>> /\ results' = <<>>
    /\ UNCHANGED <<late, plans>>

Next ==
    \/ CarveOut \/ AssignDays \/ RouteDay \/ NextRound \/ Finish
    \/ \E j \in DOMAIN world.jobs, trouble \in Troubles : Depart(j, trouble)

Spec == Init /\ [][Next]_vars

-----------------------------------------------------------------------------
(* What a plan has to be.                                                  *)

Jobs == DOMAIN world.jobs

\* Whatever the rounds moved about, every job that still wants work is in the
\* plan: at one stop and not among the unserved, or unserved with a reason and
\* at no stop.  Work under way and work carved out with it is no exception.
EveryJobIsAnsweredOnce ==
    phase = "planned" =>
        \A j \in {x \in Jobs : Active(world.jobs[x])} :
            Cardinality(Uses(plan.routes, j)) + Cardinality({j} \cap DOMAIN plan.unserved) = 1

\* No van has been reported out while its crew was out with it: such a carried
\* route fails the check whatever is planned around it.
NobodyOutIsStranded == \A r \in carried : ~Out(world.vans[r.van].outages, r.day, Span(r))

\* The checker's clock starts again at midnight: a crew back by then may pass
\* with overtime nobody allowed, until the rest of its day is carved out.
BackByMidnight == \A r \in head : Span(r)[2] < Minutes

SameEyes ==
    /\ \A d \in 1..Days : SeenAlike(left, d, late)
    /\ NobodyOutIsStranded /\ BackByMidnight
    /\ plan.released \cap Stopped(plan.routes) = {}

\* A plan that the planner makes within the approximations above is one the
\* checker accepts, the first and every one after work has left the depot: the
\* two share no code, and a plan that fails cannot be committed.
PlanPassesTheChecker == phase = "planned" /\ SameEyes => Problems = {}

\* A plan that passes has put every stop of work under way where the head has
\* it, crew and minute: a repair moves nobody who is already out.
CarriedWorkStands == phase = "planned" => LockedJobsMoved(plan.routes, head, world) = {}

\* A round never gives a day more work than an earlier round saw it absorb: the
\* rounds cannot go back and forth between two overloaded days.
CapacityOnlyTightens ==
    [][\A d \in DOMAIN capacity \cap DOMAIN capacity' : capacity'[d] <= capacity[d]]_vars

\* A job of one hand, one skill and one window at most, and no promise.  Skills
\* that two people hold between them, a second window and a promise are
\* diagnosed by other rules than the solver's, and so is a window that opens
\* after a shift whose end somebody may be kept past.
PlainJob(j, d) ==
    LET job == left.jobs[j]
    IN /\ job.crew = 1 /\ Len(job.windows) < 2 /\ ~Confirmed(job)
       /\ \A a, b \in job.certs : a = b
       /\ \A win \in ToSet(job.windows), f \in Certified(left, d, job) :
            Clock(d, win.from) <= left.fitters[f].shift[d][2] \/ KeptUntil(left, f, d, late) <= Clock(d, win.from)

\* A plain job reported impossible for its skills, crew, window or load is
\* impossible: no van has a run for it that day.
ImpossibleMeansImpossible ==
    \A d \in DOMAIN results : \A j \in DOMAIN results[d].unserved :
        /\ results[d].unserved[j] \in {"no_certified_worker", "crew_size_unavailable",
                                      "hard_window_unreachable", "van_capacity_exceeded"}
        /\ PlainJob(j, d)
        => \A v \in VansOn(left, d) : Runs(left, d, v, {j}, late) = {}
=============================================================================
