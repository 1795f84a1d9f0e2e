------------------------------- MODULE Checker --------------------------------
(***************************************************************************)
(* The invariants every plan is held to before it is stored                *)
(* (domain/invariants.py).  The checker shares no code with the planner:   *)
(* it looks at the routes alone, against the world and the road.           *)
(*                                                                         *)
(* A route is [day, van, crew, stops, home], a stop [job, arrive, leave,   *)
(* travel], in clock times of the route's day.  The checker's minute of    *)
(* slack on a drive is less than the model's smallest step.                *)
(***************************************************************************)
EXTENDS Roads

Span(r) == IF r.stops = <<>> THEN <<>>
           ELSE <<r.stops[1].arrive - r.stops[1].travel, Last(r.stops).leave + r.home>>

Overlap(a, b) == a # <<>> /\ b # <<>> /\ a[1] < b[2] /\ b[1] < a[2]

References(routes, w) ==
    {<<"unknown_entity_reference", r>> :
       r \in {q \in routes : \/ ~(q.crew \subseteq DOMAIN w.fitters)
                             \/ q.van \notin DOMAIN w.vans
                             \/ \E s \in ToSet(q.stops) : s.job \notin DOMAIN w.jobs}}

Uses(routes, j) == UNION {{<<r, i>> : i \in {k \in DOMAIN r.stops : r.stops[k].job = j}} : r \in routes}

\* The second stop for a job is the duplicate, on the same route or another.
Duplicates(routes) ==
    {<<"duplicate_job_assignment", s.job>> :
       s \in {p \in UNION {ToSet(r.stops) : r \in routes} : Cardinality(Uses(routes, p.job)) > 1}}

\* Crews are judged by the skills they hold together; a job may get more hands than it asks for.
CrewFitness(routes, w) ==
    UNION {{<<"missing_certification", s.job>> :
              s \in {p \in ToSet(r.stops) :
                       ~(w.jobs[p.job].certs \subseteq UNION {w.fitters[f].certs : f \in r.crew})}}
           \cup {<<"crew_size_mismatch", s.job>> :
                   s \in {p \in ToSet(r.stops) : Cardinality(r.crew) < w.jobs[p.job].crew}} : r \in routes}

Exclusivity(routes) ==
    UNION {{<<"worker_double_booked", f>> : f \in p[1].crew \cap p[2].crew}
           \cup {<<"van_double_booked", v>> : v \in {p[1].van} \cap {p[2].van}} :
             p \in {x \in routes \X routes : /\ x[1] # x[2] /\ x[1].day = x[2].day
                                             /\ Overlap(Span(x[1]), Span(x[2]))}}

Out(outages, d, span) ==
    \E o \in outages : Covers([from |-> Clock(d, o.from), until |-> Clock(d, o.until)], span[1], span[2])

\* Nobody is scheduled through a known outage.
ResourceAvailability(routes, w) ==
    UNION {{<<"worker_unavailable", f>> : f \in {g \in r.crew : Out(w.fitters[g].outages, r.day, Span(r))}}
           \cup {<<"van_unavailable", v>> : v \in {u \in {r.van} : Out(w.vans[u].outages, r.day, Span(r))}} :
             r \in {q \in routes : q.stops # <<>>}}

\* Every leg is driven again.
TravelConsistency(routes, w) ==
    LET late(r, i) ==
            LET s == r.stops[i]
                origin == IF i = 1 THEN Depot ELSE w.jobs[r.stops[i - 1].job].at
                left == IF i = 1 THEN s.arrive - s.travel ELSE r.stops[i - 1].leave
            IN \/ s.arrive < left
               \/ s.arrive < left + Leg(w.delays, origin, w.jobs[s.job].at, r.day, left)
               \/ s.leave - s.arrive < w.jobs[s.job].dur
    IN UNION {{<<"travel_time_inconsistent", r.stops[i].job>> : i \in {k \in DOMAIN r.stops : late(r, k)}} :
                r \in routes}

\* A hard window, or a promise not released, holds the whole service; any other only its start.
MatchesWindow(job, s, d, isReleased) ==
    \E win \in ToSet(job.windows) :
        /\ Clock(d, win.from) <= s.arrive
        /\ win.hard \/ (job.state = "confirmed" /\ ~isReleased) => s.leave <= Clock(d, win.until)

\* Jobs without windows are passed over altogether, their request too.
Windows(routes, w, released) ==
    LET windowed(r) == {s \in ToSet(r.stops) : w.jobs[s.job].windows # <<>>}
        moved(r) == {s \in windowed(r) : ~MatchesWindow(w.jobs[s.job], s, r.day, s.job \in released)}
        early(r) == {s \in windowed(r) : s.arrive < Clock(r.day, w.jobs[s.job].requested)}
    IN UNION {{<<IF w.jobs[s.job].state = "confirmed" THEN "confirmed_window_moved"
                 ELSE "hard_window_violated", s.job>> : s \in moved(r)}
              \cup {<<"scheduled_before_request", s.job>> : s \in early(r)} : r \in routes}

\* Past the end of the shift only if overtime is on and the fitter takes it:
\* an hour agreed for one day is not looked at.
WorkingHours(routes, w, late) ==
    LET outside(r, f) ==
            LET shift == w.fitters[f].shift[r.day]
            IN \/ shift = <<>>
               \/ Span(r)[1] % Minutes < shift[1]
               \/ Span(r)[2] % Minutes > shift[2] /\ ~(late /\ w.fitters[f].eligible)
    IN UNION {{<<"outside_working_hours", f>> : f \in {g \in r.crew : outside(r, g)}} :
                r \in {q \in routes : q.stops # <<>>}}

VanCapacity(routes, w) ==
    {<<"van_capacity_exceeded", r.van>> :
       r \in {q \in routes : \E g \in Goods :
                MapThenSumSet(LAMBDA i : w.jobs[q.stops[i].job].load[g], DOMAIN q.stops) > w.vans[q.van].room[g]}}

Materials(routes, w) ==
    UNION {{<<"materials_unavailable", s.job>> : s \in {p \in ToSet(r.stops) : r.day < w.jobs[p.job].ready}} :
             r \in routes}

\* An unknown reference ends the other checks of what it names; the model's plans have none.
Violations(routes, w, released, late) ==
    IF References(routes, w) # {} THEN References(routes, w)
    ELSE Duplicates(routes) \cup CrewFitness(routes, w) \cup Exclusivity(routes)
         \cup ResourceAvailability(routes, w) \cup TravelConsistency(routes, w)
         \cup Windows(routes, w, released) \cup WorkingHours(routes, w, late)
         \cup VanCapacity(routes, w) \cup Materials(routes, w)

StopFor(routes, j) == {<<u[1], u[1].stops[u[2]]>> : u \in Uses(routes, j)}

\* Work dispatched or done stays where the plan being replaced has it.
LockedJobsMoved(routes, baseline, w) ==
    {j \in {x \in DOMAIN w.jobs : w.jobs[x].state \in {"dispatched", "completed"}} :
       \E old \in StopFor(baseline, j) :
           LET now == StopFor(routes, j)
           IN \/ now = {}
              \/ \E new \in now : new[2].arrive # old[2].arrive \/ new[1].crew # old[1].crew}
=============================================================================
