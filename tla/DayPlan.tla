------------------------------- MODULE DayPlan --------------------------------
(***************************************************************************)
(* One day's routing (plan_day in scheduler/day_planner.py, and            *)
(* scheduler/routing.py): who may be sent, the constraints of the CP-SAT   *)
(* model, the replay of a solution against the road, and the reason given  *)
(* for every job that is left.                                             *)
(*                                                                         *)
(* The solver is any solution of its constraints, or none: it is stopped   *)
(* by a time limit, and the plan is whatever it holds then.  Its objective *)
(* only prefers one solution to another.                                   *)
(*                                                                         *)
(* A world is [jobs, fitters, vans, delays]; its outages, windows, delays  *)
(* and requests are in absolute minutes.  Every van starts at one Depot.   *)
(***************************************************************************)
EXTENDS Roads

CONSTANT Overtime  \* minutes an eligible fitter may be kept past the shift

ASSUME DayPlanConstants == Overtime \in Nat

\* A window's end is after its start, and so is a shift's; a job needs time and
\* one or two people.  A delay is rounded to a whole factor that slows the road.
IsJob(job) ==
    /\ {"at", "dur", "crew", "certs", "windows", "state", "ready", "requested", "load", "claim"} \subseteq DOMAIN job
    /\ job.dur \in Nat \ {0} /\ job.crew \in 1..2 /\ {job.ready, job.requested} \subseteq Int
    /\ job.windows \in Seq([from : Int, until : Int, hard : BOOLEAN])
    /\ \A win \in ToSet(job.windows) : win.from < win.until
    /\ \A g \in Goods : job.load[g] \in Nat

IsFitter(fitter, days) ==
    /\ {"certs", "shift", "eligible", "outages", "kept"} \subseteq DOMAIN fitter
    /\ fitter.eligible \in BOOLEAN /\ fitter.outages \in SUBSET [from : Int, until : Int]
    /\ \A d \in days : /\ fitter.kept[d] \in Int
                      /\ fitter.shift[d] \in {<<>>} \cup {s \in (0..Minutes) \X (0..Minutes) : s[1] < s[2]}

IsVan(van) ==
    /\ {"room", "outages"} \subseteq DOMAIN van
    /\ van.outages \in SUBSET [from : Int, until : Int] /\ \A g \in Goods : van.room[g] \in Int

IsDelay(delay) ==
    /\ {"from", "until", "origin", "dest", "times"} \subseteq DOMAIN delay
    /\ {delay.from, delay.until} \subseteq Int /\ delay.times \in Nat \ {0}

\* What the records of a world are validated for, with its calendar.
IsWorld(w, days) ==
    /\ {"jobs", "fitters", "vans", "delays"} \subseteq DOMAIN w
    /\ IsFiniteSet(DOMAIN w.jobs) /\ IsFiniteSet(DOMAIN w.fitters)
    /\ IsFiniteSet(DOMAIN w.vans) /\ IsFiniteSet(w.delays)
    /\ \A j \in DOMAIN w.jobs : IsJob(w.jobs[j])
    /\ \A f \in DOMAIN w.fitters : IsFitter(w.fitters[f], days)
    /\ \A v \in DOMAIN w.vans : IsVan(w.vans[v])
    /\ \A x \in w.delays : IsDelay(x)

Active(job) == job.state \notin {"completed", "cancelled"}
Confirmed(job) == job.state = "confirmed"

\* A promise binds like a hard window.
Binding(job, window) == window.hard \/ Confirmed(job)

TouchesDay(job, d) ==
    job.windows = <<>> \/ \E win \in ToSet(job.windows) :
                             Clock(d, win.from) < Minutes /\ 0 < Clock(d, win.until)

-----------------------------------------------------------------------------
(* Resources.                                                              *)

OnDay(outages, d) ==
    {[from |-> Clock(d, o.from), until |-> Clock(d, o.until)] : o \in outages}

\* <<>> when the fitter is off that day, or out for all of the shift.
FitterHours(w, f, d) ==
    IF w.fitters[f].shift[d] = <<>> THEN <<>>
    ELSE LargestFree(OnDay(w.fitters[f].outages, d), w.fitters[f].shift[d])

VanHours(w, v, d) == LargestFree(OnDay(w.vans[v].outages, d), <<0, Minutes>>)

FittersOn(w, d) == {f \in DOMAIN w.fitters : FitterHours(w, f, d) # <<>>}
VansOn(w, d) == {v \in DOMAIN w.vans : VanHours(w, v, d) # <<>>}

\* The rostered end, or the later hour agreed for that one day.
ReachEnd(w, f, d, from) == Later(from, w.fitters[f].kept[d])

\* The end of the hours plus the allowance, which an agreement can only raise.
KeptUntil(w, f, d, late) ==
    LET end == FitterHours(w, f, d)[2]
    IN ReachEnd(w, f, d, IF late /\ w.fitters[f].eligible THEN end + Overtime ELSE end)

\* The minutes between which a crew in a van has to leave and be back.
CrewHours(w, d, v, crew, late) ==
    LET van == VanHours(w, v, d)
    IN <<Max({van[1]} \cup {FitterHours(w, f, d)[1] : f \in crew}),
         Min({van[2]} \cup {KeptUntil(w, f, d, late) : f \in crew})>>

Probes(w, d, late) ==
    ProbeTimes(Min({FitterHours(w, f, d)[1] : f \in FittersOn(w, d)}),
               Max({FitterHours(w, f, d)[2] : f \in FittersOn(w, d)}) + IF late THEN Overtime ELSE 0)

-----------------------------------------------------------------------------
(* The constraints.                                                        *)

Skills(w, crew) == UNION {w.fitters[f].certs : f \in crew}

\* Who said yes to the extra hours of a job goes to it, if there that day.
Claimants(w, job, d) == {f \in FittersOn(w, d) : job.claim = <<f, d>>}

Load(w, js, g) == MapThenSumSet(LAMBDA j : w.jobs[j].load[g], js)

CanServe(w, d, v, crew, js) ==
    /\ \A j \in js : /\ Cardinality(crew) >= w.jobs[j].crew
                     /\ w.jobs[j].certs \subseteq Skills(w, crew)
                     /\ Claimants(w, w.jobs[j], d) \subseteq crew
    /\ \A g \in Goods : Load(w, js, g) <= w.vans[v].room[g]

Place(w, stops, i) == IF i \in DOMAIN stops THEN w.jobs[stops[i]].at ELSE Depot

\* Some window of the job can be chosen for a start at minute s.
WindowAllows(job, d, s) ==
    \E win \in ToSet(job.windows) :
        /\ 0 < Clock(d, win.until) /\ Clock(d, win.from) < Minutes
        /\ Later(Clock(d, win.from), 0) <= s
        /\ Binding(job, win) => s + job.dur <= Clock(d, win.until)

\* There are start times for the stops, in this order: each after the drive
\* from the one before, in a window unless the promise is released, and home
\* by the end of the hours.
Timetable(w, d, hours, stops, depart, loose, probes) ==
    \E start \in [DOMAIN stops -> 0..Minutes] :
        LET drive(i) == WorstLeg(w.delays, Place(w, stops, i - 1), Place(w, stops, i), d, probes)
            done(i) == IF i = 0 THEN depart ELSE start[i] + w.jobs[stops[i]].dur
        IN /\ \A i \in DOMAIN stops :
                /\ done(i - 1) + drive(i) <= start[i]
                /\ stops[i] \in loose \/ w.jobs[stops[i]].windows = <<>>
                   \/ WindowAllows(w.jobs[stops[i]], d, start[i])
           /\ done(Len(stops)) + drive(Len(stops) + 1) <= hours[2]

\* A job that is not one of today's is not in the model.
Candidates(w, d, today) ==
    {j \in today \cap DOMAIN w.jobs : /\ Active(w.jobs[j])
                                      /\ w.jobs[j].ready <= d
                                      /\ TouchesDay(w.jobs[j], d)}

Orders(js) == UNION {SetToSeqs(S) : S \in (SUBSET js) \ {{}}}

\* Everything van v could do today: a crew of one or two, when it leaves, its
\* stops in order, and the promises released.
Runs(w, d, v, js, late) ==
    {r \in [van : {v}, crew : {c \in SUBSET FittersOn(w, d) : Cardinality(c) \in 1..2},
            stops : Orders(js), depart : 0..Minutes,
            loose : SUBSET {j \in js : Confirmed(w.jobs[j])}] :
        LET hours == CrewHours(w, d, v, r.crew, late)
        IN /\ r.loose \subseteq ToSet(r.stops)
           /\ CanServe(w, d, v, r.crew, ToSet(r.stops))
           /\ hours[1] <= r.depart
           /\ Timetable(w, d, hours, r.stops, r.depart, r.loose, Probes(w, d, late))}

\* Nobody is in two crews and no job in two runs.
Disjoint(r, q) == r.crew \cap q.crew = {} /\ ToSet(r.stops) \cap ToSet(q.stops) = {}

Solutions(w, d, js, must, late) ==
    LET Add(v, sols) == sols \cup {s \cup {r} : s \in sols, r \in Runs(w, d, v, js, late)}
        all == FoldSet(Add, {{}}, VansOn(w, d))
    IN {s \in all : /\ \A r, q \in s : r # q => Disjoint(r, q)
                    /\ must \cap js \subseteq UNION {ToSet(r.stops) : r \in s}}

-----------------------------------------------------------------------------
(* The replay: what a crew that leaves at a given minute really does.      *)

\* The earliest minute any declared window lets the work begin; the arrival
\* itself when none does, for the checker to find.
EarliestStart(job, d, arrival) ==
    LET begin(win) == Later(arrival, Clock(d, win.from))
        fits == {win \in ToSet(job.windows) :
                   ~win.hard \/ begin(win) + job.dur <= Clock(d, win.until)}
    IN IF fits = {} THEN arrival ELSE Min({begin(win) : win \in fits})

\* Mutant of DepartAndArrive: the crew drives when it is free and does not wait at the door.
DriveStraightOn(w, d, o, job, ready) ==
    LET leg == Leg(w.delays, o, job.at, d, ready) IN [leg |-> leg, arrive |-> ready + leg]

\* A crew that would be early leaves later instead, at a departure that three
\* rounds of guessing may find; one that is not leaves when it is free.
DepartAndArrive(w, d, o, job, ready) ==
    LET drive(t) == Leg(w.delays, o, job.at, d, t)
        target == EarliestStart(job, d, ready + drive(ready))
        guess[n \in 0..3] == target - drive(IF n = 0 THEN ready ELSE guess[n - 1])
        settled == {n \in 0..2 : guess[n] <= ready \/ guess[n + 1] = guess[n]}
        leave == Later(guess[Min(settled \cup {3})], ready)
    IN [leg |-> drive(leave), arrive |-> Later(target, leave + drive(leave))]

MaterializeRoute(w, d, r) ==
    LET stop[i \in DOMAIN r.stops] ==
            LET job == w.jobs[r.stops[i]]
                hop == DepartAndArrive(w, d, Place(w, r.stops, i - 1), job,
                                       IF i = 1 THEN r.depart ELSE stop[i - 1].leave)
            IN [job |-> r.stops[i], arrive |-> hop.arrive, leave |-> hop.arrive + job.dur, travel |-> hop.leg]
        last == Last(r.stops)
    IN [day |-> d, van |-> r.van, crew |-> r.crew, stops |-> stop,
        home |-> Leg(w.delays, w.jobs[last].at, Depot, d, Last(stop).leave)]

-----------------------------------------------------------------------------
(* What plan_day returns.                                                  *)

Certified(w, d, job) == {f \in FittersOn(w, d) : job.certs \subseteq w.fitters[f].certs}

\* Mutant of HardWindowOutOfReach: a shift has to hold the whole window.
WindowNotWhollyWorked(w, d, job) ==
    \E win \in ToSet(job.windows) :
        /\ win.hard
        /\ \/ win.until - win.from < job.dur
           \/ \A f \in Certified(w, d, job) :
                ~(w.fitters[f].shift[d][1] <= Clock(d, win.from)
                  /\ Clock(d, win.until) <= w.fitters[f].shift[d][2])

\* A hard window no certified fitter's rostered shift overlaps, or shorter than the work.
HardWindowOutOfReach(w, d, job) ==
    \E win \in ToSet(job.windows) :
        /\ win.hard
        /\ \/ win.until - win.from < job.dur
           \/ \A f \in Certified(w, d, job) :
                ~(w.fitters[f].shift[d][1] <= Clock(d, win.until)
                  /\ Clock(d, win.from) <= w.fitters[f].shift[d][2])

\* Nobody certified is free for long enough inside the promised window.
PromiseOutOfReach(w, d, job) ==
    /\ Confirmed(job) /\ job.windows # <<>>
    /\ \A f \in Certified(w, d, job) :
         LET shift == w.fitters[f].shift[d]
             free == LargestFree(OnDay(w.fitters[f].outages, d), <<shift[1], ReachEnd(w, f, d, shift[2])>>)
         IN free = <<>> \/ ~(Later(free[1], Clock(d, job.windows[1].from)) + job.dur
                             <= Earlier(free[2], Clock(d, job.windows[1].until)))

\* The reason given, the most specific first; vans are asked about stock only.
Diagnose(w, d, j) ==
    LET job == w.jobs[j]
        why == <<<<~TouchesDay(job, d), "window_on_another_day">>,
                 <<Certified(w, d, job) = {}, "no_certified_worker">>,
                 <<job.crew > Cardinality(Certified(w, d, job)), "crew_size_unavailable">>,
                 <<job.ready > d, "materials_not_available">>,
                 <<HardWindowOutOfReach(w, d, job) \/ PromiseOutOfReach(w, d, job), "hard_window_unreachable">>,
                 <<\E g \in Goods \ {"panes"} : \A v \in DOMAIN w.vans : w.vans[v].room[g] < job.load[g],
                   "van_capacity_exceeded">>,
                 <<TRUE, "no_capacity_in_horizon">>>>
    IN why[Min({i \in DOMAIN why : why[i][1]})][2]

\* A job that never reached the model.
NotToday(w, d, j) ==
    IF w.jobs[j].ready > d THEN "materials_not_available" ELSE "window_on_another_day"

Served(s) == UNION {ToSet(r.stops) : r \in s}

\* The solutions the solver may come back with; with nobody or nothing to
\* send it is not asked.
Found(w, d, js, must, late) ==
    IF js = {} \/ FittersOn(w, d) = {} \/ VansOn(w, d) = {} THEN {}
    ELSE Solutions(w, d, js, must, late)

LeftOver(w, d, today, served) ==
    [j \in {x \in (today \cap DOMAIN w.jobs) \ served : Active(w.jobs[x])} |->
        IF j \in Candidates(w, d, today) THEN Diagnose(w, d, j) ELSE NotToday(w, d, j)]

\* A promise is released if its job is dropped or served outside it.
Outcome(w, d, today, s) ==
    [routes |-> {MaterializeRoute(w, d, r) : r \in s},
     released |-> {j \in Candidates(w, d, today) :
                     Confirmed(w.jobs[j]) /\ (j \in Served(s) => \E r \in s : j \in r.loose)},
     unserved |-> LeftOver(w, d, today, Served(s))]

NothingPlanned(w, d, today) ==
    [routes |-> {}, released |-> {}, unserved |-> LeftOver(w, d, today, {})]

\* With nobody to send, or no solution in time, every job is explained and no
\* promise is reported released.
PlanDay(w, d, today, must, late) ==
    {Outcome(w, d, today, s) : s \in Found(w, d, Candidates(w, d, today), must, late)}
        \cup {NothingPlanned(w, d, today)}

\* The jobs some routes stop for.
Stopped(routes) == UNION {{s.job : s \in ToSet(r.stops)} : r \in routes}

\* A dictionary with one entry more, or another.
Put(f, d, x) == [e \in DOMAIN f \cup {d} |-> IF e = d THEN x ELSE f[e]]
=============================================================================
