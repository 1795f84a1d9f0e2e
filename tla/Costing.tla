------------------------------- MODULE Costing --------------------------------
(***************************************************************************)
(* What a route costs to run and a job is sold for (scheduler/costing.py,  *)
(* scheduler/pricing.py).  Money is whole units; tax, the same share of    *)
(* every quote, and the wages inside a margin are left out.                *)
(***************************************************************************)
EXTENDS Checker

CONSTANTS PerMile,       \* what a van costs between two places
          OvertimeRate,  \* of a fitter's minute past the shift
          Quarter,       \* minutes of the unit that labour is billed in
          LabourRate, AfterHoursRate,  \* of one fitter's Quarter
          CallOut, Minimum             \* the fee, with the glass, and the least charge

ASSUME CostingConstants ==
    /\ {PerMile, OvertimeRate, LabourRate, AfterHoursRate, CallOut, Minimum} \subseteq Nat
    /\ Quarter \in Nat \ {0}

Miles(o, p) == IF o = p THEN 0 ELSE 1

RouteMiles(w, r) ==
    LET at(i) == IF i \in DOMAIN r.stops THEN w.jobs[r.stops[i].job].at ELSE Depot
    IN MapThenSumSet(LAMBDA i : Miles(at(i - 1), at(i)), 1..Len(r.stops) + 1)

\* Each fitter's minutes past the rostered end, the drive home included.
OvertimeMinutes(w, r) ==
    MapThenSumSet(LAMBDA f : Later(0, Span(r)[2] - w.fitters[f].shift[r.day][2]),
                  {f \in r.crew : w.fitters[f].shift[r.day] # <<>>})

\* Driving and labour, without the penalties.
OperatingCost(w, r) == RouteMiles(w, r) * PerMile + OvertimeMinutes(w, r) * OvertimeRate

Total(F(_, _), w, routes) == MapThenSumSet(LAMBDA r : F(w, r), routes)

Billed(minutes) == (minutes + Quarter - 1) \div Quarter

\* Labour is billed per fitter; what runs past the shift at the other rate.
QuoteTotal(job, overtime) ==
    LET person == Billed(job.dur) * job.crew
        after == Earlier(person, Billed(overtime) * job.crew)
    IN Later(Minimum, CallOut + (person - after) * LabourRate + after * AfterHoursRate)
=============================================================================
