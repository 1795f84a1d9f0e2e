------------------------------- MODULE Agreement -------------------------------
(***************************************************************************)
(* The days on which the planner (scheduler/day_planner.py) and the        *)
(* checker (domain/invariants.py) see the same things.  The planner        *)
(* samples the road once in each band, cuts outages out of the shift alone *)
(* and holds a promise to one window; the checker drives every leg, looks  *)
(* at outages whenever a crew is out and at a promise in every window.     *)
(***************************************************************************)
EXTENDS DayPlan, Checker

\* Traffic eases over the day, no delay begins during it, and one that is in
\* force is so when its band is sampled.
RoadEases(w, d) ==
    /\ \A i, k \in DOMAIN Bands : i <= k => Bands[k].leg <= Bands[i].leg
    /\ \A x \in w.delays : Clock(d, x.from) <= 0 \/ Minutes <= Clock(d, x.from)
    /\ \A x \in w.delays, t \in 0..Minutes - 1 :
          LET moment == (d - 1) * Minutes + t
              probe == (d - 1) * Minutes + Bands[BandAt(t)].probe
          IN x.from <= moment /\ moment < x.until => x.from <= probe /\ probe < x.until

\* Whoever may be kept past the hours has overtime, and no outage while kept.
NobodyIsKeptPastAnOutage(w, d, late) ==
    \A f \in DOMAIN w.fitters :
        FitterHours(w, f, d) # <<>> /\ KeptUntil(w, f, d, late) > FitterHours(w, f, d)[2] =>
            /\ FitterHours(w, f, d)[2] = w.fitters[f].shift[d][2]
            /\ late /\ w.fitters[f].eligible
            /\ ~Out(w.fitters[f].outages, d, <<FitterHours(w, f, d)[2], KeptUntil(w, f, d, late)>>)

\* An outage that ends before it begins takes nothing off a shift, and fails the check.
OutagesEnd(w) ==
    /\ \A f \in DOMAIN w.fitters : \A o \in w.fitters[f].outages : o.from < o.until
    /\ \A v \in DOMAIN w.vans : \A o \in w.vans[v].outages : o.from < o.until

\* The replay starts a promised job in whichever of its windows is sooner.
OnePromise(w) == \A j \in DOMAIN w.jobs : Confirmed(w.jobs[j]) => Len(w.jobs[j].windows) < 2

\* Nobody was promised a window, or expects one, from before the call was made.
AskedBefore(w, d) ==
    \A j \in DOMAIN w.jobs :
        \/ Clock(d, w.jobs[j].requested) <= 0
        \/ \A win \in ToSet(w.jobs[j].windows) : w.jobs[j].requested <= win.from

SeenAlike(w, d, late) ==
    /\ RoadEases(w, d) /\ NobodyIsKeptPastAnOutage(w, d, late)
    /\ OutagesEnd(w) /\ OnePromise(w) /\ AskedBefore(w, d)
=============================================================================
