-------------------------------- MODULE Roads ---------------------------------
(***************************************************************************)
(* Travel times (domain/travel.py, scheduler/travel/): a leg takes what    *)
(* the traffic band of its departure says, times every recorded delay in   *)
(* force then; the solver's matrix samples one departure in each band the  *)
(* working day touches and keeps the worst.                                *)
(*                                                                         *)
(* Moments are minutes; day d is the Minutes minutes from (d - 1) *        *)
(* Minutes on.  A clock time is relative to the day at hand.               *)
(***************************************************************************)
EXTENDS Hours

CONSTANTS Bands,    \* the traffic bands of a day in order: [from, until, probe, leg]
          Anywhere, \* a delay's end that is not tied to a place
          Depot,    \* where every van starts
          Goods     \* what a van carries: panes on its rack, and stock

ASSUME RoadsConstants ==
    /\ Depot # Anywhere
    /\ Bands \in Seq([from : Int, until : Int, probe : 0..Minutes - 1, leg : Nat \ {0}])
    /\ \A i \in DOMAIN Bands : Bands[i].from <= Bands[i].probe /\ Bands[i].probe < Bands[i].until
    /\ \A i, k \in DOMAIN Bands : i < k => Bands[i].until <= Bands[k].from
    /\ \A t \in 0..Minutes - 1 : \E i \in DOMAIN Bands : Bands[i].from <= t /\ t < Bands[i].until

Clock(d, moment) == moment - (d - 1) * Minutes

BandAt(t) == CHOOSE i \in DOMAIN Bands : LET m == t % Minutes IN Bands[i].from <= m /\ m < Bands[i].until

InForce(delay, o, p, moment) ==
    /\ delay.from <= moment /\ moment < delay.until
    /\ delay.origin \in {o, Anywhere} /\ delay.dest \in {p, Anywhere}

\* "Overlapping delays compound."
Multiplier(delays, o, p, moment) ==
    FoldSet(LAMBDA delay, product : delay.times * product, 1,
            {x \in delays : InForce(x, o, p, moment)})

\* Minutes from place o to place p, leaving at clock time t of day d.
Leg(delays, o, p, d, t) ==
    IF o = p THEN 0
    ELSE Bands[BandAt(t)].leg * Multiplier(delays, o, p, (d - 1) * Minutes + t)

\* One departure in each band that some crew may still be out in.
ProbeTimes(from, until) ==
    LET touched == {i \in DOMAIN Bands : from < Bands[i].until /\ Bands[i].from < until}
    IN {Bands[i].probe : i \in touched}

\* The entry of the solver's matrix.
WorstLeg(delays, o, p, d, probes) == Max({Leg(delays, o, p, d, t) : t \in probes})
=============================================================================
