---------------------------- MODULE Planning_proofs ----------------------------
(***************************************************************************)
(* Every job of the week gets one answer, and nobody who is out is moved.  *)
(*                                                                         *)
(* The invariant says what a set of routes is at every stage of a plan: it *)
(* stops for no job twice, the carried prefixes stop for every job that is *)
(* out, the routes of a day stop for jobs given to that day, and jobs      *)
(* carried are not among those to plan.  What the day planner may return   *)
(* is an induction over the vans, the solutions being a fold over them,    *)
(* and what the replay makes of a run an induction over its stops.         *)
(***************************************************************************)
EXTENDS Planning, DayPlan_proofs

-----------------------------------------------------------------------------
(* Work under way.                                                         *)

Dispatched == {j \in DOMAIN world.jobs : world.jobs[j].state = "dispatched"}
Started == {r \in head : Prefix(r) # <<>>}
Gone == UNION {{s.job : s \in ToSet(Prefix(r))} : r \in Started}

\* A prefix holds the stops of its route as far as the last one under way.
LEMMA PrefixMeans ==
    ASSUME NEW r, NEW n \in Nat, r.stops = [i \in 1..n |-> r.stops[i]]
    PROVE  \E m \in 0..n : /\ Prefix(r) = [i \in 1..m |-> r.stops[i]]
                           /\ DOMAIN Prefix(r) = 1..m
                           /\ \A i \in 1..m : Prefix(r)[i] = r.stops[i]
                           /\ \A i \in 1..n : r.stops[i].job \in UnderWay => i <= m
<1> DEFINE T == {0} \cup {i \in DOMAIN r.stops : r.stops[i].job \in UnderWay}
<1>1. DOMAIN r.stops = 1..n
    OBVIOUS
<1>2. T \in SUBSET (0..n) /\ T # {}
    BY <1>1
<1>3. PICK m \in T : \A y \in T : y <= m
    <2> HIDE DEF T
    <2> QED
        BY <1>2, BoundedHaveGreatest
<1>4. Max(T) = m
    <2>1. \A x \in T : (\A y \in T : x >= y) => x = m
        BY <1>2, <1>3
    <2>2. \A y \in T : m >= y
        BY <1>2, <1>3
    <2> HIDE DEF T
    <2> QED
        BY <1>3, <2>1, <2>2 DEF Max
<1>5. m \in 0..n
    BY <1>2, <1>3
<1>6. \A i \in 1..n : r.stops[i].job \in UnderWay => i <= m
    BY <1>1, <1>3
<1>7. Prefix(r) = SubSeq(r.stops, 1, m)
    BY <1>4 DEF Prefix
<1>8. SubSeq(r.stops, 1, m) = [i \in 1..m |-> r.stops[i]]
    <2>1. r.stops \in Seq({r.stops[i] : i \in 1..n}) /\ Len(r.stops) = n
        OBVIOUS
    <2> QED
        BY <1>5, <2>1
<1> QED
    BY <1>5, <1>6, <1>7, <1>8

LEMMA KeptMeans ==
    ASSUME NEW r, IsRoute(r)
    PROVE  /\ IsRoute(Kept(r)) /\ Kept(r).crew = r.crew
           /\ DOMAIN Kept(r).stops \subseteq DOMAIN r.stops
           /\ Kept(r).stops = Prefix(r)
           /\ \A i \in DOMAIN Prefix(r) : Prefix(r)[i] = r.stops[i]
           /\ \A i \in DOMAIN r.stops : r.stops[i].job \in UnderWay =>
                 i \in DOMAIN Prefix(r) /\ Prefix(r) # <<>>
<1>1. PICK n \in Nat : r.stops = [i \in 1..n |-> r.stops[i]]
    BY DEF IsRoute
<1>2. PICK m \in 0..n : /\ Prefix(r) = [i \in 1..m |-> r.stops[i]]
                        /\ DOMAIN Prefix(r) = 1..m
                        /\ \A i \in 1..m : Prefix(r)[i] = r.stops[i]
                        /\ \A i \in 1..n : r.stops[i].job \in UnderWay => i <= m
    BY <1>1, PrefixMeans
<1>3. PICK p : p = Prefix(r)
    OBVIOUS
<1>4. PICK k : k = Kept(r)
    OBVIOUS
<1>5. k = [day |-> r.day, van |-> r.van, crew |-> r.crew, stops |-> p, home |-> 0]
    BY <1>3, <1>4 DEF Kept, IsRoute
<1>6. DOMAIN r.stops = 1..n /\ m \in Nat
    BY <1>1
<1>7. p = [i \in 1..m |-> p[i]] /\ DOMAIN p = 1..m
    BY <1>2, <1>3
<1>8. IsRoute(k)
    BY <1>5, <1>6, <1>7 DEF IsRoute
<1>9. \A i \in DOMAIN r.stops : r.stops[i].job \in UnderWay => i \in DOMAIN p /\ p # <<>>
    BY <1>2, <1>6, <1>7
<1> QED
    BY <1>2, <1>3, <1>4, <1>5, <1>6, <1>7, <1>8, <1>9

LEMMA KeptTyped == ASSUME NEW r, RouteTyped(r) PROVE RouteTyped(Kept(r))
<1>1. /\ IsRoute(Kept(r)) /\ DOMAIN Kept(r).stops \subseteq DOMAIN r.stops
      /\ Kept(r).stops = Prefix(r) /\ \A i \in DOMAIN Prefix(r) : Prefix(r)[i] = r.stops[i]
    BY KeptMeans DEF RouteTyped
<1>2. PICK k : k = Kept(r)
    OBVIOUS
<1>3. k.day = r.day /\ k.home = 0
    <2>1. r = [day |-> r.day, van |-> r.van, crew |-> r.crew, stops |-> r.stops, home |-> r.home]
        BY DEF RouteTyped, IsRoute
    <2>2. PICK p : p = Prefix(r)
        OBVIOUS
    <2>3. k = [r EXCEPT !.stops = p, !.home = 0]
        BY <1>2, <2>2 DEF Kept
    <2> QED
        BY <2>1, <2>3
<1>4. \A i \in DOMAIN k.stops : i \in DOMAIN r.stops /\ k.stops[i] = r.stops[i]
    BY <1>1, <1>2
<1>5. IsRoute(k)
    BY <1>1, <1>2
<1> QED
    BY <1>2, <1>3, <1>4, <1>5 DEF RouteTyped

\* A crew that is out is out for some time.
LEMMA ConsumedTyped ==
    ASSUME NEW r, RouteTyped(r), Prefix(r) # <<>>
    PROVE  Consumed(r) \in [from : Int, until : Int] /\ Consumed(r).from < Consumed(r).until
<1>1. PICK k : k = Kept(r)
    OBVIOUS
<1>2. RouteTyped(k) /\ k.stops # <<>>
    BY <1>1, KeptTyped, KeptMeans DEF RouteTyped
<1>3. Span(k)[1] \in Int /\ Span(k)[2] \in Int /\ Span(k)[1] < Span(k)[2]
    BY <1>2, SpanMeans
<1>4. PICK m \in Int : m = (r.day - 1) * Minutes
    <2>1. r.day \in Int /\ Minutes \in Int
        BY HoursConstants DEF RouteTyped
    <2> QED
        BY <2>1
<1>5. Consumed(r) = [from |-> m + Span(k)[1], until |-> m + Span(k)[2]]
    BY <1>1, <1>4 DEF Consumed
<1> QED
    BY <1>3, <1>4, <1>5

\* What is carried is what has left the depot, and nothing twice.
LEMMA CarriedMeans ==
    ASSUME RoutesOK(head)
    PROVE  LET kept == {Kept(r) : r \in Started}
           IN  /\ RoutesOK(kept) /\ Stopped(kept) = Gone
               /\ UnderWay \cap Stopped(head) \subseteq Gone
               /\ \A r \in head : \A i \in DOMAIN r.stops : r.stops[i].job \in UnderWay =>
                     /\ Kept(r) \in kept /\ Kept(r).crew = r.crew
                     /\ i \in DOMAIN Kept(r).stops /\ Kept(r).stops[i] = r.stops[i]
<1> DEFINE kept == {Kept(r) : r \in Started}
<1>1. ASSUME NEW r \in head
      PROVE  /\ IsRoute(Kept(r)) /\ Kept(r).crew = r.crew
             /\ DOMAIN Kept(r).stops \subseteq DOMAIN r.stops
             /\ Kept(r).stops = Prefix(r)
             /\ \A i \in DOMAIN Prefix(r) : Prefix(r)[i] = r.stops[i]
             /\ \A i \in DOMAIN r.stops : r.stops[i].job \in UnderWay =>
                   i \in DOMAIN Prefix(r) /\ Prefix(r) # <<>>
    BY KeptMeans DEF RoutesOK
<1>2. \A k \in kept : \E r \in head : k = Kept(r) /\ r \in Started
    BY DEF Started
<1>3. Once(kept)
    <2> SUFFICES ASSUME NEW a \in kept, NEW b \in kept,
                        NEW i \in DOMAIN a.stops, NEW k \in DOMAIN b.stops,
                        a.stops[i].job = b.stops[k].job
                 PROVE  a = b /\ i = k
        BY DEF Once
    <2>1. PICK r \in head : a = Kept(r)
        BY <1>2
    <2>2. PICK q \in head : b = Kept(q)
        BY <1>2
    <2>3. /\ i \in DOMAIN r.stops /\ k \in DOMAIN q.stops
          /\ a.stops[i] = r.stops[i] /\ b.stops[k] = q.stops[k]
        BY <1>1, <2>1, <2>2
    <2>4. r = q /\ i = k
        BY <2>3 DEF RoutesOK, Once
    <2> QED
        BY <2>1, <2>2, <2>4
<1>4. RoutesOK(kept)
    BY <1>1, <1>2, <1>3 DEF RoutesOK
<1>5. Stopped(kept) = Gone
    <2>1. \A r \in Started : Kept(r).stops = Prefix(r)
        BY <1>1 DEF Started
    <2>2. Stopped(kept) = UNION {{s.job : s \in ToSet(Kept(r).stops)} : r \in Started}
        BY DEF Stopped
    <2> QED
        BY <2>1, <2>2 DEF Gone
<1>6. ASSUME NEW r \in head, NEW i \in DOMAIN r.stops, r.stops[i].job \in UnderWay
      PROVE  /\ Kept(r) \in kept /\ Kept(r).crew = r.crew
             /\ i \in DOMAIN Kept(r).stops /\ Kept(r).stops[i] = r.stops[i]
    <2>1. Prefix(r) # <<>>
        BY <1>1, <1>6
    <2>2. r \in Started
        BY <2>1 DEF Started
    <2> QED
        BY <1>1, <1>6, <2>2
<1>7. UnderWay \cap Stopped(head) \subseteq Gone
    <2> SUFFICES ASSUME NEW j \in UnderWay, j \in Stopped(head) PROVE j \in Stopped(kept)
        BY <1>5
    <2>1. PICK r \in head : \E i \in DOMAIN r.stops : r.stops[i].job = j
        BY StoppedMeans
    <2>2. PICK i \in DOMAIN r.stops : r.stops[i].job = j
        BY <2>1
    <2>3. Kept(r) \in kept /\ i \in DOMAIN Kept(r).stops /\ Kept(r).stops[i].job = j
        BY <1>6, <2>2
    <2> HIDE DEF kept
    <2> QED
        BY <2>3, StoppedMeans
<1> QED
    BY <1>4, <1>5, <1>6, <1>7

-----------------------------------------------------------------------------
(* The invariant.                                                          *)

Phases == {"start", "assign", "route", "planned"}

HeadOK ==
    /\ IsWorld(world, 1..Days) /\ phase \in Phases
    /\ RoutesOK(head) /\ (\A r \in head : RouteTyped(r)) /\ Dispatched \subseteq Stopped(head)

\* From the carve-out on, what is out is carried and the rest is to be planned.
CarveOK ==
    phase # "start" =>
        /\ carried = {Kept(r) : r \in Started}
        /\ left.jobs = [j \in DOMAIN world.jobs \ Gone |-> world.jobs[j]]
        /\ IsWorld(left, 1..Days)

DayOK(d) ==
    /\ RoutesOK(results[d].routes) /\ \A r \in results[d].routes : r.day = d /\ RouteTyped(r)
    /\ Stopped(results[d].routes) \subseteq Today(d)

RoundOK ==
    phase = "route" =>
        /\ DOMAIN assigned \subseteq Schedulable
        /\ DOMAIN unplaced = Schedulable \ DOMAIN assigned
        /\ \A d \in DOMAIN results : DayOK(d)

\* A plan is what is carried, and routes for some of the rest; the others are
\* reported.
PlannedWith(routes) ==
    /\ plan.routes = carried \cup routes /\ RoutesOK(routes) /\ (\A r \in routes : RouteTyped(r))
    /\ Stopped(routes) \subseteq Schedulable
    /\ DOMAIN plan.unserved = Schedulable \ Stopped(routes)

PlanOK == phase = "planned" => \E routes : PlannedWith(routes)

PlanningInv == HeadOK /\ CarveOK /\ RoundOK /\ PlanOK

\* Nobody has set out before there is a plan.
NobodyOut == \A w \in Worlds : \A j \in DOMAIN w.jobs : w.jobs[j].state # "dispatched"

\* Carried and new routes have no job in common.
LEMMA PlannedTogether ==
    ASSUME PlanningInv, phase = "planned", NEW routes, PlannedWith(routes)
    PROVE  /\ RoutesOK(plan.routes) /\ Stopped(plan.routes) = Gone \cup Stopped(routes)
           /\ Dispatched \subseteq Gone /\ Gone \cap Schedulable = {}
           /\ carried = {Kept(r) : r \in Started} /\ \A r \in plan.routes : RouteTyped(r)
<1>1. carried = {Kept(r) : r \in Started} /\ DOMAIN left.jobs = DOMAIN world.jobs \ Gone
    BY DEF PlanningInv, CarveOK
<1>2. RoutesOK(carried) /\ Stopped(carried) = Gone
    BY <1>1, CarriedMeans DEF PlanningInv, HeadOK
<1>3. Gone \cap Schedulable = {}
    BY <1>1 DEF Schedulable
<1>4. RoutesOK(plan.routes) /\ Stopped(plan.routes) = Gone \cup Stopped(routes)
    <2>1. Stopped(carried) \cap Stopped(routes) = {} /\ RoutesOK(routes)
        BY <1>2, <1>3 DEF PlannedWith
    <2>2. RoutesOK(carried \cup routes) /\ Stopped(carried \cup routes) = Gone \cup Stopped(routes)
        BY <1>2, <2>1, TogetherOnce
    <2> QED
        BY <2>2 DEF PlannedWith
<1>5. Dispatched \subseteq Gone
    <2>1. Dispatched \subseteq UnderWay /\ Dispatched \subseteq Stopped(head)
        BY DEF Dispatched, UnderWay, PlanningInv, HeadOK
    <2>2. UnderWay \cap Stopped(head) \subseteq Gone
        BY CarriedMeans DEF PlanningInv, HeadOK
    <2> QED
        BY <2>1, <2>2
<1>6. \A r \in plan.routes : RouteTyped(r)
    <2>1. \A r \in Started : RouteTyped(Kept(r))
        BY KeptTyped DEF Started, PlanningInv, HeadOK
    <2> QED
        BY <1>1, <2>1 DEF PlannedWith
<1> QED
    BY <1>1, <1>3, <1>4, <1>5, <1>6

LEMMA PlanningStarts == ASSUME NobodyOut PROVE Init => PlanningInv
<1> SUFFICES ASSUME Init PROVE PlanningInv
    OBVIOUS
<1>1. world \in Worlds /\ head = {} /\ phase = "start"
    BY DEF Init
<1>2. IsWorld(world, 1..Days)
    BY <1>1, PlanningConstants
<1>3. Dispatched = {}
    BY <1>1 DEF Dispatched, NobodyOut
<1>4. RoutesOK(head) /\ \A r \in head : RouteTyped(r)
    BY <1>1 DEF RoutesOK, Once
<1> QED
    BY <1>1, <1>2, <1>3, <1>4 DEF PlanningInv, HeadOK, CarveOK, RoundOK, PlanOK, Phases

\* What does not touch the world nor the head.
LEMMA HeadStays ==
    ASSUME PlanningInv, UNCHANGED <<world, head>>, phase' \in Phases
    PROVE  HeadOK' /\ Started' = Started /\ Gone' = Gone /\ \A r : Kept(r)' = Kept(r)
<1>1. UnderWay' = UnderWay /\ Dispatched' = Dispatched
    BY DEF UnderWay, Dispatched
<1>2. \A r : Prefix(r)' = Prefix(r)
    BY <1>1 DEF Prefix
<1>3. \A r : Kept(r)' = Kept(r)
    BY <1>2 DEF Kept
<1>4. Started' = Started
    BY <1>2 DEF Started
<1>5. Gone' = Gone
    BY <1>2, <1>4 DEF Gone
<1>6. HeadOK'
    BY <1>1 DEF PlanningInv, HeadOK
<1> QED
    BY <1>3, <1>4, <1>5, <1>6

LEMMA CarveStays ==
    ASSUME PlanningInv, UNCHANGED <<world, head, left, carried>>, phase # "start", phase' \in Phases
    PROVE  HeadOK' /\ CarveOK' /\ Schedulable' = Schedulable
<1>1. HeadOK' /\ Started' = Started /\ Gone' = Gone /\ \A r : Kept(r)' = Kept(r)
    BY HeadStays
<1>2. CarveOK'
    BY <1>1 DEF PlanningInv, CarveOK
<1> QED
    BY <1>1, <1>2 DEF Schedulable

\* A world with fewer jobs, and with more outages, is one still.
LEMMA CarvedWorld ==
    ASSUME NEW w, NEW days, IsWorld(w, days), NEW next, DOMAIN next = DOMAIN w, next.delays = w.delays,
           NEW js \in SUBSET DOMAIN w.jobs, next.jobs = [j \in js |-> w.jobs[j]],
           NEW ff, NEW vv, \A f \in DOMAIN w.fitters : ff[f] \in SUBSET [from : Int, until : Int],
           \A v \in DOMAIN w.vans : vv[v] \in SUBSET [from : Int, until : Int],
           next.fitters = [f \in DOMAIN w.fitters |-> [w.fitters[f] EXCEPT !.outages = @ \cup ff[f]]],
           next.vans = [v \in DOMAIN w.vans |-> [w.vans[v] EXCEPT !.outages = @ \cup vv[v]]]
    PROVE  IsWorld(next, days)
<1> DEFINE R == [from : Int, until : Int]
<1>1. DOMAIN next.jobs = js /\ \A j \in js : next.jobs[j] = w.jobs[j]
    OBVIOUS
<1>2. ASSUME NEW f \in DOMAIN w.fitters PROVE IsFitter(next.fitters[f], days)
    <2>1. PICK g : g = w.fitters[f]
        OBVIOUS
    <2>2. PICK h : h = next.fitters[f]
        OBVIOUS
    <2>3. IsFitter(g, days)
        BY <2>1 DEF IsWorld
    <2>4. h = [g EXCEPT !.outages = g.outages \cup ff[f]]
        BY <2>1, <2>2
    <2>5. /\ DOMAIN h = DOMAIN g /\ h.outages = g.outages \cup ff[f] /\ h.eligible = g.eligible
          /\ h.shift = g.shift /\ h.kept = g.kept
        BY <2>3, <2>4 DEF IsFitter
    <2>6. h.outages \in SUBSET R
        <3>1. g.outages \in SUBSET R /\ ff[f] \in SUBSET R
            BY <2>3 DEF IsFitter
        <3> HIDE DEF R
        <3> QED
            BY <2>5, <3>1
    <2> QED
        BY <2>2, <2>3, <2>5, <2>6 DEF IsFitter
<1>3. ASSUME NEW v \in DOMAIN w.vans PROVE IsVan(next.vans[v])
    <2>1. PICK g : g = w.vans[v]
        OBVIOUS
    <2>2. PICK h : h = next.vans[v]
        OBVIOUS
    <2>3. IsVan(g)
        BY <2>1 DEF IsWorld
    <2>4. h = [g EXCEPT !.outages = g.outages \cup vv[v]]
        BY <2>1, <2>2
    <2>5. DOMAIN h = DOMAIN g /\ h.outages = g.outages \cup vv[v] /\ h.room = g.room
        BY <2>3, <2>4 DEF IsVan
    <2>6. h.outages \in SUBSET R
        <3>1. g.outages \in SUBSET R /\ vv[v] \in SUBSET R
            BY <2>3 DEF IsVan
        <3> HIDE DEF R
        <3> QED
            BY <2>5, <3>1
    <2> QED
        BY <2>2, <2>3, <2>5, <2>6 DEF IsVan
<1>4. DOMAIN next.fitters = DOMAIN w.fitters /\ DOMAIN next.vans = DOMAIN w.vans
    OBVIOUS
<1>5. IsFiniteSet(js) /\ \A j \in js : IsJob(w.jobs[j])
    BY FS_Subset DEF IsWorld
<1> QED
    BY <1>1, <1>2, <1>3, <1>4, <1>5 DEF IsWorld

LEMMA CarvingKeeps == ASSUME PlanningInv, CarveOut PROVE PlanningInv'
<1>1. phase' = "assign" /\ UNCHANGED <<world, head>>
    BY DEF CarveOut
<1>2. HeadOK' /\ Started' = Started /\ Gone' = Gone /\ \A r : Kept(r)' = Kept(r)
    BY <1>1, HeadStays DEF Phases
<1>3. IsWorld(world, 1..Days)
    BY DEF PlanningInv, HeadOK
<1> DEFINE ff == [f \in DOMAIN world.fitters |-> UNION {{Consumed(r)} : r \in {q \in Started : f \in q.crew}}]
           vv == [v \in DOMAIN world.vans |-> UNION {{Consumed(r)} : r \in {q \in Started : v = q.van}}]
           js == DOMAIN world.jobs \ Gone
<1>4. /\ carried' = {Kept(r) : r \in Started}
      /\ left' = [world EXCEPT
                    !.jobs = [j \in js |-> world.jobs[j]],
                    !.fitters = [f \in DOMAIN world.fitters |-> [world.fitters[f] EXCEPT !.outages = @ \cup ff[f]]],
                    !.vans = [v \in DOMAIN world.vans |-> [world.vans[v] EXCEPT !.outages = @ \cup vv[v]]]]
    BY DEF CarveOut, Started, Gone
<1>5. \A r \in Started : Consumed(r) \in [from : Int, until : Int]
    BY ConsumedTyped DEF Started, PlanningInv, HeadOK
<1>6. /\ \A f \in DOMAIN world.fitters : ff[f] \in SUBSET [from : Int, until : Int]
      /\ \A v \in DOMAIN world.vans : vv[v] \in SUBSET [from : Int, until : Int]
    BY <1>5
<1> HIDE DEF ff, vv
<1>7. PICK w, next : w = world /\ next = left'
    OBVIOUS
<1>8. /\ DOMAIN next = DOMAIN w /\ next.delays = w.delays
      /\ next.jobs = [j \in js |-> w.jobs[j]]
      /\ next.fitters = [f \in DOMAIN w.fitters |-> [w.fitters[f] EXCEPT !.outages = @ \cup ff[f]]]
      /\ next.vans = [v \in DOMAIN w.vans |-> [w.vans[v] EXCEPT !.outages = @ \cup vv[v]]]
    BY <1>3, <1>4, <1>7 DEF IsWorld
<1>9. IsWorld(next, 1..Days)
    <2>1. /\ IsWorld(w, 1..Days) /\ js \in SUBSET DOMAIN w.jobs
          /\ \A f \in DOMAIN w.fitters : ff[f] \in SUBSET [from : Int, until : Int]
          /\ \A v \in DOMAIN w.vans : vv[v] \in SUBSET [from : Int, until : Int]
        BY <1>3, <1>6, <1>7
    <2> HIDE DEF js
    <2> QED
        BY <1>8, <2>1, CarvedWorld
<1>10. IsWorld(left', 1..Days) /\ left'.jobs = [j \in DOMAIN world.jobs \ Gone |-> world.jobs[j]]
    BY <1>7, <1>8, <1>9
<1>11. CarveOK'
    BY <1>1, <1>2, <1>4, <1>10 DEF CarveOK
<1> QED
    BY <1>1, <1>2, <1>11 DEF PlanningInv, RoundOK, PlanOK

LEMMA AssigningKeeps == ASSUME PlanningInv, AssignDays PROVE PlanningInv'
<1>1. phase = "assign" /\ phase' = "route" /\ UNCHANGED <<world, head, left, carried>>
    BY DEF AssignDays
<1>2. HeadOK' /\ CarveOK' /\ Schedulable' = Schedulable
    BY <1>1, CarveStays DEF Phases
<1>3. DOMAIN assigned' \subseteq Schedulable
    <2> DEFINE options == [j \in Schedulable |-> FeasibleDays(j) \cap CertifiedDays(j)]
               placeable == {j \in Schedulable : options[j] # {}}
    <2>1. assigned' \in UNION {[js -> 1..Days] : js \in SUBSET placeable}
        BY DEF AssignDays, Assignments
    <2>2. placeable \subseteq Schedulable
        OBVIOUS
    <2> HIDE DEF placeable
    <2> QED
        BY <2>1, <2>2
<1>4. DOMAIN unplaced' = Schedulable \ DOMAIN assigned' /\ DOMAIN results' = {}
    BY DEF AssignDays
<1> QED
    BY <1>1, <1>2, <1>3, <1>4 DEF PlanningInv, RoundOK, PlanOK

\* The day that is routed is the first that is left.
LEMMA DayToRoute ==
    ASSUME ToRoute # {}
    PROVE  Min(ToRoute) \in ToRoute /\ Min(ToRoute) \in 1..Days /\ Min(ToRoute) \in Int
<1>1. ToRoute \in SUBSET Int /\ \A e \in ToRoute : 1 <= e /\ e \in 1..Days
    BY PlanningConstants DEF ToRoute
<1>2. Min(ToRoute) \in ToRoute
    BY <1>1, MinMeans
<1> QED
    BY <1>1, <1>2

LEMMA RoutingKeeps == ASSUME PlanningInv, RouteDay PROVE PlanningInv'
<1>1. /\ phase = "route" /\ phase' = "route"
      /\ UNCHANGED <<world, head, left, carried, assigned, unplaced>>
    BY DEF RouteDay
<1>2. HeadOK' /\ CarveOK' /\ Schedulable' = Schedulable
    BY <1>1, CarveStays DEF Phases
<1>3. PICK d : d = Min(ToRoute)
    OBVIOUS
<1>4. PICK result \in PlanDay(left, d, Today(d), {}, late) : results' = Put(results, d, result)
    BY <1>3 DEF RouteDay
<1>5. /\ DOMAIN results' \subseteq {d} \cup DOMAIN results
      /\ results'[d] = result
      /\ \A e \in DOMAIN results \ {d} : results'[e] = results[e]
    BY <1>4 DEF Put
<1>6. IsWorld(left, 1..Days)
    BY <1>1 DEF PlanningInv, CarveOK
<1>7. /\ RoutesOK(result.routes) /\ \A r \in result.routes : r.day = d /\ RouteTyped(r)
      /\ Stopped(result.routes) \subseteq Today(d)
    <2>1. IsFiniteSet(DOMAIN left.vans) /\ IsFiniteSet(DOMAIN left.jobs)
        BY <1>6 DEF IsWorld
    <2>2. /\ RoutesOK(result.routes) /\ \A r \in result.routes : r.day = d
          /\ Stopped(result.routes) \subseteq Today(d)
        BY <1>4, <2>1, PlanDayMeans
    <2>3. d \in Int
        BY <1>1, <1>3, DayToRoute DEF RouteDay
    <2>4. \A r \in result.routes : RouteTyped(r)
        BY <1>4, <1>6, <2>3, PlanDayTyped
    <2> QED
        BY <2>2, <2>4
<1>8. ASSUME NEW e \in DOMAIN results' PROVE DayOK(e)'
    <2>1. Today(e)' = Today(e)
        BY <1>1 DEF Today
    <2>2. CASE e = d
        BY <1>5, <1>7, <2>1, <2>2 DEF DayOK
    <2>3. CASE e # d
        <3>1. e \in DOMAIN results /\ DayOK(e)
            BY <1>1, <1>5, <2>3 DEF PlanningInv, RoundOK
        <3> QED
            BY <1>5, <2>1, <2>3, <3>1 DEF DayOK
    <2> QED
        BY <2>2, <2>3
<1>9. RoundOK'
    BY <1>1, <1>2, <1>8 DEF PlanningInv, RoundOK
<1> QED
    BY <1>1, <1>2, <1>9 DEF PlanningInv, PlanOK

LEMMA NextRoundKeeps == ASSUME PlanningInv, NextRound PROVE PlanningInv'
<1>1. phase = "route" /\ phase' = "assign" /\ UNCHANGED <<world, head, left, carried>>
    BY DEF NextRound
<1>2. HeadOK' /\ CarveOK'
    BY <1>1, CarveStays DEF Phases
<1> QED
    BY <1>1, <1>2 DEF PlanningInv, RoundOK, PlanOK

\* The days of a round have no job in common.
LEMMA DaysTogether ==
    ASSUME PlanningInv, phase = "route"
    PROVE  /\ RoutesOK(Routed) /\ Stopped(Routed) \subseteq DOMAIN assigned
           /\ \A r \in Routed : RouteTyped(r)
<1>1. \A d \in DOMAIN results : DayOK(d)
    BY DEF PlanningInv, RoundOK
<1>2. \A r \in Routed : \E d \in DOMAIN results : r \in results[d].routes
    BY DEF Routed
<1>3. ASSUME NEW d \in DOMAIN results, NEW r \in results[d].routes, NEW i \in DOMAIN r.stops
      PROVE  r.stops[i].job \in DOMAIN assigned /\ assigned[r.stops[i].job] = d
    <2>1. r.stops[i].job \in Stopped(results[d].routes)
        BY StoppedMeans
    <2>2. r.stops[i].job \in Today(d)
        BY <1>1, <2>1 DEF DayOK
    <2> QED
        BY <2>2 DEF Today
<1>4. Once(Routed)
    <2> SUFFICES ASSUME NEW r \in Routed, NEW q \in Routed,
                        NEW i \in DOMAIN r.stops, NEW k \in DOMAIN q.stops,
                        r.stops[i].job = q.stops[k].job
                 PROVE  r = q /\ i = k
        BY DEF Once
    <2>1. PICK d \in DOMAIN results : r \in results[d].routes
        BY <1>2
    <2>2. PICK e \in DOMAIN results : q \in results[e].routes
        BY <1>2
    <2>3. d = e
        BY <1>3, <2>1, <2>2
    <2> QED
        BY <1>1, <2>1, <2>2, <2>3 DEF DayOK, RoutesOK, Once
<1>5. Stopped(Routed) \subseteq DOMAIN assigned
    <2> SUFFICES ASSUME NEW j \in Stopped(Routed) PROVE j \in DOMAIN assigned
        OBVIOUS
    <2>1. PICK r \in Routed : \E i \in DOMAIN r.stops : r.stops[i].job = j
        BY StoppedMeans
    <2> QED
        BY <1>2, <1>3, <2>1
<1> QED
    BY <1>1, <1>2, <1>4, <1>5 DEF RoutesOK, DayOK

LEMMA FinishKeeps == ASSUME PlanningInv, Finish PROVE PlanningInv'
<1>1. /\ phase = "route" /\ phase' = "planned"
      /\ UNCHANGED <<world, head, left, carried, assigned, unplaced, results>>
    BY DEF Finish
<1>2. HeadOK' /\ CarveOK' /\ Schedulable' = Schedulable
    BY <1>1, CarveStays DEF Phases
<1>3. /\ RoutesOK(Routed) /\ Stopped(Routed) \subseteq DOMAIN assigned
      /\ \A r \in Routed : RouteTyped(r)
    BY <1>1, DaysTogether
<1>4. DOMAIN assigned \subseteq Schedulable /\ DOMAIN unplaced = Schedulable \ DOMAIN assigned
    BY <1>1 DEF PlanningInv, RoundOK
<1>5. plan'.routes = carried \cup Routed /\ plan'.unserved = Unserved
    BY DEF Finish
<1>6. DOMAIN Unserved = Schedulable \ Stopped(Routed)
    <2>1. DOMAIN Unserved = (Schedulable \ Stopped(Routed)) \cup DOMAIN unplaced
        BY DEF Unserved
    <2> QED
        BY <1>3, <1>4, <2>1
<1>7. PICK routes : routes = Routed
    OBVIOUS
<1>8. PlannedWith(routes)'
    BY <1>1, <1>2, <1>3, <1>4, <1>5, <1>6, <1>7 DEF PlannedWith
<1>9. PlanOK'
    BY <1>8 DEF PlanOK
<1> QED
    BY <1>1, <1>2, <1>9 DEF PlanningInv, RoundOK

\* What a departure makes of a world.
DepartsTo(w, next, j, trouble) ==
    /\ DOMAIN next = DOMAIN w /\ next.delays = w.delays /\ next.fitters = w.fitters
    /\ next.vans = [v \in DOMAIN w.vans |-> [w.vans[v] EXCEPT !.outages = @ \cup trouble]]
    /\ next.jobs = [w.jobs EXCEPT ![j].state = "dispatched"]

\* The world after a departure is still one.
LEMMA DepartedWorld ==
    ASSUME NEW w, NEW days, IsWorld(w, days), NEW j \in DOMAIN w.jobs,
           NEW trouble \in SUBSET [from : Int, until : Int],
           NEW next, DepartsTo(w, next, j, trouble)
    PROVE  /\ IsWorld(next, days) /\ DOMAIN next.jobs = DOMAIN w.jobs
           /\ \A k \in DOMAIN w.jobs \ {j} : next.jobs[k] = w.jobs[k]
<1> DEFINE R == [from : Int, until : Int]
<1>0. /\ DOMAIN next = DOMAIN w /\ next.delays = w.delays /\ next.fitters = w.fitters
      /\ next.vans = [v \in DOMAIN w.vans |-> [w.vans[v] EXCEPT !.outages = @ \cup trouble]]
      /\ next.jobs = [w.jobs EXCEPT ![j].state = "dispatched"]
    BY DEF DepartsTo
<1>1. DOMAIN next.jobs = DOMAIN w.jobs /\ DOMAIN next.vans = DOMAIN w.vans
    BY <1>0
<1>2. /\ \A k \in DOMAIN w.jobs \ {j} : next.jobs[k] = w.jobs[k]
      /\ next.jobs[j] = [w.jobs[j] EXCEPT !.state = "dispatched"]
    BY <1>0
<1>3. IsJob(next.jobs[j])
    <2>1. PICK job : job = w.jobs[j]
        OBVIOUS
    <2>2. PICK after : after = next.jobs[j]
        OBVIOUS
    <2>3. IsJob(job)
        BY <2>1 DEF IsWorld
    <2>4. after = [job EXCEPT !.state = "dispatched"]
        BY <1>2, <2>1, <2>2
    <2>5. /\ DOMAIN after = DOMAIN job /\ after.dur = job.dur /\ after.crew = job.crew
          /\ after.ready = job.ready /\ after.requested = job.requested
          /\ after.windows = job.windows /\ after.load = job.load
        BY <2>3, <2>4 DEF IsJob
    <2> QED
        BY <2>2, <2>3, <2>5 DEF IsJob
<1>4. \A k \in DOMAIN next.jobs : IsJob(next.jobs[k])
    BY <1>0, <1>1, <1>2, <1>3 DEF IsWorld
<1>5. ASSUME NEW v \in DOMAIN w.vans PROVE IsVan(next.vans[v])
    <2>1. PICK g : g = w.vans[v]
        OBVIOUS
    <2>2. PICK h : h = next.vans[v]
        OBVIOUS
    <2>3. IsVan(g)
        BY <2>1 DEF IsWorld
    <2>4. h = [g EXCEPT !.outages = g.outages \cup trouble]
        BY <1>0, <2>1, <2>2
    <2>5. DOMAIN h = DOMAIN g /\ h.outages = g.outages \cup trouble /\ h.room = g.room
        BY <2>3, <2>4 DEF IsVan
    <2>6. h.outages \in SUBSET R
        <3>1. g.outages \in SUBSET R /\ trouble \in SUBSET R
            BY <2>3 DEF IsVan
        <3> HIDE DEF R
        <3> QED
            BY <2>5, <3>1
    <2> QED
        BY <2>2, <2>3, <2>5, <2>6 DEF IsVan
<1> QED
    BY <1>0, <1>1, <1>2, <1>4, <1>5 DEF IsWorld

LEMMA DepartKeeps ==
    ASSUME PlanningInv, NEW j \in DOMAIN world.jobs, NEW trouble \in Troubles, Depart(j, trouble)
    PROVE  PlanningInv'
<1>1. /\ phase = "planned" /\ phase' = "start" /\ head' = plan.routes
      /\ j \in Stopped(plan.routes)
    BY DEF Depart, Stopped
<1>2. PICK routes : PlannedWith(routes)
    BY <1>1 DEF PlanningInv, PlanOK
<1>3. /\ RoutesOK(plan.routes) /\ Stopped(plan.routes) = Gone \cup Stopped(routes) /\ Dispatched \subseteq Gone
      /\ \A r \in plan.routes : RouteTyped(r)
    BY <1>1, <1>2, PlannedTogether
<1>4. IsWorld(world, 1..Days)
    BY DEF PlanningInv, HeadOK
<1>5. /\ IsWorld(world', 1..Days) /\ DOMAIN world'.jobs = DOMAIN world.jobs
      /\ \A k \in DOMAIN world.jobs \ {j} : world'.jobs[k] = world.jobs[k]
    <2>1. PICK vans : vans = [v \in DOMAIN world.vans |-> [world.vans[v] EXCEPT !.outages = @ \cup trouble]]
        OBVIOUS
    <2>2. PICK w : w = world
        OBVIOUS
    <2>3. PICK next : next = world'
        OBVIOUS
    <2>4. next = [w EXCEPT !.jobs[j].state = "dispatched", !.vans = vans]
        BY <2>1, <2>2, <2>3 DEF Depart
    <2>5. /\ DOMAIN next = DOMAIN w /\ next.vans = vans /\ next.delays = w.delays /\ next.fitters = w.fitters
          /\ next.jobs = [w.jobs EXCEPT ![j].state = "dispatched"]
        BY <1>4, <2>2, <2>4 DEF IsWorld
    <2>6. vans = [v \in DOMAIN w.vans |-> [w.vans[v] EXCEPT !.outages = @ \cup trouble]]
        BY <2>1, <2>2
    <2>7. IsWorld(w, 1..Days) /\ j \in DOMAIN w.jobs /\ trouble \in SUBSET [from : Int, until : Int]
        BY <1>4, <2>2, PlanningConstants
    <2>9. DepartsTo(w, next, j, trouble)
        BY <2>5, <2>6 DEF DepartsTo
    <2>8. /\ IsWorld(next, 1..Days) /\ DOMAIN next.jobs = DOMAIN w.jobs
          /\ \A k \in DOMAIN w.jobs \ {j} : next.jobs[k] = w.jobs[k]
        BY <2>7, <2>9, DepartedWorld
    <2> QED
        BY <2>2, <2>3, <2>8
<1>6. Dispatched' \subseteq Dispatched \cup {j}
    BY <1>5 DEF Dispatched
<1>7. Dispatched' \subseteq Stopped(plan.routes)
    BY <1>1, <1>3, <1>6
<1>8. Stopped(head)' = Stopped(plan.routes) /\ RoutesOK(head)' /\ \A r \in head' : RouteTyped(r)
    BY <1>1, <1>3
<1>9. HeadOK'
    BY <1>1, <1>5, <1>7, <1>8 DEF HeadOK, Phases
<1> QED
    BY <1>1, <1>9 DEF PlanningInv, CarveOK, RoundOK, PlanOK

LEMMA StutteringKeeps == ASSUME PlanningInv, UNCHANGED vars PROVE PlanningInv'
<1>1. UNCHANGED <<world, head, phase, left, carried, assigned, unplaced, results, plan>>
    BY DEF vars
<1>2. phase \in Phases
    BY DEF PlanningInv, HeadOK
<1>3. HeadOK' /\ Started' = Started /\ Gone' = Gone /\ \A r : Kept(r)' = Kept(r)
    BY <1>1, <1>2, HeadStays
<1>4. CarveOK' /\ Schedulable' = Schedulable
    BY <1>1, <1>3 DEF PlanningInv, CarveOK, Schedulable
<1>5. \A d : DayOK(d)' <=> DayOK(d)
    BY <1>1 DEF DayOK, Today
<1>6. RoundOK'
    BY <1>1, <1>4, <1>5 DEF PlanningInv, RoundOK
<1>7. PlanOK'
    <2>1. \A routes : PlannedWith(routes)' <=> PlannedWith(routes)
        BY <1>1, <1>4 DEF PlannedWith
    <2> QED
        BY <1>1, <2>1 DEF PlanningInv, PlanOK
<1> QED
    BY <1>3, <1>4, <1>6, <1>7 DEF PlanningInv

LEMMA PlanningIsKept == ASSUME NobodyOut PROVE Spec => []PlanningInv
<1>1. Init => PlanningInv
    BY PlanningStarts
<1>2. PlanningInv /\ [Next]_vars => PlanningInv'
    <2> SUFFICES ASSUME PlanningInv, [Next]_vars PROVE PlanningInv'
        OBVIOUS
    <2>1. CASE CarveOut
        BY <2>1, CarvingKeeps
    <2>2. CASE AssignDays
        BY <2>2, AssigningKeeps
    <2>3. CASE RouteDay
        BY <2>3, RoutingKeeps
    <2>4. CASE NextRound
        BY <2>4, NextRoundKeeps
    <2>5. CASE Finish
        BY <2>5, FinishKeeps
    <2>6. ASSUME NEW j \in DOMAIN world.jobs, NEW trouble \in Troubles, Depart(j, trouble)
          PROVE  PlanningInv'
        BY <2>6, DepartKeeps
    <2>7. CASE UNCHANGED vars
        BY <2>7, StutteringKeeps
    <2> QED
        BY <2>1, <2>2, <2>3, <2>4, <2>5, <2>6, <2>7 DEF Next
<1> QED
    BY <1>1, <1>2, PTL DEF Spec

-----------------------------------------------------------------------------
(* The rounds only tighten: what stage A gives a day fits what the day was  *)
(* seen to take, and of that the day serves a part.                         *)

\* The person-minutes of a fitter's day, and of a job.
Staffed(w, d) == [f \in DOMAIN w.fitters |-> StageHours(w, f, d)]
Work(w) == [j \in DOMAIN w.jobs |-> w.jobs[j].dur * w.jobs[j].crew]

LEMMA StageHoursTyped ==
    ASSUME NEW w, IsWorld(w, 1..Days), NEW f \in DOMAIN w.fitters, NEW d \in 1..Days
    PROVE  StageHours(w, f, d) \in Nat
<1>1. PICK g : g = w.fitters[f]
    OBVIOUS
<1>2. IsFitter(g, 1..Days)
    BY <1>1 DEF IsWorld
<1>3. PICK shift : shift = g.shift[d]
    OBVIOUS
<1>4. CASE shift = <<>>
    BY <1>1, <1>3, <1>4 DEF StageHours
<1>5. CASE shift # <<>>
    <2>1. PICK a \in 0..Minutes, b \in 0..Minutes : shift = <<a, b>> /\ a < b
        <3>1. shift \in {s \in (0..Minutes) \X (0..Minutes) : s[1] < s[2]}
            BY <1>2, <1>3, <1>5 DEF IsFitter
        <3> QED
            BY <3>1
    <2>2. PICK e : e = ReachEnd(w, f, d, b)
        OBVIOUS
    <2>3. e \in Nat /\ a \in Nat /\ a < e
        <3>1. g.kept[d] \in Int /\ b \in Int /\ a \in Nat
            BY <1>2, HoursConstants DEF IsFitter
        <3>2. e \in Int /\ b <= e
            BY <1>1, <2>2, <3>1, LaterMeans DEF ReachEnd
        <3> QED
            BY <2>1, <3>1, <3>2
    <2>4. PICK outages : outages = OnDay(g.outages, d)
        OBVIOUS
    <2>5. \A o \in outages : o.from \in Int /\ o.until \in Int
        BY <1>2, <2>4, OnDayTyped DEF IsFitter
    <2>6. PICK free : free = LargestFree(outages, <<a, e>>)
        OBVIOUS
    <2>7. /\ free \in {<<>>} \cup Stretches(a, e)
          /\ free # <<>> => free[1] < free[2]
        BY <2>3, <2>5, <2>6, LargestFreeMeans
    <2>8. Length(free) \in Nat
        <3>1. CASE free = <<>>
            BY <2>3, <3>1, LengthMeans
        <3>2. CASE free # <<>>
            <4>1. free[1] \in Int /\ free[2] \in Int /\ Length(free) = free[2] - free[1]
                BY <2>3, <2>7, <3>2, LengthMeans DEF Stretches
            <4> QED
                BY <2>7, <3>2, <4>1
        <3> QED
            BY <3>1, <3>2
    <2>9. StageHours(w, f, d) = (Length(free) * Utilization) \div 100
        <3>1. shift[1] = a /\ shift[2] = b
            BY <2>1
        <3> QED
            BY <1>1, <1>3, <1>5, <2>2, <2>4, <2>6, <3>1 DEF StageHours
    <2>10. PICK u \in Nat : u = Length(free) * Utilization
        BY <2>8, PlanningConstants
    <2> QED
        BY <2>9, <2>10
<1> QED
    BY <1>4, <1>5

\* A sum over a set by an operator is the sum by the function it tabulates.
LEMMA StaffedMeans ==
    ASSUME NEW w, IsWorld(w, 1..Days), NEW d \in 1..Days, NEW S \in SUBSET DOMAIN w.fitters
    PROVE  Staff(w, d, S) \in Nat
<1> DEFINE h == Staffed(w, d)
           Folds(iter) == iter = [s \in SUBSET S |->
               IF s = {} THEN 0
               ELSE StageHours(w, CHOOSE x \in s : TRUE, d) + iter[s \ {CHOOSE x \in s : TRUE}]]
           fold == CHOOSE iter : Folds(iter)
<1>1. Staff(w, d, S) = fold[S]
    BY DEF Staff, MapThenSumSet, MapThenFoldSet
<1>2. IsFiniteSet(S) /\ S \subseteq DOMAIN w.fitters
    BY FS_Subset DEF IsWorld
<1>3. Counts(h, S)
    BY <1>2, StageHoursTyped DEF Counts, Staffed
<1>4. ASSUME NEW s \in SUBSET S, s # {}
      PROVE  h[First(s)] = StageHours(w, CHOOSE x \in s : TRUE, d) /\ First(s) = (CHOOSE x \in s : TRUE)
    <2>1. First(s) \in DOMAIN w.fitters
        BY <1>2, <1>4, FirstOut
    <2>2. First(s) = (CHOOSE x \in s : TRUE)
        BY DEF First
    <2>3. h[First(s)] = StageHours(w, First(s), d)
        BY <2>1 DEF Staffed
    <2> QED
        BY <2>2, <2>3
<1> HIDE DEF h
<1>5. PICK iter : Sums(iter, h, S)
    BY <1>2, <1>3, SumsExist
<1>6. ASSUME NEW it, Sums(it, h, S) PROVE Folds(it)
    BY <1>4, <1>6 DEF Sums
<1>7. ASSUME NEW it, Folds(it) PROVE Sums(it, h, S)
    BY <1>4, <1>7 DEF Sums
<1>8. Folds(fold)
    <2> HIDE DEF Folds
    <2> QED
        BY <1>5, <1>6
<1> HIDE DEF Folds, fold
<1>9. fold[S] = SumOver(h, S)
    BY <1>2, <1>3, <1>7, <1>8, SumIs
<1> QED
    BY <1>1, <1>2, <1>3, <1>9, SumTyped

LEMMA DemandMeans ==
    ASSUME NEW w, IsWorld(w, 1..Days), NEW js \in SUBSET DOMAIN w.jobs
    PROVE  Demand(w, js) = SumOver(Work(w), js) /\ IsFiniteSet(js) /\ Counts(Work(w), js)
<1> DEFINE Folds(iter) == iter = [s \in SUBSET js |->
               IF s = {} THEN 0
               ELSE w.jobs[CHOOSE x \in s : TRUE].dur * w.jobs[CHOOSE x \in s : TRUE].crew
                    + iter[s \ {CHOOSE x \in s : TRUE}]]
           fold == CHOOSE iter : Folds(iter)
<1>1. Demand(w, js) = fold[js]
    BY DEF Demand, MapThenSumSet, MapThenFoldSet
<1>2. IsFiniteSet(js)
    BY FS_Subset DEF IsWorld
<1>3. Counts(Work(w), js)
    <2> SUFFICES ASSUME NEW j \in js PROVE Work(w)[j] \in Nat
        BY DEF Counts
    <2>1. IsJob(w.jobs[j])
        BY DEF IsWorld
    <2>2. PICK a \in Nat, b \in Nat : a = w.jobs[j].dur /\ b = w.jobs[j].crew
        BY <2>1 DEF IsJob
    <2>3. a * b \in Nat
        OBVIOUS
    <2> QED
        BY <2>2, <2>3 DEF Work
<1>4. ASSUME NEW s \in SUBSET js, s # {}
      PROVE  /\ First(s) = (CHOOSE x \in s : TRUE)
             /\ Work(w)[First(s)] = w.jobs[CHOOSE x \in s : TRUE].dur * w.jobs[CHOOSE x \in s : TRUE].crew
    <2>1. First(s) \in DOMAIN w.jobs
        BY <1>2, <1>4, FirstOut
    <2>2. First(s) = (CHOOSE x \in s : TRUE)
        BY DEF First
    <2>3. Work(w)[First(s)] = w.jobs[First(s)].dur * w.jobs[First(s)].crew
        BY <2>1 DEF Work
    <2> QED
        BY <2>2, <2>3
<1>5. PICK iter : Sums(iter, Work(w), js)
    BY <1>2, <1>3, SumsExist
<1>6. ASSUME NEW it, Sums(it, Work(w), js) PROVE Folds(it)
    BY <1>4, <1>6 DEF Sums
<1>7. ASSUME NEW it, Folds(it) PROVE Sums(it, Work(w), js)
    <2>1. ASSUME NEW s \in SUBSET js
          PROVE  it[s] = IF s = {} THEN 0 ELSE Work(w)[First(s)] + it[s \ {First(s)}]
        <3>1. it[s] = IF s = {} THEN 0
                      ELSE w.jobs[CHOOSE x \in s : TRUE].dur * w.jobs[CHOOSE x \in s : TRUE].crew
                           + it[s \ {CHOOSE x \in s : TRUE}]
            BY <1>7
        <3>2. CASE s = {}
            BY <3>1, <3>2
        <3>3. CASE s # {}
            BY <1>4, <3>1, <3>3
        <3> QED
            BY <3>2, <3>3
    <2>2. it = [s \in SUBSET js |-> it[s]]
        BY <1>7
    <2> QED
        BY <2>1, <2>2 DEF Sums
<1>8. Folds(fold)
    <2> HIDE DEF Folds
    <2> QED
        BY <1>5, <1>6
<1> HIDE DEF Folds, fold
<1>9. fold[js] = SumOver(Work(w), js)
    BY <1>2, <1>3, <1>7, <1>8, SumIs
<1> QED
    BY <1>1, <1>2, <1>3, <1>9

\* What a day is given fits the day as it was last seen.
TightOK ==
    /\ \A d \in DOMAIN capacity : capacity[d] \in Nat
    /\ phase = "route" => \A d \in ToRoute : Demand(left, Today(d)) <= DayCapacity(d, {})

LEMMA CapacityTyped ==
    ASSUME IsWorld(left, 1..Days), NEW d \in 1..Days, NEW c, d \in DOMAIN capacity => capacity[d] \in Nat
    PROVE  /\ DayCapacity(d, c) \in Nat
           /\ d \in DOMAIN capacity => DayCapacity(d, c) <= capacity[d]
<1>1. PICK m : m = Staff(left, d, {f \in DOMAIN left.fitters : c \subseteq left.fitters[f].certs})
    OBVIOUS
<1>2. m \in Nat
    BY <1>1, StaffedMeans
<1>3. DayCapacity(d, c) = IF d \in DOMAIN capacity THEN Earlier(m, capacity[d]) ELSE m
    BY <1>1 DEF DayCapacity
<1> QED
    BY <1>2, <1>3 DEF Earlier

\* A day tightens to no more than it took before, and the others stand.
DayTightens ==
    /\ phase = "route" /\ phase' = "route" /\ ToRoute # {}
    /\ left' = left /\ assigned' = assigned /\ DOMAIN results' = DOMAIN results \cup {Min(ToRoute)}
    /\ \/ capacity' = capacity
       \/ \E n \in Nat : /\ capacity' = Put(capacity, Min(ToRoute), n)
                         /\ Min(ToRoute) \in DOMAIN capacity => n <= capacity[Min(ToRoute)]

LEMMA RoutingTightens ==
    ASSUME PlanningInv, TightOK, RouteDay
    PROVE  DayTightens
<1>1. PICK d : d = Min(ToRoute)
    OBVIOUS
<1>2. phase = "route" /\ d \in ToRoute /\ d \in 1..Days /\ d \in Int /\ IsWorld(left, 1..Days)
    BY <1>1, DayToRoute DEF RouteDay, PlanningInv, CarveOK
<1>3. PICK result \in PlanDay(left, d, Today(d), {}, late) :
          /\ results' = Put(results, d, result)
          /\ capacity' = IF Today(d) \subseteq Stopped(result.routes) THEN capacity
                         ELSE Put(capacity, d, Demand(left, Stopped(result.routes)))
    BY <1>1 DEF RouteDay
<1>4. DOMAIN results' = DOMAIN results \cup {d}
    BY <1>3 DEF Put
<1>5. PICK served : served = Stopped(result.routes)
    OBVIOUS
<1>6. served \subseteq Today(d)
    <2>1. IsFiniteSet(DOMAIN left.vans) /\ IsFiniteSet(DOMAIN left.jobs)
        BY <1>2 DEF IsWorld
    <2> QED
        BY <1>3, <1>5, <2>1, PlanDayMeans
<1>7. Today(d) \in SUBSET DOMAIN left.jobs
    BY <1>2 DEF Today, PlanningInv, RoundOK, Schedulable
<1>8. Demand(left, served) \in Nat /\ Demand(left, served) <= Demand(left, Today(d)) /\ Demand(left, Today(d)) \in Nat
    <2>1. PICK js : js = Today(d)
        OBVIOUS
    <2>2. /\ Demand(left, js) = SumOver(Work(left), js) /\ Demand(left, served) = SumOver(Work(left), served)
          /\ IsFiniteSet(js) /\ IsFiniteSet(served) /\ Counts(Work(left), js) /\ Counts(Work(left), served)
        BY <1>2, <1>6, <1>7, <2>1, DemandMeans
    <2>3. SumOver(Work(left), served) <= SumOver(Work(left), js)
        BY <1>6, <2>1, <2>2, SumMonotone
    <2>4. SumOver(Work(left), served) \in Nat /\ SumOver(Work(left), js) \in Nat
        BY <2>2, SumTyped
    <2> QED
        BY <2>1, <2>2, <2>3, <2>4
<1>9. d \in DOMAIN capacity => Demand(left, served) <= capacity[d]
    <2> SUFFICES ASSUME d \in DOMAIN capacity PROVE Demand(left, served) <= capacity[d]
        OBVIOUS
    <2>1. capacity[d] \in Nat /\ Demand(left, Today(d)) <= DayCapacity(d, {})
        BY <1>2 DEF TightOK
    <2>2. DayCapacity(d, {}) \in Nat /\ DayCapacity(d, {}) <= capacity[d]
        BY <1>2, <2>1, CapacityTyped
    <2>3. PICK x \in Nat, y \in Nat, z \in Nat : x = Demand(left, served) /\ y = Demand(left, Today(d)) /\ z = DayCapacity(d, {})
        BY <1>8, <2>2
    <2> QED
        BY <1>8, <2>1, <2>2, <2>3
<1>10. capacity' = capacity \/ capacity' = Put(capacity, d, Demand(left, served))
    BY <1>3, <1>5
<1>11. phase' = "route" /\ left' = left /\ assigned' = assigned
    BY <1>2 DEF RouteDay
<1>12. PICK n \in Nat : n = Demand(left, served)
    BY <1>8
<1> QED
    BY <1>1, <1>2, <1>4, <1>9, <1>10, <1>11, <1>12 DEF DayTightens

LEMMA TightKept ==
    ASSUME PlanningInv, TightOK, [Next]_vars
    PROVE  TightOK'
<1>1. CASE CarveOut \/ \E j \in DOMAIN world.jobs, trouble \in Troubles : Depart(j, trouble)
    <2>1. capacity' = <<>> /\ phase' # "route"
        BY <1>1 DEF CarveOut, Depart
    <2> QED
        BY <2>1 DEF TightOK
<1>2. CASE AssignDays
    <2>1. /\ capacity' = capacity /\ left' = left /\ assigned' \in Assignments
          /\ phase' = "route"
        BY <1>2 DEF AssignDays
    <2>2. PICK a : a = assigned'
        OBVIOUS
    <2>3. \A d \in 1..Days : Demand(left, {j \in DOMAIN a : a[j] = d}) <= DayCapacity(d, {})
        BY <2>1, <2>2 DEF Assignments, FitsDay
    <2>4. ASSUME NEW d PROVE Today(d)' = {j \in DOMAIN a : a[j] = d}
        BY <2>2 DEF Today
    <2>5. ASSUME NEW d, NEW js PROVE Demand(left, js)' = Demand(left, js) /\ DayCapacity(d, {})' = DayCapacity(d, {})
        BY <2>1 DEF DayCapacity
    <2>6. ASSUME NEW d \in ToRoute' PROVE (Demand(left, Today(d)) <= DayCapacity(d, {}))'
        <3>1. d \in 1..Days
            BY DEF ToRoute
        <3>2. PICK js : js = Today(d)'
            OBVIOUS
        <3>3. Demand(left, js) <= DayCapacity(d, {})
            BY <2>3, <2>4, <3>1, <3>2
        <3>4. Demand(left, js)' <= DayCapacity(d, {})'
            BY <2>5, <3>3
        <3> QED
            BY <3>2, <3>4
    <2> QED
        BY <2>1, <2>6 DEF TightOK
<1>3. CASE RouteDay
    <2>1. DayTightens
        BY <1>3, RoutingTightens
    <2>2. PICK d : d = Min(ToRoute)
        OBVIOUS
    <2>3. \A e \in DOMAIN capacity' : capacity'[e] \in Nat
        BY <2>1 DEF DayTightens, TightOK, Put
    <2>4. \A e : e # d => /\ e \in DOMAIN capacity' <=> e \in DOMAIN capacity
                          /\ e \in DOMAIN capacity => capacity'[e] = capacity[e]
        BY <2>1, <2>2 DEF DayTightens, Put
    <2>5. ASSUME NEW e \in ToRoute' PROVE (Demand(left, Today(e)) <= DayCapacity(e, {}))'
        <3>1. e \in ToRoute /\ e # d /\ Today(e)' = Today(e) /\ left' = left
            BY <2>1, <2>2 DEF DayTightens, ToRoute, Today
        <3>2. Demand(left, Today(e)) <= DayCapacity(e, {})
            BY <2>1, <3>1 DEF DayTightens, TightOK
        <3>3. \A js : Demand(left, js)' = Demand(left, js)
            BY <3>1
        <3>4. DayCapacity(e, {})' = DayCapacity(e, {})
            BY <2>4, <3>1 DEF DayCapacity
        <3>5. PICK js : js = Today(e)
            OBVIOUS
        <3>6. Demand(left, js)' <= DayCapacity(e, {})'
            BY <3>2, <3>3, <3>4, <3>5
        <3> QED
            BY <3>1, <3>5, <3>6
    <2> QED
        BY <2>3, <2>5 DEF TightOK
<1>4. CASE NextRound \/ Finish
    BY <1>4 DEF NextRound, Finish, TightOK
<1>5. CASE UNCHANGED vars
    <2>1. UNCHANGED <<capacity, phase, assigned, results, left>>
        BY <1>5 DEF vars
    <2> QED
        BY <2>1 DEF TightOK, ToRoute, Today, DayCapacity
<1> QED
    BY <1>1, <1>2, <1>3, <1>4, <1>5 DEF Next

-----------------------------------------------------------------------------
(* The theorems.                                                           *)

\* Every job that still wants work is at one stop of the plan or among the
\* unserved, never in both and never in neither (service.py plan_week and
\* repair, scheduler/horizon.py plan_horizon).
THEOREM EveryJobIsAnswered == ASSUME NobodyOut PROVE Spec => []EveryJobIsAnsweredOnce
<1>1. PlanningInv => EveryJobIsAnsweredOnce
    <2> SUFFICES ASSUME PlanningInv, phase = "planned", NEW j \in Jobs, Active(world.jobs[j])
                 PROVE  Cardinality(Uses(plan.routes, j)) + Cardinality({j} \cap DOMAIN plan.unserved) = 1
        BY DEF EveryJobIsAnsweredOnce
    <2>1. PICK routes : PlannedWith(routes)
        BY DEF PlanningInv, PlanOK
    <2>2. /\ RoutesOK(plan.routes) /\ Stopped(plan.routes) = Gone \cup Stopped(routes)
          /\ Dispatched \subseteq Gone /\ Gone \cap Schedulable = {}
        BY <2>1, PlannedTogether
    <2>3. Stopped(routes) \subseteq Schedulable /\ DOMAIN plan.unserved = Schedulable \ Stopped(routes)
        BY <2>1 DEF PlannedWith
    <2>4. j \in Gone \/ j \in Schedulable
        <3>1. left.jobs = [k \in DOMAIN world.jobs \ Gone |-> world.jobs[k]]
            BY DEF PlanningInv, CarveOK
        <3> QED
            BY <2>2, <3>1 DEF Schedulable, Jobs, Dispatched
    <2>5. Cardinality(Uses(plan.routes, j)) = IF j \in Stopped(plan.routes) THEN 1 ELSE 0
        BY <2>2, UsedOnce
    <2>6. CASE j \in Stopped(plan.routes)
        <3>1. {j} \cap DOMAIN plan.unserved = {}
            BY <2>2, <2>3, <2>6
        <3> QED
            BY <2>5, <2>6, <3>1, FS_EmptySet
    <2>7. CASE j \notin Stopped(plan.routes)
        <3>1. {j} \cap DOMAIN plan.unserved = {j}
            BY <2>2, <2>3, <2>4, <2>7
        <3>2. Cardinality({j}) = 1
            BY FS_Singleton
        <3>3. Cardinality({j} \cap DOMAIN plan.unserved) = 1
            BY <3>1, <3>2
        <3>4. Cardinality(Uses(plan.routes, j)) = 0
            BY <2>5, <2>7
        <3> QED
            BY <3>3, <3>4
    <2> QED
        BY <2>6, <2>7
<1> QED
    BY <1>1, PlanningIsKept, PTL

\* A plan has every stop of work under way where the head has it, its crew and
\* its minute (scheduler/repair.py carve_out_locked, the check of
\* validate_against_baseline).
THEOREM CarriedWorkStays == ASSUME NobodyOut PROVE Spec => []CarriedWorkStands
<1>1. PlanningInv => CarriedWorkStands
    <2> SUFFICES ASSUME PlanningInv, phase = "planned",
                        NEW j \in LockedJobsMoved(plan.routes, head, world)
                 PROVE  FALSE
        BY DEF CarriedWorkStands
    <2>1. PICK routes : PlannedWith(routes)
        BY DEF PlanningInv, PlanOK
    <2>2. RoutesOK(plan.routes) /\ carried = {Kept(r) : r \in Started} /\ carried \subseteq plan.routes
        BY <2>1, PlannedTogether DEF PlannedWith
    <2>3. /\ j \in UnderWay
          /\ \E old \in StopFor(head, j) :
               \/ StopFor(plan.routes, j) = {}
               \/ \E new \in StopFor(plan.routes, j) :
                     new[2].arrive # old[2].arrive \/ new[1].crew # old[1].crew
        BY DEF LockedJobsMoved, UnderWay
    <2>4. PICK old \in StopFor(head, j) :
               \/ StopFor(plan.routes, j) = {}
               \/ \E new \in StopFor(plan.routes, j) :
                     new[2].arrive # old[2].arrive \/ new[1].crew # old[1].crew
        BY <2>3
    <2>5. \A rs, x : x \in StopFor(rs, j) <=>
             \E r \in rs : \E i \in DOMAIN r.stops : r.stops[i].job = j /\ x = <<r, r.stops[i]>>
        <3> TAKE rs, x
        <3>1. \A u : u \in Uses(rs, j) <=> \E r \in rs : \E i \in DOMAIN r.stops :
                                            r.stops[i].job = j /\ u = <<r, i>>
            BY DEF Uses
        <3>2. x \in StopFor(rs, j) <=> \E u \in Uses(rs, j) : x = <<u[1], u[1].stops[u[2]]>>
            BY DEF StopFor
        <3>3. ASSUME NEW u \in Uses(rs, j), x = <<u[1], u[1].stops[u[2]]>>
              PROVE  \E r \in rs : \E i \in DOMAIN r.stops : r.stops[i].job = j /\ x = <<r, r.stops[i]>>
            BY <3>1, <3>3
        <3>4. ASSUME NEW r \in rs, NEW i \in DOMAIN r.stops, r.stops[i].job = j, x = <<r, r.stops[i]>>
              PROVE  x \in StopFor(rs, j)
            <4>1. PICK u \in Uses(rs, j) : u = <<r, i>>
                BY <3>1, <3>4
            <4>2. u[1] = r /\ u[2] = i
                BY <4>1
            <4> QED
                BY <3>2, <3>4, <4>2
        <3> QED
            BY <3>2, <3>3, <3>4
    <2>6. PICK r \in head : \E i \in DOMAIN r.stops : r.stops[i].job = j /\ old = <<r, r.stops[i]>>
        BY <2>5
    <2>7. PICK i \in DOMAIN r.stops : r.stops[i].job = j /\ old = <<r, r.stops[i]>>
        BY <2>6
    <2>8. PICK k \in plan.routes : /\ k.crew = r.crew
                                   /\ i \in DOMAIN k.stops /\ k.stops[i] = r.stops[i]
        <3>1. RoutesOK(head)
            BY DEF PlanningInv, HeadOK
        <3> QED
            BY <2>2, <2>3, <2>7, <3>1, CarriedMeans
    <2>9. <<k, k.stops[i]>> \in StopFor(plan.routes, j)
        BY <2>5, <2>7, <2>8
    <2>10. \A new \in StopFor(plan.routes, j) : new = <<k, k.stops[i]>>
        <3> SUFFICES ASSUME NEW new \in StopFor(plan.routes, j) PROVE new = <<k, k.stops[i]>>
            OBVIOUS
        <3>1. PICK q \in plan.routes : \E m \in DOMAIN q.stops : q.stops[m].job = j /\ new = <<q, q.stops[m]>>
            BY <2>5
        <3>2. PICK m \in DOMAIN q.stops : q.stops[m].job = j /\ new = <<q, q.stops[m]>>
            BY <3>1
        <3>3. q = k /\ m = i
            BY <2>2, <2>7, <2>8, <3>2 DEF RoutesOK, Once
        <3> QED
            BY <3>2, <3>3
    <2> QED
        BY <2>4, <2>7, <2>8, <2>9, <2>10
<1> QED
    BY <1>1, PlanningIsKept, PTL

\* A round gives a day no more than an earlier round saw it absorb
\* (scheduler/horizon.py plan_horizon, capacity_overrides).
THEOREM CapacityTightens == ASSUME NobodyOut PROVE Spec => CapacityOnlyTightens
<1>1. Init => TightOK
    BY DEF Init, TightOK
<1>2. PlanningInv /\ TightOK /\ [Next]_vars => TightOK'
    BY TightKept
<1>3. PlanningInv /\ TightOK /\ [Next]_vars =>
        [\A d \in DOMAIN capacity \cap DOMAIN capacity' : capacity'[d] <= capacity[d]]_vars
    <2> SUFFICES ASSUME PlanningInv, TightOK, [Next]_vars,
                        NEW d \in DOMAIN capacity \cap DOMAIN capacity'
                 PROVE  capacity'[d] <= capacity[d] \/ UNCHANGED vars
        OBVIOUS
    <2>1. capacity[d] \in Nat
        BY DEF TightOK
    <2>2. CASE RouteDay
        <3>1. DayTightens
            BY <2>2, RoutingTightens
        <3> QED
            BY <2>1, <3>1 DEF DayTightens, Put
    <2>3. CASE capacity' = capacity
        BY <2>1, <2>3
    <2>4. CASE CarveOut \/ \E j \in DOMAIN world.jobs, trouble \in Troubles : Depart(j, trouble)
        <3>1. capacity' = <<>>
            BY <2>4 DEF CarveOut, Depart
        <3> QED
            BY <3>1
    <2>5. RouteDay \/ capacity' = capacity \/ UNCHANGED vars
          \/ CarveOut \/ \E j \in DOMAIN world.jobs, trouble \in Troubles : Depart(j, trouble)
        BY DEF Next, AssignDays, NextRound, Finish
    <2> QED
        BY <2>2, <2>3, <2>4, <2>5
<1> QED
    BY <1>1, <1>2, <1>3, PlanningIsKept, PTL DEF Spec, CapacityOnlyTightens

-----------------------------------------------------------------------------
(* A reason given is a reason.                                             *)

\* With one skill at most, somebody in the crew has it.
LEMMA SomebodyCertified ==
    ASSUME NEW w, NEW d, NEW v, NEW j, NEW late0, NEW crew, AloneOn(w, d, v, j, late0, crew),
           \A a, b \in w.jobs[j].certs : a = b
    PROVE  \E f \in crew : f \in Certified(w, d, w.jobs[j])
<1>1. crew \in SUBSET FittersOn(w, d) /\ crew # {}
    <2>1. Cardinality({}) = 0
        BY FS_EmptySet
    <2>2. crew \in SUBSET FittersOn(w, d) /\ Cardinality(crew) \in 1..2
        BY DEF AloneOn
    <2> QED
        BY <2>1, <2>2
<1>2. w.jobs[j].certs \subseteq Skills(w, crew)
    BY DEF AloneOn, CanServe
<1>3. PICK f \in crew : w.jobs[j].certs \subseteq w.fitters[f].certs
    <2>1. CASE w.jobs[j].certs = {}
        BY <1>1, <2>1
    <2>2. CASE w.jobs[j].certs # {}
        <3>1. PICK c \in w.jobs[j].certs : TRUE
            BY <2>2
        <3>2. PICK f \in crew : c \in w.fitters[f].certs
            BY <1>2, <3>1 DEF Skills
        <3> QED
            BY <3>1, <3>2
    <2> QED
        BY <2>1, <2>2
<1> QED
    BY <1>1, <1>3 DEF Certified

\* One window at most is one window.
LEMMA OneWindow ==
    ASSUME NEW job, IsJob(job), Len(job.windows) < 2, NEW a \in ToSet(job.windows), NEW b \in ToSet(job.windows)
    PROVE  a = b
<1>1. PICK n \in Nat : n = Len(job.windows) /\ DOMAIN job.windows = 1..n
    BY DEF IsJob
<1>2. n < 2
    BY <1>1
<1>3. \A i, k \in 1..n : i = k
    BY <1>2
<1>4. PICK i \in 1..n : a = job.windows[i]
    BY <1>1 DEF ToSet
<1>5. PICK k \in 1..n : b = job.windows[k]
    BY <1>1 DEF ToSet
<1> QED
    BY <1>3, <1>4, <1>5

LEMMA WindowIsOutOfReach ==
    ASSUME IsWorld(left, 1..Days), NEW d \in 1..Days, NEW v \in VansOn(left, d), NEW j \in DOMAIN left.jobs,
           PlainJob(j, d), HardWindowOutOfReach(left, d, left.jobs[j]),
           NEW crew, AloneOn(left, d, v, j, late, crew)
    PROVE  FALSE
<1>1. PICK job : job = left.jobs[j]
    OBVIOUS
<1>2. IsJob(job) /\ job.dur \in Nat \ {0} /\ d \in Int
    BY <1>1, PlanningConstants DEF IsWorld, IsJob
<1>3. PICK win \in ToSet(job.windows) :
        /\ win.hard
        /\ \/ win.until - win.from < job.dur
           \/ \A f \in Certified(left, d, job) :
                ~(left.fitters[f].shift[d][1] <= Clock(d, win.until)
                  /\ Clock(d, win.from) <= left.fitters[f].shift[d][2])
    BY <1>1 DEF HardWindowOutOfReach
<1>4. PICK hours : hours = CrewHours(left, d, v, crew, late)
    OBVIOUS
<1>5. PICK s \in 0..Minutes : hours[1] <= s /\ s + job.dur <= hours[2] /\ WindowAllows(job, d, s)
    <2>1. ~Confirmed(job) /\ job.windows # <<>>
        BY <1>1, <1>3 DEF PlainJob, ToSet
    <2> QED
        BY <1>1, <1>4, <2>1 DEF AloneOn
<1>6. PICK a, b \in Int : a = Clock(d, win.from) /\ b = Clock(d, win.until) /\ b - a = win.until - win.from
    <2>1. win.from \in Int /\ win.until \in Int /\ Clock(d, win.from) \in Int /\ Clock(d, win.until) \in Int
        BY <1>2, <1>3, WindowTyped
    <2>2. PICK m \in Int : m = (d - 1) * Minutes
        BY <1>2, HoursConstants
    <2> QED
        BY <2>1, <2>2 DEF Clock
<1>7. a <= s /\ s + job.dur <= b
    <2>1. PICK other \in ToSet(job.windows) :
            Later(Clock(d, other.from), 0) <= s /\ (Binding(job, other) => s + job.dur <= Clock(d, other.until))
        BY <1>5 DEF WindowAllows
    <2>2. other = win
        BY <1>1, <1>2, <1>3, OneWindow DEF PlainJob
    <2>3. Later(a, 0) <= s /\ s + job.dur <= b
        BY <1>3, <1>6, <2>1, <2>2 DEF Binding
    <2>4. s \in Int /\ 0 \in Int
        BY HoursConstants
    <2>5. a <= Later(a, 0) /\ Later(a, 0) \in Int
        BY <1>6, <2>4, LaterMeans
    <2> QED
        BY <1>6, <2>3, <2>4, <2>5
<1>8. s \in Nat
    BY HoursConstants
<1>9. ~(win.until - win.from < job.dur)
    BY <1>2, <1>6, <1>7, <1>8
<1>10. PICK f \in crew : f \in Certified(left, d, job)
    BY <1>1, SomebodyCertified DEF PlainJob
<1>11. f \in FittersOn(left, d) /\ crew \in SUBSET FittersOn(left, d)
    BY DEF AloneOn
<1>12. PICK x, y : WorksOn(left, d, f, x, y)
    BY <1>2, <1>11, FittersWork
<1>13. /\ x \in Nat /\ y \in Nat /\ left.fitters[f].shift[d][1] = x /\ left.fitters[f].shift[d][2] = y
       /\ FitterHours(left, f, d)[1] \in Nat /\ x <= FitterHours(left, f, d)[1]
    BY <1>12 DEF WorksOn, FreeHours
<1>14. /\ hours[1] \in Int /\ hours[2] \in Int
       /\ FitterHours(left, f, d)[1] <= hours[1] /\ hours[2] <= KeptUntil(left, f, d, late)
    BY <1>2, <1>4, <1>10, <1>11, CrewHoursMean DEF HoursBound
<1>15. PICK kept \in Int : kept = KeptUntil(left, f, d, late)
    BY <1>12, KeptMeansLater
<1>16. ~(x <= b /\ a <= y)
    BY <1>3, <1>6, <1>9, <1>10, <1>13
<1>17. a <= y \/ kept <= a
    BY <1>1, <1>3, <1>6, <1>10, <1>13, <1>15 DEF PlainJob
<1>18. PICK begin \in Nat, from, to \in Int : begin = FitterHours(left, f, d)[1] /\ from = hours[1] /\ to = hours[2]
    BY <1>13, <1>14
<1>19. PICK dur \in Nat \ {0} : dur = job.dur
    BY <1>2
<1>20. /\ from <= s /\ s + dur <= to /\ a <= s /\ s + dur <= b
       /\ x <= begin /\ begin <= from /\ to <= kept
    BY <1>5, <1>7, <1>13, <1>14, <1>15, <1>18, <1>19
<1>21. x \in Nat
    BY <1>13
<1>22. x <= b
    BY <1>8, <1>20, <1>21
<1>23. ~(kept <= a)
    BY <1>8, <1>20
<1> QED
    BY <1>16, <1>17, <1>22, <1>23

LEMMA ExplainedIsImpossible ==
    ASSUME IsWorld(left, 1..Days), NEW d \in 1..Days, NEW v \in VansOn(left, d), NEW j \in DOMAIN left.jobs,
           PlainJob(j, d), NEW why, Explained(left, d, j, why),
           why \in {"no_certified_worker", "crew_size_unavailable",
                    "hard_window_unreachable", "van_capacity_exceeded"}
    PROVE  Runs(left, d, v, {j}, late) = {}
<1> SUFFICES ASSUME NEW r \in Runs(left, d, v, {j}, late) PROVE FALSE
    OBVIOUS
<1>1. d \in Int
    BY PlanningConstants
<1>2. PICK crew : AloneOn(left, d, v, j, late, crew)
    BY <1>1, RunsAlone
<1>3. PICK job : job = left.jobs[j]
    OBVIOUS
<1>4. PICK f \in crew : f \in Certified(left, d, job)
    BY <1>2, <1>3, SomebodyCertified DEF PlainJob
<1>5. CASE why = "no_certified_worker"
    BY <1>3, <1>4, <1>5 DEF Explained
<1>6. CASE why = "crew_size_unavailable"
    <2>1. IsFiniteSet(Certified(left, d, job)) /\ Certified(left, d, job) # {}
        <3>1. Certified(left, d, job) \subseteq DOMAIN left.fitters /\ IsFiniteSet(DOMAIN left.fitters)
            BY DEF Certified, FittersOn, IsWorld
        <3> QED
            BY <1>4, <3>1, FS_Subset
    <2>2. Cardinality(Certified(left, d, job)) \in Nat /\ Cardinality(Certified(left, d, job)) # 0
        BY <2>1, FS_CardinalityType, FS_EmptySet
    <2>3. 1 > Cardinality(Certified(left, d, job))
        BY <1>3, <1>6 DEF Explained, PlainJob
    <2> QED
        BY <2>2, <2>3
<1>7. CASE why = "hard_window_unreachable"
    <2>1. ~PromiseOutOfReach(left, d, job)
        BY <1>3 DEF PlainJob, PromiseOutOfReach
    <2>2. HardWindowOutOfReach(left, d, job)
        BY <1>3, <1>7, <2>1 DEF Explained
    <2> QED
        BY <1>2, <1>3, <2>2, WindowIsOutOfReach
<1>8. CASE why = "van_capacity_exceeded"
    <2>1. PICK g \in Goods : \A u \in DOMAIN left.vans : left.vans[u].room[g] < job.load[g]
        BY <1>3, <1>8 DEF Explained
    <2>2. v \in DOMAIN left.vans /\ IsVan(left.vans[v]) /\ IsJob(job)
        BY <1>3 DEF VansOn, IsWorld
    <2>3. Load(left, {j}, g) = job.load[g]
        <3>1. Load(left, {j}, g) = SumOver(Loads(left, g), {j})
            BY LoadMeans
        <3>2. Loads(left, g)[j] = job.load[g] /\ job.load[g] \in Nat
            BY <1>3, <2>2 DEF Loads, IsJob
        <3> QED
            BY <3>1, <3>2, SumOfOne
    <2>4. Load(left, {j}, g) <= left.vans[v].room[g]
        BY <1>2 DEF AloneOn, CanServe
    <2> QED
        BY <2>1, <2>2, <2>3, <2>4 DEF IsVan, IsJob
<1> QED
    BY <1>5, <1>6, <1>7, <1>8

\* Every day routed so far was planned for the work that is left.
ResultsOK ==
    /\ phase = "start" => DOMAIN results = {}
    /\ \A d \in DOMAIN results : d \in 1..Days /\ \E today : results[d] \in PlanDay(left, d, today, {}, late)

LEMMA ResultsKept ==
    ASSUME ResultsOK, [Next]_vars
    PROVE  ResultsOK'
<1>1. CASE UNCHANGED <<results, left, late>> /\ phase' # "start"
    BY <1>1 DEF ResultsOK
<1>2. CASE CarveOut
    BY <1>2 DEF CarveOut, ResultsOK
<1>3. CASE AssignDays
    BY <1>3 DEF AssignDays, ResultsOK
<1>4. CASE RouteDay
    <2>1. PICK d : d = Min(ToRoute)
        OBVIOUS
    <2>2. PICK result \in PlanDay(left, d, Today(d), {}, late) : results' = Put(results, d, result)
        BY <1>4, <2>1 DEF RouteDay
    <2>3. d \in 1..Days /\ phase' # "start" /\ UNCHANGED <<left, late>>
        BY <1>4, <2>1, DayToRoute DEF RouteDay
    <2>4. ASSUME NEW e \in DOMAIN results'
          PROVE  e \in 1..Days /\ \E today : results'[e] \in PlanDay(left, e, today, {}, late)
        <3>1. CASE e = d
            BY <2>2, <2>3, <3>1 DEF Put
        <3>2. CASE e # d
            <4>1. e \in DOMAIN results /\ results'[e] = results[e]
                BY <2>2, <3>2 DEF Put
            <4> QED
                BY <4>1 DEF ResultsOK
        <3> QED
            BY <3>1, <3>2
    <2> QED
        BY <2>3, <2>4 DEF ResultsOK
<1>5. ASSUME NEW j \in DOMAIN world.jobs, NEW trouble \in Troubles, Depart(j, trouble) PROVE ResultsOK'
    BY <1>5 DEF Depart, ResultsOK
<1>6. CASE UNCHANGED vars
    BY <1>6 DEF vars, ResultsOK
<1>7. NextRound \/ Finish => UNCHANGED <<results, left, late>> /\ phase' # "start"
    BY DEF NextRound, Finish
<1> QED
    BY <1>1, <1>2, <1>3, <1>4, <1>5, <1>6, <1>7 DEF Next

LEMMA ResultsExplain ==
    ASSUME PlanningInv, ResultsOK
    PROVE  ImpossibleMeansImpossible
<1> SUFFICES ASSUME NEW d \in DOMAIN results, NEW j \in DOMAIN results[d].unserved,
                    results[d].unserved[j] \in {"no_certified_worker", "crew_size_unavailable",
                                                "hard_window_unreachable", "van_capacity_exceeded"},
                    PlainJob(j, d), NEW v \in VansOn(left, d)
             PROVE  Runs(left, d, v, {j}, late) = {}
    BY DEF ImpossibleMeansImpossible
<1>1. d \in 1..Days /\ \E today : results[d] \in PlanDay(left, d, today, {}, late)
    BY DEF ResultsOK
<1>2. IsWorld(left, 1..Days)
    BY DEF PlanningInv, CarveOK, ResultsOK
<1>3. PICK result : result = results[d]
    OBVIOUS
<1>4. j \in DOMAIN left.jobs /\ Explained(left, d, j, result.unserved[j])
    BY <1>1, <1>3, PlanDayExplains
<1> QED
    BY <1>1, <1>2, <1>3, <1>4, ExplainedIsImpossible

\* A job the day planner calls impossible for its skills, crew, window or load
\* really has no run that day (_diagnose_unserved): for any week, fleet and
\* bands, and after any repair.
THEOREM NothingPossibleIsRefused ==
    ASSUME NobodyOut
    PROVE  Spec => []ImpossibleMeansImpossible
<1>1. Init => ResultsOK
    BY DEF Init, ResultsOK
<1>2. ResultsOK /\ [Next]_vars => ResultsOK'
    BY ResultsKept
<1>3. Spec => []PlanningInv
    BY PlanningIsKept
<1>4. PlanningInv /\ ResultsOK => ImpossibleMeansImpossible
    BY ResultsExplain
<1> QED
    BY <1>1, <1>2, <1>3, <1>4, PTL DEF Spec

-----------------------------------------------------------------------------
(* A crew that is out keeps to what the check has accepted.                *)

\* The first stops of a sound route that is back before midnight are sound.
Begins(k, r, n, m) ==
    /\ n \in Nat \ {0} /\ m \in 1..n /\ DOMAIN r.stops = 1..n /\ DOMAIN k.stops = 1..m
    /\ RouteTyped(r) /\ RouteTyped(k)
    /\ k.day = r.day /\ k.van = r.van /\ k.crew = r.crew /\ k.home = 0
    /\ \A i \in 1..m : k.stops[i] = r.stops[i]

LEMMA BeginsSpan ==
    ASSUME NEW k, NEW r, NEW n, NEW m, Begins(k, r, n, m)
    PROVE  /\ k.stops # <<>> /\ r.stops # <<>> /\ {Span(k)[1], Span(k)[2], Span(r)[1], Span(r)[2]} \subseteq Int
           /\ Span(k)[1] = Span(r)[1] /\ Span(k)[1] < Span(k)[2] /\ Span(k)[2] <= Span(r)[2]
<1>1. /\ n \in Nat \ {0} /\ m \in 1..n /\ DOMAIN r.stops = 1..n /\ DOMAIN k.stops = 1..m
      /\ RouteTyped(r) /\ RouteTyped(k) /\ k.home = 0
      /\ \A i \in 1..m : k.stops[i] = r.stops[i]
    BY DEF Begins
<1>2. k.stops # <<>> /\ r.stops # <<>>
    <2>1. 1 \in 1..m /\ 1 \in 1..n
        BY <1>1
    <2>2. DOMAIN <<>> = {}
        OBVIOUS
    <2> QED
        BY <1>1, <2>1, <2>2
<1>3. /\ Span(k)[1] \in Int /\ Span(k)[2] \in Int /\ Span(k)[1] < Span(k)[2]
      /\ Span(k)[1] = k.stops[1].arrive - k.stops[1].travel /\ Span(k)[2] = k.stops[m].leave + k.home
    <2>1. PICK z \in Nat \ {0} :
              /\ DOMAIN k.stops = 1..z
              /\ Span(k)[1] \in Int /\ Span(k)[2] \in Int /\ Span(k)[1] < Span(k)[2]
              /\ Span(k)[1] = k.stops[1].arrive - k.stops[1].travel /\ Span(k)[2] = k.stops[z].leave + k.home
        BY <1>1, <1>2, SpanMeans
    <2>2. z = m
        BY <1>1, <2>1
    <2> QED
        BY <2>1, <2>2
<1>4. /\ Span(r)[1] \in Int /\ Span(r)[2] \in Int
      /\ Span(r)[1] = r.stops[1].arrive - r.stops[1].travel /\ Span(r)[2] = r.stops[n].leave + r.home
    <2>1. PICK z \in Nat \ {0} :
              /\ DOMAIN r.stops = 1..z
              /\ Span(r)[1] \in Int /\ Span(r)[2] \in Int /\ Span(r)[1] < Span(r)[2]
              /\ Span(r)[1] = r.stops[1].arrive - r.stops[1].travel /\ Span(r)[2] = r.stops[z].leave + r.home
        BY <1>1, <1>2, SpanMeans
    <2>2. z = n
        BY <1>1, <2>1
    <2> QED
        BY <2>1, <2>2
<1>5. Span(k)[1] = Span(r)[1]
    <2>1. k.stops[1] = r.stops[1]
        BY <1>1
    <2> QED
        BY <1>3, <1>4, <2>1
<1>6. Span(k)[2] <= Span(r)[2]
    <2>1. k.stops[m] = r.stops[m] /\ m \in 1..n /\ n \in 1..n
        BY <1>1
    <2>2. /\ r.home \in Nat
          /\ r.stops[m].leave \in Int /\ r.stops[n].leave \in Int /\ r.stops[n].arrive \in Int
          /\ r.stops[n].travel \in Nat /\ r.stops[n].arrive < r.stops[n].leave
          /\ (m < n => r.stops[m].leave <= r.stops[n].arrive - r.stops[n].travel)
        BY <1>1, <2>1 DEF RouteTyped
    <2>3. PICK a \in Int, b \in Int, c \in Int, t \in Nat, h \in Nat :
              /\ a = r.stops[m].leave /\ b = r.stops[n].leave /\ c = r.stops[n].arrive
              /\ t = r.stops[n].travel /\ h = r.home
        BY <2>2
    <2>4. c < b /\ (m < n => a <= c - t) /\ (m = n => a = b)
        BY <2>2, <2>3
    <2>5. m < n \/ m = n
        BY <2>1
    <2>6. a + 0 <= b + h
        BY ONLY <2>4, <2>5, a \in Int, b \in Int, c \in Int, t \in Nat, h \in Nat
    <2>7. Span(k)[2] = a + 0 /\ Span(r)[2] = b + h
        BY <1>1, <1>3, <1>4, <2>1, <2>3
    <2> QED
        BY <2>6, <2>7
<1> QED
    BY <1>2, <1>3, <1>4, <1>5, <1>6

LEMMA BeginsSound ==
    ASSUME NEW w, NEW days, IsWorld(w, days), NEW late0, NEW k, NEW r, NEW n, NEW m, Begins(k, r, n, m),
           r.day \in days, r.day \in Int, Sound(w, late0, r), 0 <= Span(r)[1], Span(r)[2] < Minutes
    PROVE  Sound(w, late0, k)
<1>1. /\ n \in Nat \ {0} /\ m \in 1..n /\ DOMAIN r.stops = 1..n /\ DOMAIN k.stops = 1..m
      /\ k.day = r.day /\ k.van = r.van /\ k.crew = r.crew /\ \A i \in 1..m : k.stops[i] = r.stops[i]
    BY DEF Begins
<1>2. 1..m \subseteq 1..n
    BY <1>1
<1>3. /\ r.crew \subseteq DOMAIN w.fitters /\ r.van \in DOMAIN w.vans
      /\ \A i \in 1..n : r.stops[i].job \in DOMAIN w.jobs
    BY <1>1 DEF Sound, Knows
<1>4. Knows(w, k)
    BY <1>1, <1>2, <1>3 DEF Knows
<1>5. Loaded(w, k)
    <2> SUFFICES ASSUME NEW g \in Goods PROVE ~(Carries(w, k, g) > w.vans[k.van].room[g])
        BY DEF Loaded
    <2>1. \A i \in 1..n : w.jobs[r.stops[i].job].load[g] \in Nat
        BY <1>3 DEF IsWorld, IsJob
    <2>2. /\ Carries(w, r, g) = SumOver(Burden(w, r, g), 1..n) /\ IsFiniteSet(1..n)
          /\ Counts(Burden(w, r, g), 1..n)
        BY <1>1, <2>1, CarriesMeans
    <2>3. /\ Carries(w, k, g) = SumOver(Burden(w, k, g), 1..m) /\ IsFiniteSet(1..m)
          /\ Counts(Burden(w, k, g), 1..m)
        <3>1. \A i \in 1..m : w.jobs[k.stops[i].job].load[g] \in Nat
            BY <1>1, <1>2, <2>1
        <3>2. m \in Nat
            BY <1>1
        <3> QED
            BY <1>1, <3>1, <3>2, CarriesMeans
    <2>4. SumOver(Burden(w, k, g), 1..m) = SumOver(Burden(w, r, g), 1..m)
        <3>1. PICK self : self = [i \in 1..m |-> i]
            OBVIOUS
        <3>2. PICK S : S = 1..m
            OBVIOUS
        <3>3. PICK h, f : h = Burden(w, k, g) /\ f = Burden(w, r, g)
            OBVIOUS
        <3>4. \A i \in S : h[i] = f[self[i]] /\ h[i] \in Nat
            BY <1>1, <1>2, <2>1, <3>1, <3>2, <3>3 DEF Burden
        <3>5. \A i, l \in S : self[i] = self[l] => i = l
            BY <3>1, <3>2
        <3>6. IsFiniteSet(S)
            BY <2>3, <3>2
        <3>7. SumOver(h, S) = SumOver(f, {self[i] : i \in S})
            BY ONLY <3>4, <3>5, <3>6, SumAlong
        <3>8. {self[i] : i \in S} = S
            BY <3>1, <3>2
        <3> QED
            BY <3>2, <3>3, <3>7, <3>8
    <2>5. SumOver(Burden(w, r, g), 1..m) <= SumOver(Burden(w, r, g), 1..n)
        BY <1>2, <2>2, SumMonotone
    <2>6. SumOver(Burden(w, k, g), 1..m) \in Nat /\ SumOver(Burden(w, r, g), 1..n) \in Nat
        BY <2>2, <2>3, SumTyped
    <2>7. ~(Carries(w, r, g) > w.vans[r.van].room[g])
        BY DEF Sound, Loaded
    <2>8. w.vans[r.van].room[g] \in Int
        BY <1>3 DEF IsWorld, IsVan
    <2>9. PICK x \in Int, y \in Int, z \in Int :
              x = Carries(w, k, g) /\ y = Carries(w, r, g) /\ z = w.vans[r.van].room[g]
        BY <2>2, <2>3, <2>6, <2>8
    <2>10. x <= y /\ ~(y > z)
        BY <2>2, <2>3, <2>4, <2>5, <2>7, <2>9
    <2>11. ~(x > z)
        BY ONLY <2>10, x \in Int, y \in Int, z \in Int
    <2> QED
        BY <1>1, <2>9, <2>11
<1>6. ASSUME NEW i \in 1..m PROVE Skilled(w, k, i) /\ ~Strays(w, k, i) /\ Windowed(w, k, i)
    <2>1. Skilled(w, r, i) /\ ~Strays(w, r, i) /\ Windowed(w, r, i)
        BY <1>1, <1>2 DEF Sound
    <2>2. k.stops[i] = r.stops[i]
        BY <1>1
    <2>3. i # 1 => k.stops[i - 1] = r.stops[i - 1]
        BY <1>1
    <2>4. Leaves(k, i) = Leaves(r, i) /\ Origin(w, k, i) = Origin(w, r, i)
        BY <2>2, <2>3 DEF Leaves, Origin
    <2>5. Skilled(w, k, i)
        BY <1>1, <2>1, <2>2 DEF Skilled
    <2>6. ~Strays(w, k, i)
        BY <1>1, <2>1, <2>2, <2>4 DEF Strays
    <2>7. Windowed(w, k, i)
        BY <1>1, <2>1, <2>2 DEF Windowed
    <2> QED
        BY <2>5, <2>6, <2>7
<1>7. ASSUME NEW f \in k.crew PROVE Worked(w, late0, k, f)
    <2>1. /\ r.stops # <<>> /\ {Span(k)[1], Span(k)[2], Span(r)[1], Span(r)[2]} \subseteq Int
          /\ Span(k)[1] = Span(r)[1] /\ Span(k)[1] < Span(k)[2] /\ Span(k)[2] <= Span(r)[2]
        BY BeginsSpan
    <2>2. f \in r.crew /\ f \in DOMAIN w.fitters
        BY <1>1, <1>3
    <2>3. Worked(w, late0, r, f)
        BY <2>1, <2>2 DEF Sound
    <2>4. PICK g : g = w.fitters[f]
        OBVIOUS
    <2>5. IsFitter(g, days)
        BY <2>2, <2>4 DEF IsWorld
    <2>6. PICK sh : sh = g.shift[r.day]
        OBVIOUS
    <2>7. /\ sh # <<>> /\ ~(Span(r)[1] % Minutes < sh[1])
          /\ ~(Span(r)[2] % Minutes > sh[2] /\ ~(late0 /\ g.eligible))
          /\ ~Out(g.outages, r.day, Span(r))
        BY <2>3, <2>4, <2>6 DEF Worked
    <2>8. sh[1] \in Int /\ sh[2] \in Int
        BY <2>5, <2>6, <2>7 DEF IsFitter
    <2>9. ~Out(g.outages, r.day, Span(k))
        <3>1. g.outages \in SUBSET [from : Int, until : Int]
            BY <2>5 DEF IsFitter
        <3>2. PICK p, q : p = Span(k) /\ q = Span(r)
            OBVIOUS
        <3>3. {p[1], p[2], q[1], q[2]} \subseteq Int /\ q[1] <= p[1] /\ p[2] <= q[2]
            BY <2>1, <3>2
        <3>4. Out(g.outages, r.day, p) => Out(g.outages, r.day, q)
            BY <3>1, <3>3, OutLonger
        <3> QED
            BY <2>7, <3>2, <3>4
    <2>10. Span(k)[2] % Minutes <= Span(r)[2] % Minutes
        <3>1. PICK x \in Int, y \in Int, z \in Int : x = Span(k)[1] /\ y = Span(k)[2] /\ z = Span(r)[2]
            BY <2>1
        <3>2. 0 <= x /\ x < y /\ y <= z /\ z < Minutes /\ Minutes \in Nat \ {0}
            BY <2>1, <3>1, HoursConstants
        <3>3. y % Minutes = y /\ z % Minutes = z
            BY ONLY <3>2, x \in Int, y \in Int, z \in Int
        <3>4. y % Minutes <= z % Minutes
            BY <3>2, <3>3
        <3> QED
            BY <3>1, <3>4
    <2>11. ~(Span(k)[2] % Minutes > sh[2] /\ ~(late0 /\ g.eligible))
        <3>1. PICK y \in Int, z \in Int : y = Span(k)[2] % Minutes /\ z = Span(r)[2] % Minutes
            BY <2>1, HoursConstants
        <3>2. y <= z
            BY <2>10, <3>1
        <3>3. z <= sh[2] => ~(y > sh[2])
            BY <2>8, <3>2
        <3>4. ~(z > sh[2]) => z <= sh[2]
            BY <2>8
        <3> QED
            BY <2>7, <3>1, <3>3, <3>4
    <2> QED
        BY <1>1, <2>1, <2>4, <2>6, <2>7, <2>9, <2>11 DEF Worked
<1> QED
    BY <1>1, <1>4, <1>5, <1>6, <1>7 DEF Sound

-----------------------------------------------------------------------------
(* The plans pass.                                                         *)

\* What is left is the world without the crews that are out.
LeftOK ==
    phase # "start" =>
        /\ left.delays = world.delays
        /\ DOMAIN left.fitters = DOMAIN world.fitters /\ DOMAIN left.vans = DOMAIN world.vans
        /\ \A f \in DOMAIN world.fitters :
              /\ left.fitters[f].shift = world.fitters[f].shift
              /\ left.fitters[f].certs = world.fitters[f].certs
              /\ left.fitters[f].eligible = world.fitters[f].eligible
              /\ left.fitters[f].outages =
                    world.fitters[f].outages \cup {Consumed(r) : r \in {q \in Started : f \in q.crew}}
        /\ \A v \in DOMAIN world.vans :
              /\ left.vans[v].room = world.vans[v].room
              /\ left.vans[v].outages = world.vans[v].outages \cup {Consumed(r) : r \in {q \in Started : v = q.van}}

\* The head has passed the check, and nobody in it sets out before its day.
HeadSound ==
    /\ Exclusive(head)
    /\ \A r \in head : /\ Sound(world, late, r) /\ r.day \in 1..Days
                       /\ r.stops # <<>> => 0 <= Span(r)[1]

\* A plan is what is carried and what the days have routed.
PlanIsRouted ==
    phase = "planned" =>
        plan.routes = carried \cup Routed /\ plan.released = UNION {results[d].released : d \in DOMAIN results}

SoundInv == PlanningInv /\ ResultsOK /\ LeftOK /\ HeadSound /\ PlanIsRouted

\* What is carried of a route.
LEMMA KeptBegins ==
    ASSUME NEW r, RouteTyped(r), Prefix(r) # <<>>
    PROVE  \E n, m : Begins(Kept(r), r, n, m)
<1>1. PICK n \in Nat : r.stops = [i \in 1..n |-> r.stops[i]]
    BY DEF RouteTyped, IsRoute
<1>2. PICK m \in 0..n : /\ Prefix(r) = [i \in 1..m |-> r.stops[i]]
                        /\ DOMAIN Prefix(r) = 1..m
                        /\ \A i \in 1..m : Prefix(r)[i] = r.stops[i]
    BY <1>1, PrefixMeans
<1>3. m # 0
    <2>1. m = 0 => 1..m = {}
        OBVIOUS
    <2>2. m = 0 => Prefix(r) = <<>>
        BY <1>2, <2>1
    <2> QED
        BY <2>2
<1>4. PICK k, p : k = Kept(r) /\ p = Prefix(r)
    OBVIOUS
<1>5. k = [r EXCEPT !.stops = p, !.home = 0]
    BY <1>4 DEF Kept
<1>6. r = [day |-> r.day, van |-> r.van, crew |-> r.crew, stops |-> r.stops, home |-> r.home]
    BY DEF RouteTyped, IsRoute
<1>7. k.day = r.day /\ k.van = r.van /\ k.crew = r.crew /\ k.stops = p /\ k.home = 0
    BY <1>5, <1>6
<1>8. RouteTyped(k)
    BY <1>4, KeptTyped
<1>9. n \in Nat \ {0} /\ m \in 1..n /\ DOMAIN r.stops = 1..n
    BY <1>1, <1>2, <1>3
<1>10. Begins(k, r, n, m)
    BY <1>2, <1>4, <1>7, <1>8, <1>9 DEF Begins
<1> QED
    BY <1>4, <1>10

\* Carried routes are sound, and their crews out while they are driven.
LEMMA CarriedSound ==
    ASSUME PlanningInv, LeftOK, HeadSound, phase # "start", BackByMidnight, NEW r \in Started
    PROVE  /\ RouteTyped(Kept(r)) /\ r \in head
           /\ Kept(r).stops # <<>> /\ Kept(r).day = r.day /\ Kept(r).van = r.van /\ Kept(r).crew = r.crew
           /\ Sound(world, late, Kept(r))
           /\ {Span(Kept(r))[1], Span(Kept(r))[2], Span(r)[1], Span(r)[2]} \subseteq Int
           /\ r.stops # <<>> /\ Span(Kept(r))[1] = Span(r)[1] /\ Span(Kept(r))[2] <= Span(r)[2]
<1>1. r \in head /\ Prefix(r) # <<>>
    BY DEF Started
<1>2. RouteTyped(r) /\ IsWorld(world, 1..Days)
    BY <1>1 DEF PlanningInv, HeadOK
<1>3. PICK k : k = Kept(r)
    OBVIOUS
<1>4. PICK n, m : Begins(k, r, n, m)
    BY <1>1, <1>2, <1>3, KeptBegins
<1>5. /\ k.stops # <<>> /\ r.stops # <<>> /\ {Span(k)[1], Span(k)[2], Span(r)[1], Span(r)[2]} \subseteq Int
      /\ Span(k)[1] = Span(r)[1] /\ Span(k)[2] <= Span(r)[2]
    BY <1>4, BeginsSpan
<1>6. Sound(world, late, r) /\ r.day \in 1..Days /\ r.day \in Int /\ 0 <= Span(r)[1] /\ Span(r)[2] < Minutes
    BY <1>1, <1>2, <1>5 DEF HeadSound, BackByMidnight, RouteTyped
<1>7. Sound(world, late, k)
    BY <1>2, <1>4, <1>6, BeginsSound
<1>8. RouteTyped(k) /\ k.day = r.day /\ k.van = r.van /\ k.crew = r.crew
    BY <1>4 DEF Begins
<1> QED
    BY <1>1, <1>3, <1>5, <1>7, <1>8

\* What a crew is out for is on the clock of its day what it drives.
LEMMA OutWhileCarried ==
    ASSUME NEW r, RouteTyped(Kept(r)), Kept(r).day = r.day, NEW span,
           {Span(Kept(r))[1], Span(Kept(r))[2], span[1], span[2]} \subseteq Int, Overlap(Span(Kept(r)), span),
           NEW outages, Consumed(r) \in outages
    PROVE  Out(outages, r.day, span)
<1>1. PICK m : m = (r.day - 1) * Minutes
    OBVIOUS
<1>2. m \in Int
    <2>1. r.day \in Int /\ Minutes \in Int
        BY HoursConstants DEF RouteTyped
    <2> QED
        BY <1>1, <2>1
<1>3. PICK x \in Int, y \in Int : x = Span(Kept(r))[1] /\ y = Span(Kept(r))[2]
    OBVIOUS
<1>4. Consumed(r) = [from |-> m + x, until |-> m + y]
    BY <1>1, <1>3 DEF Consumed
<1>5. Clock(r.day, Consumed(r).from) = x /\ Clock(r.day, Consumed(r).until) = y
    <2>1. Consumed(r).from = m + x /\ Consumed(r).until = m + y
        BY <1>4
    <2>2. m + x - m = x /\ m + y - m = y
        BY ONLY m \in Int, x \in Int, y \in Int, <1>2
    <2> QED
        BY <1>1, <2>1, <2>2 DEF Clock
<1>6. x < span[2] /\ span[1] < y
    BY <1>3 DEF Overlap
<1>7. ~(span[2] <= x) /\ span[1] < y
    BY <1>6
<1> QED
    BY <1>5, <1>7 DEF Out, Covers

\* What a day is routed for passes in the world as in what is left of it.
LEMMA RoutedSound ==
    ASSUME PlanningInv, ResultsOK, LeftOK, phase # "start", NEW d \in DOMAIN results,
           SeenAlike(left, d, late), results[d].released \cap Stopped(results[d].routes) = {}
    PROVE  /\ RoutesOK(results[d].routes) /\ Exclusive(results[d].routes)
           /\ \A r \in results[d].routes :
                 /\ Sound(left, late, r) /\ VanFree(left, r) /\ Sound(world, late, r) /\ VanFree(world, r)
                 /\ r.day = d /\ RouteTyped(r) /\ r.stops # <<>>
<1>1. IsWorld(left, 1..Days) /\ IsWorld(world, 1..Days) /\ left.jobs = [j \in DOMAIN world.jobs \ Gone |-> world.jobs[j]]
    BY DEF PlanningInv, CarveOK, HeadOK
<1>2. d \in 1..Days /\ d \in Int
    BY DEF ResultsOK
<1>3. PICK today : results[d] \in PlanDay(left, d, today, {}, late)
    BY DEF ResultsOK
<1>4. PICK result : result = results[d]
    OBVIOUS
<1>5. DaySound(left, late, result.routes)
    <2>1. PerMinute = 1
        BY PlanningConstants
    <2>2. result \in PlanDay(left, d, today, {}, late) /\ result.released \cap Stopped(result.routes) = {}
        BY <1>3, <1>4
    <2> QED
        BY <1>1, <1>2, <2>1, <2>2, PlanDaySound
<1>6. \A r \in result.routes : r.day = d
    <2>1. IsFiniteSet(DOMAIN left.vans) /\ IsFiniteSet(DOMAIN left.jobs)
        BY <1>1 DEF IsWorld
    <2> QED
        BY <1>3, <1>4, <2>1, PlanDayMeans
<1>7. \A r \in result.routes : RouteTyped(r) /\ r.stops # <<>>
    BY <1>1, <1>2, <1>3, <1>4, PlanDayTyped, PlanDayStarts
<1>8. Alike(left, world)
    <2>1. \A j \in DOMAIN left.jobs : j \in DOMAIN world.jobs /\ left.jobs[j] = world.jobs[j]
        BY <1>1
    <2>2. \A f \in DOMAIN left.fitters : world.fitters[f].outages \subseteq left.fitters[f].outages
        BY DEF LeftOK
    <2> QED
        BY <2>1, <2>2 DEF LeftOK, Alike
<1>9. ASSUME NEW r \in result.routes PROVE Sound(world, late, r) /\ VanFree(world, r)
    <2>1. Sound(left, late, r) /\ VanFree(left, r)
        BY <1>5 DEF DaySound
    <2>2. ASSUME NEW i \in DOMAIN r.stops PROVE Windowed(world, r, i)
        <3>1. Windowed(left, r, i) /\ r.stops[i].job \in DOMAIN left.jobs
            BY <2>1 DEF Sound, Knows
        <3>2. left.jobs[r.stops[i].job] = world.jobs[r.stops[i].job]
            BY <1>1, <3>1
        <3> QED
            BY <3>1, <3>2 DEF Windowed
    <2>3. Sound(world, late, r)
        BY <1>1, <1>7, <1>8, <2>1, <2>2, SoundElsewhere
    <2>4. VanFree(world, r)
        <3>1. r.van \in DOMAIN world.vans
            BY <2>3 DEF Sound, Knows
        <3>2. world.vans[r.van].outages \subseteq left.vans[r.van].outages
            BY <3>1 DEF LeftOK
        <3> QED
            BY <2>1, <3>2 DEF VanFree, Out
    <2> QED
        BY <2>3, <2>4
<1> QED
    BY <1>4, <1>5, <1>6, <1>7, <1>9 DEF DaySound

\* Nobody out is given another route before being back.
LEMMA CarriedApart ==
    ASSUME PlanningInv, LeftOK, HeadSound, phase # "start", BackByMidnight, NEW r \in Started,
           NEW b, RouteTyped(b), b.stops # <<>>, Sound(left, late, b), VanFree(left, b),
           b.day = r.day, Overlap(Span(Kept(r)), Span(b))
    PROVE  r.crew \cap b.crew = {} /\ r.van # b.van
<1>1. /\ RouteTyped(Kept(r)) /\ Kept(r).day = r.day
      /\ {Span(Kept(r))[1], Span(Kept(r))[2]} \subseteq Int
    BY CarriedSound
<1>2. {Span(b)[1], Span(b)[2]} \subseteq Int
    BY SpanMeans
<1>3. \A outages : Consumed(r) \in outages => Out(outages, r.day, Span(b))
    BY <1>1, <1>2, OutWhileCarried
<1>4. b.crew \subseteq DOMAIN world.fitters /\ b.van \in DOMAIN world.vans
    BY DEF Sound, Knows, LeftOK
<1>5. ASSUME NEW f \in r.crew, f \in b.crew PROVE FALSE
    <2>1. f \in DOMAIN world.fitters
        BY <1>4, <1>5
    <2>2. Consumed(r) \in left.fitters[f].outages
        BY <1>5, <2>1 DEF LeftOK
    <2>3. ~Out(left.fitters[f].outages, b.day, Span(b))
        BY <1>5 DEF Sound, Worked
    <2> QED
        BY <1>3, <2>2, <2>3
<1>6. ASSUME r.van = b.van PROVE FALSE
    <2>1. Consumed(r) \in left.vans[b.van].outages
        BY <1>4, <1>6 DEF LeftOK
    <2>2. ~Out(left.vans[b.van].outages, b.day, Span(b))
        BY DEF VanFree
    <2> QED
        BY <1>3, <2>1, <2>2
<1> QED
    BY <1>5, <1>6

LEMMA PlannedSound ==
    ASSUME SoundInv, phase = "planned", SameEyes
    PROVE  Problems = {}
<1>1. /\ PlanningInv /\ ResultsOK /\ LeftOK /\ HeadSound /\ BackByMidnight
      /\ plan.routes = carried \cup Routed /\ carried = {Kept(r) : r \in Started}
      /\ \A d \in 1..Days : SeenAlike(left, d, late)
    BY DEF SoundInv, SameEyes, PlanIsRouted, PlanningInv, CarveOK
<1>2. ASSUME NEW d \in DOMAIN results
      PROVE  /\ Exclusive(results[d].routes)
             /\ \A r \in results[d].routes :
                   /\ Sound(left, late, r) /\ VanFree(left, r) /\ Sound(world, late, r) /\ VanFree(world, r)
                   /\ r.day = d /\ RouteTyped(r) /\ r.stops # <<>>
    <2>1. SeenAlike(left, d, late)
        BY <1>1 DEF ResultsOK
    <2>2. results[d].released \subseteq plan.released
        BY DEF SoundInv, PlanIsRouted
    <2>3. results[d].routes \subseteq plan.routes
        BY <1>1 DEF Routed
    <2>4. Stopped(results[d].routes) \subseteq Stopped(plan.routes)
        BY <2>3 DEF Stopped
    <2>5. results[d].released \cap Stopped(results[d].routes) = {}
        BY <2>2, <2>4 DEF SameEyes
    <2> QED
        BY <1>1, <2>1, <2>5, RoutedSound
<1>3. ASSUME NEW b \in Routed PROVE \E d \in DOMAIN results : b \in results[d].routes
    BY DEF Routed
<1>4. ASSUME NEW a \in carried
      PROVE  \E r \in Started : /\ a = Kept(r) /\ r \in head /\ r.stops # <<>>
                                /\ a.stops # <<>> /\ a.day = r.day /\ a.van = r.van /\ a.crew = r.crew
                                /\ Sound(world, late, a)
                                /\ {Span(a)[1], Span(a)[2], Span(r)[1], Span(r)[2]} \subseteq Int
                                /\ Span(a)[1] = Span(r)[1] /\ Span(a)[2] <= Span(r)[2]
    <2>1. PICK r \in Started : a = Kept(r)
        BY <1>1
    <2> QED
        BY <1>1, <2>1, CarriedSound
<1>5. \A r \in plan.routes : Sound(world, late, r) /\ VanFree(world, r)
    <2>1. \A r \in carried : Sound(world, late, r)
        BY <1>4
    <2>2. \A r \in carried : VanFree(world, r)
        BY DEF SameEyes, NobodyOutIsStranded, VanFree
    <2> QED
        BY <1>1, <1>2, <1>3, <2>1, <2>2
<1>6. Exclusive(plan.routes)
    <2> SUFFICES ASSUME NEW a \in plan.routes, NEW b \in plan.routes, a # b, a.day = b.day,
                        Overlap(Span(a), Span(b))
                 PROVE  a.crew \cap b.crew = {} /\ a.van # b.van
        BY DEF Exclusive, Apart
    <2>0. Overlap(Span(b), Span(a))
        BY DEF Overlap
    <2>1. CASE a \in carried /\ b \in carried
        <3>1. PICK p \in Started : /\ a = Kept(p) /\ p \in head /\ p.stops # <<>>
                                   /\ a.day = p.day /\ a.van = p.van /\ a.crew = p.crew
                                   /\ {Span(a)[1], Span(a)[2], Span(p)[1], Span(p)[2]} \subseteq Int
                                   /\ Span(a)[1] = Span(p)[1] /\ Span(a)[2] <= Span(p)[2]
            BY <1>4, <2>1
        <3>2. PICK q \in Started : /\ b = Kept(q) /\ q \in head /\ q.stops # <<>>
                                   /\ b.day = q.day /\ b.van = q.van /\ b.crew = q.crew
                                   /\ {Span(b)[1], Span(b)[2], Span(q)[1], Span(q)[2]} \subseteq Int
                                   /\ Span(b)[1] = Span(q)[1] /\ Span(b)[2] <= Span(q)[2]
            BY <1>4, <2>1
        <3>3. Span(p) # <<>> /\ Span(q) # <<>>
            BY <3>1, <3>2 DEF Span
        <3>4. Span(a)[1] < Span(b)[2] /\ Span(b)[1] < Span(a)[2]
            BY DEF Overlap
        <3>5. Span(p)[1] < Span(q)[2] /\ Span(q)[1] < Span(p)[2]
            BY <3>1, <3>2, <3>4
        <3>6. Overlap(Span(p), Span(q))
            BY <3>3, <3>5 DEF Overlap
        <3>7. p # q
            BY <3>1, <3>2
        <3>8. Apart(p, q)
            BY <1>1, <3>1, <3>2 DEF HeadSound, Exclusive
        <3> QED
            BY <3>1, <3>2, <3>6, <3>7, <3>8 DEF Apart
    <2>2. CASE a \in carried /\ b \in Routed
        <3>1. PICK r \in Started : a = Kept(r) /\ a.day = r.day /\ a.van = r.van /\ a.crew = r.crew
            BY <1>4, <2>2
        <3>2. RouteTyped(b) /\ b.stops # <<>> /\ Sound(left, late, b) /\ VanFree(left, b)
            BY <1>2, <1>3, <2>2
        <3>3. b.day = r.day /\ Overlap(Span(Kept(r)), Span(b)) /\ phase # "start"
            BY <3>1
        <3>4. r.crew \cap b.crew = {} /\ r.van # b.van
            BY <1>1, <3>2, <3>3, CarriedApart
        <3> QED
            BY <3>1, <3>4
    <2>3. CASE a \in Routed /\ b \in carried
        <3>1. PICK r \in Started : b = Kept(r) /\ b.day = r.day /\ b.van = r.van /\ b.crew = r.crew
            BY <1>4, <2>3
        <3>2. RouteTyped(a) /\ a.stops # <<>> /\ Sound(left, late, a) /\ VanFree(left, a)
            BY <1>2, <1>3, <2>3
        <3>3. a.day = r.day /\ Overlap(Span(Kept(r)), Span(a)) /\ phase # "start"
            BY <2>0, <3>1
        <3>4. r.crew \cap a.crew = {} /\ r.van # a.van
            BY <1>1, <3>2, <3>3, CarriedApart
        <3> QED
            BY <3>1, <3>4
    <2>4. CASE a \in Routed /\ b \in Routed
        <3>1. PICK d \in DOMAIN results : a \in results[d].routes
            BY <1>3, <2>4
        <3>2. PICK e \in DOMAIN results : b \in results[e].routes
            BY <1>3, <2>4
        <3>3. d = e
            BY <1>2, <3>1, <3>2
        <3>4. Apart(a, b)
            BY <1>2, <3>1, <3>2, <3>3 DEF Exclusive
        <3> QED
            BY <3>4 DEF Apart
    <2> QED
        BY <1>1, <2>1, <2>2, <2>3, <2>4
<1>7. RoutesOK(plan.routes)
    <2>1. PICK routes : PlannedWith(routes)
        BY <1>1 DEF PlanningInv, PlanOK
    <2> QED
        BY <1>1, <2>1, PlannedTogether
<1> QED
    BY <1>5, <1>6, <1>7, CleanMeans DEF Problems

LEMMA CarvingLeaves == ASSUME PlanningInv, CarveOut PROVE LeftOK'
<1>1. phase' = "assign" /\ UNCHANGED <<world, head>>
    BY DEF CarveOut
<1>2. Started' = Started /\ \A r : Kept(r)' = Kept(r)
    BY <1>1, HeadStays DEF Phases
<1>3. \A r : Consumed(r)' = Consumed(r)
    BY <1>2 DEF Consumed
<1> DEFINE ff == [f \in DOMAIN world.fitters |-> UNION {{Consumed(r)} : r \in {q \in Started : f \in q.crew}}]
           vv == [v \in DOMAIN world.vans |-> UNION {{Consumed(r)} : r \in {q \in Started : v = q.van}}]
           js == [j \in DOMAIN world.jobs \ Gone |-> world.jobs[j]]
<1>4. left' = [world EXCEPT
                 !.jobs = js,
                 !.fitters = [f \in DOMAIN world.fitters |-> [world.fitters[f] EXCEPT !.outages = @ \cup ff[f]]],
                 !.vans = [v \in DOMAIN world.vans |-> [world.vans[v] EXCEPT !.outages = @ \cup vv[v]]]]
    BY DEF CarveOut, Started, Gone
<1>5. /\ \A f \in DOMAIN world.fitters : ff[f] = {Consumed(r) : r \in {q \in Started : f \in q.crew}}
      /\ \A v \in DOMAIN world.vans : vv[v] = {Consumed(r) : r \in {q \in Started : v = q.van}}
    OBVIOUS
<1> HIDE DEF ff, vv, js
<1>6. IsWorld(world, 1..Days)
    BY DEF PlanningInv, HeadOK
<1>7. /\ left'.delays = world.delays
      /\ left'.fitters = [f \in DOMAIN world.fitters |-> [world.fitters[f] EXCEPT !.outages = @ \cup ff[f]]]
      /\ left'.vans = [v \in DOMAIN world.vans |-> [world.vans[v] EXCEPT !.outages = @ \cup vv[v]]]
    BY <1>4, <1>6 DEF IsWorld
<1>8. ASSUME NEW f \in DOMAIN world.fitters
      PROVE  /\ left'.fitters[f].shift = world.fitters[f].shift /\ left'.fitters[f].certs = world.fitters[f].certs
             /\ left'.fitters[f].eligible = world.fitters[f].eligible
             /\ left'.fitters[f].outages = world.fitters[f].outages \cup ff[f]
    <2>1. PICK g : g = world.fitters[f]
        OBVIOUS
    <2>2. PICK h : h = left'.fitters[f]
        OBVIOUS
    <2>3. IsFitter(g, 1..Days)
        BY <1>6, <2>1 DEF IsWorld
    <2>4. h = [g EXCEPT !.outages = g.outages \cup ff[f]]
        BY <1>7, <2>1, <2>2
    <2>5. h.shift = g.shift /\ h.certs = g.certs /\ h.eligible = g.eligible /\ h.outages = g.outages \cup ff[f]
        BY <2>3, <2>4 DEF IsFitter
    <2> QED
        BY <2>1, <2>2, <2>5
<1>9. ASSUME NEW v \in DOMAIN world.vans
      PROVE  left'.vans[v].room = world.vans[v].room /\ left'.vans[v].outages = world.vans[v].outages \cup vv[v]
    <2>1. PICK g : g = world.vans[v]
        OBVIOUS
    <2>2. PICK h : h = left'.vans[v]
        OBVIOUS
    <2>3. IsVan(g)
        BY <1>6, <2>1 DEF IsWorld
    <2>4. h = [g EXCEPT !.outages = g.outages \cup vv[v]]
        BY <1>7, <2>1, <2>2
    <2>5. h.room = g.room /\ h.outages = g.outages \cup vv[v]
        BY <2>3, <2>4 DEF IsVan
    <2> QED
        BY <2>1, <2>2, <2>5
<1>10. DOMAIN left'.fitters = DOMAIN world.fitters /\ DOMAIN left'.vans = DOMAIN world.vans
    BY <1>7
<1> QED
    BY <1>1, <1>2, <1>3, <1>5, <1>7, <1>8, <1>9, <1>10 DEF LeftOK

LEMMA LeftStays ==
    ASSUME PlanningInv, LeftOK, UNCHANGED <<world, head, left>>, phase # "start", phase' \in Phases
    PROVE  LeftOK'
<1>1. Started' = Started /\ \A r : Kept(r)' = Kept(r)
    BY HeadStays
<1>2. \A r : Consumed(r)' = Consumed(r)
    BY <1>1 DEF Consumed
<1> QED
    BY <1>1, <1>2 DEF LeftOK

LEMMA HeadSoundStays ==
    ASSUME HeadSound, UNCHANGED <<world, head, late>>
    PROVE  HeadSound'
BY DEF HeadSound

\* A head the check has accepted is sound, also once its first crew is out.
LEMMA DepartSound ==
    ASSUME SoundInv, NEW j \in DOMAIN world.jobs, NEW trouble \in Troubles, Depart(j, trouble)
    PROVE  HeadSound'
<1>1. phase = "planned" /\ head' = plan.routes /\ late' = late /\ Problems = {}
    BY DEF Depart
<1>2. Exclusive(plan.routes) /\ \A r \in plan.routes : Sound(world, late, r)
    BY <1>1, CleanTells DEF Problems
<1>3. /\ PlanningInv /\ ResultsOK /\ HeadSound
      /\ plan.routes = carried \cup Routed /\ carried = {Kept(r) : r \in Started}
      /\ IsWorld(world, 1..Days) /\ IsWorld(left, 1..Days)
    BY <1>1 DEF SoundInv, PlanIsRouted, PlanningInv, CarveOK, HeadOK
<1>4. \A r \in plan.routes : RouteTyped(r)
    <2>1. PICK routes : PlannedWith(routes)
        BY <1>1, <1>3 DEF PlanningInv, PlanOK
    <2> QED
        BY <1>1, <1>3, <2>1, PlannedTogether
<1>5. ASSUME NEW b \in carried PROVE b.day \in 1..Days /\ 0 <= Span(b)[1]
    <2>1. PICK r \in Started : b = Kept(r)
        BY <1>3
    <2>2. r \in head /\ Prefix(r) # <<>> /\ RouteTyped(r)
        BY <1>3 DEF Started, PlanningInv, HeadOK
    <2>3. PICK n, m : Begins(b, r, n, m)
        BY <2>1, <2>2, KeptBegins
    <2>4. Span(b)[1] = Span(r)[1] /\ r.stops # <<>>
        BY <2>3, BeginsSpan
    <2>5. b.day = r.day
        BY <2>3 DEF Begins
    <2> QED
        BY <1>3, <2>2, <2>4, <2>5 DEF HeadSound
<1>6. ASSUME NEW b \in Routed PROVE b.day \in 1..Days /\ 0 <= Span(b)[1]
    <2>1. PICK d \in DOMAIN results : b \in results[d].routes
        BY DEF Routed
    <2>2. d \in 1..Days /\ d \in Int
        BY <1>3 DEF ResultsOK
    <2>3. PICK today : results[d] \in PlanDay(left, d, today, {}, late)
        BY <1>3 DEF ResultsOK
    <2>4. IsFiniteSet(DOMAIN left.vans) /\ IsFiniteSet(DOMAIN left.jobs)
        BY <1>3 DEF IsWorld
    <2>5. PICK result : result = results[d]
        OBVIOUS
    <2>6. \A r \in result.routes : r.day = d
        BY <2>3, <2>4, <2>5, PlanDayMeans
    <2>7. \A r \in result.routes : 0 <= Span(r)[1]
        BY <1>3, <2>2, <2>3, <2>5, PlanDayStarts
    <2> QED
        BY <2>1, <2>2, <2>5, <2>6, <2>7
<1>7. PICK w : w = world
    OBVIOUS
<1>8. PICK next : next = world'
    OBVIOUS
<1>9. DepartsTo(w, next, j, trouble)
    <2>1. PICK vans : vans = [v \in DOMAIN world.vans |-> [world.vans[v] EXCEPT !.outages = @ \cup trouble]]
        OBVIOUS
    <2>2. next = [w EXCEPT !.jobs[j].state = "dispatched", !.vans = vans]
        BY <1>7, <1>8, <2>1 DEF Depart
    <2>3. /\ DOMAIN next = DOMAIN w /\ next.vans = vans /\ next.delays = w.delays /\ next.fitters = w.fitters
          /\ next.jobs = [w.jobs EXCEPT ![j].state = "dispatched"]
        BY <1>3, <1>7, <2>2 DEF IsWorld
    <2>4. vans = [v \in DOMAIN w.vans |-> [w.vans[v] EXCEPT !.outages = @ \cup trouble]]
        BY <1>7, <2>1
    <2> QED
        BY <2>3, <2>4 DEF DepartsTo
<1>10. /\ IsWorld(w, 1..Days) /\ IsWorld(next, 1..Days) /\ j \in DOMAIN w.jobs
       /\ \A k \in DOMAIN w.jobs \ {j} : next.jobs[k] = w.jobs[k]
       /\ DOMAIN next.jobs = DOMAIN w.jobs
    <2>1. trouble \in SUBSET [from : Int, until : Int] /\ IsWorld(w, 1..Days) /\ j \in DOMAIN w.jobs
        BY <1>3, <1>7, PlanningConstants
    <2>2. /\ IsWorld(next, 1..Days) /\ DOMAIN next.jobs = DOMAIN w.jobs
          /\ \A k \in DOMAIN w.jobs \ {j} : next.jobs[k] = w.jobs[k]
        BY <1>9, <2>1, DepartedWorld
    <2> QED
        BY <2>1, <2>2
<1>11. ASSUME NEW k \in DOMAIN w.jobs
       PROVE  /\ next.jobs[k].at = w.jobs[k].at /\ next.jobs[k].dur = w.jobs[k].dur
              /\ next.jobs[k].crew = w.jobs[k].crew /\ next.jobs[k].certs = w.jobs[k].certs
              /\ next.jobs[k].ready = w.jobs[k].ready /\ next.jobs[k].load = w.jobs[k].load
              /\ next.jobs[k].windows = w.jobs[k].windows /\ next.jobs[k].requested = w.jobs[k].requested
              /\ next.jobs[k].state = w.jobs[k].state \/ next.jobs[k].state = "dispatched"
    <2>1. CASE k # j
        BY <1>10, <2>1
    <2>2. CASE k = j
        <3>1. PICK a, b : a = w.jobs[j] /\ b = next.jobs[j]
            OBVIOUS
        <3>2. b = [a EXCEPT !.state = "dispatched"]
            BY <1>9, <1>10, <3>1 DEF DepartsTo
        <3>3. IsJob(a)
            BY <1>10, <3>1 DEF IsWorld
        <3>4. /\ b.at = a.at /\ b.dur = a.dur /\ b.crew = a.crew /\ b.certs = a.certs /\ b.ready = a.ready
              /\ b.load = a.load /\ b.windows = a.windows /\ b.requested = a.requested /\ b.state = "dispatched"
            BY <3>2, <3>3 DEF IsJob
        <3> QED
            BY <2>2, <3>1, <3>4
    <2> QED
        BY <2>1, <2>2
<1>12. Alike(w, next)
    <2>1. DOMAIN next.vans = DOMAIN w.vans /\ \A v \in DOMAIN w.vans : next.vans[v].room = w.vans[v].room
        <3>1. next.vans = [v \in DOMAIN w.vans |-> [w.vans[v] EXCEPT !.outages = @ \cup trouble]]
            BY <1>9 DEF DepartsTo
        <3>2. ASSUME NEW v \in DOMAIN w.vans PROVE next.vans[v].room = w.vans[v].room
            <4>1. IsVan(w.vans[v])
                BY <1>10 DEF IsWorld
            <4>2. next.vans[v] = [w.vans[v] EXCEPT !.outages = w.vans[v].outages \cup trouble]
                BY <3>1
            <4> QED
                BY <4>1, <4>2 DEF IsVan
        <3> QED
            BY <3>1, <3>2
    <2>2. next.delays = w.delays /\ next.fitters = w.fitters
        BY <1>9 DEF DepartsTo
    <2> QED
        BY <1>10, <1>11, <2>1, <2>2 DEF Alike
<1>13. ASSUME NEW r \in plan.routes PROVE Sound(next, late, r)
    <2>1. Sound(w, late, r) /\ RouteTyped(r)
        BY <1>2, <1>4, <1>7
    <2>2. ASSUME NEW i \in DOMAIN r.stops PROVE Windowed(next, r, i)
        <3>1. Windowed(w, r, i) /\ r.stops[i].job \in DOMAIN w.jobs
            BY <2>1 DEF Sound, Knows
        <3>2. PICK a, b : a = w.jobs[r.stops[i].job] /\ b = next.jobs[r.stops[i].job]
            OBVIOUS
        <3>3. b.windows = a.windows /\ b.requested = a.requested /\ (b.state = a.state \/ b.state = "dispatched")
            BY <1>11, <3>1, <3>2
        <3>4. MatchesWindow(a, r.stops[i], r.day, FALSE) => MatchesWindow(b, r.stops[i], r.day, FALSE)
            BY <3>3 DEF MatchesWindow
        <3> QED
            BY <3>1, <3>2, <3>3, <3>4 DEF Windowed
    <2> QED
        BY <1>10, <1>12, <2>1, <2>2, SoundElsewhere
<1>14. \A r \in head' : /\ Sound(world', late', r) /\ r.day \in 1..Days /\ (r.stops # <<>> => 0 <= Span(r)[1])
    BY <1>1, <1>3, <1>5, <1>6, <1>8, <1>13
<1> QED
    BY <1>1, <1>2, <1>14 DEF HeadSound

LEMMA SoundStarts == ASSUME NobodyOut PROVE Init => SoundInv
<1> SUFFICES ASSUME Init PROVE SoundInv
    OBVIOUS
<1>1. PlanningInv
    BY PlanningStarts
<1>2. ResultsOK /\ LeftOK /\ HeadSound /\ PlanIsRouted
    BY DEF Init, ResultsOK, LeftOK, HeadSound, PlanIsRouted, Exclusive
<1> QED
    BY <1>1, <1>2 DEF SoundInv

LEMMA SoundKept == ASSUME NobodyOut, SoundInv, PlanningInv', [Next]_vars PROVE SoundInv'
<1>1. PlanningInv /\ ResultsOK /\ LeftOK /\ HeadSound /\ phase \in Phases
    BY DEF SoundInv, PlanningInv, HeadOK
<1>2. ResultsOK'
    BY <1>1, ResultsKept
<1>3. CASE CarveOut
    <2>1. LeftOK'
        BY <1>1, <1>3, CarvingLeaves
    <2>2. HeadSound' /\ PlanIsRouted'
        <3>1. UNCHANGED <<world, head, late>> /\ phase' = "assign"
            BY <1>3 DEF CarveOut
        <3> QED
            BY <1>1, <3>1, HeadSoundStays DEF PlanIsRouted
    <2> QED
        BY <1>2, <2>1, <2>2 DEF SoundInv
<1>4. CASE AssignDays \/ RouteDay \/ NextRound \/ Finish
    <2>1. UNCHANGED <<world, head, late, left>> /\ phase # "start" /\ phase' \in Phases
        BY <1>4 DEF AssignDays, RouteDay, NextRound, Finish, Phases
    <2>2. LeftOK' /\ HeadSound'
        BY <1>1, <2>1, LeftStays, HeadSoundStays
    <2>3. PlanIsRouted'
        <3>1. CASE AssignDays \/ RouteDay \/ NextRound
            <4>1. phase' # "planned"
                BY <3>1 DEF AssignDays, RouteDay, NextRound
            <4> QED
                BY <4>1 DEF PlanIsRouted
        <3>2. CASE Finish
            <4>1. UNCHANGED <<carried, results>>
                BY <3>2 DEF Finish
            <4>2. Routed' = Routed
                BY <4>1 DEF Routed
            <4>3. /\ plan'.routes = carried \cup Routed
                  /\ plan'.released = UNION {results[d].released : d \in DOMAIN results}
                BY <3>2 DEF Finish
            <4> QED
                BY <4>1, <4>2, <4>3 DEF PlanIsRouted
        <3> QED
            BY <1>4, <3>1, <3>2
    <2> QED
        BY <1>2, <2>2, <2>3 DEF SoundInv
<1>5. ASSUME NEW j \in DOMAIN world.jobs, NEW trouble \in Troubles, Depart(j, trouble) PROVE SoundInv'
    <2>1. HeadSound'
        BY <1>5, DepartSound
    <2>2. phase' = "start"
        BY <1>5 DEF Depart
    <2>3. LeftOK' /\ PlanIsRouted'
        BY <2>2 DEF LeftOK, PlanIsRouted
    <2> QED
        BY <1>2, <2>1, <2>3 DEF SoundInv
<1>6. CASE UNCHANGED vars
    <2>1. UNCHANGED <<world, head, late, left, phase, carried, results, plan>>
        BY <1>6 DEF vars
    <2>2. LeftOK'
        <3>1. CASE phase = "start"
            BY <2>1, <3>1 DEF LeftOK
        <3>2. CASE phase # "start"
            <4>1. phase' \in Phases
                BY <1>1, <2>1
            <4> QED
                BY <1>1, <2>1, <3>2, <4>1, LeftStays
        <3> QED
            BY <3>1, <3>2
    <2>3. HeadSound'
        BY <1>1, <2>1, HeadSoundStays
    <2>4. PlanIsRouted'
        <3>1. Routed' = Routed
            BY <2>1 DEF Routed
        <3> QED
            BY <2>1, <3>1 DEF SoundInv, PlanIsRouted
    <2> QED
        BY <1>2, <2>2, <2>3, <2>4 DEF SoundInv
<1> QED
    BY <1>3, <1>4, <1>5, <1>6 DEF Next

\* The plans made within the planner's approximations pass the checks the
\* checker makes of them (validate_plan), the first and every one after a
\* crew has left and something has broken: for any week, fleet and bands.
THEOREM PlansPass ==
    ASSUME NobodyOut
    PROVE  Spec => []PlanPassesTheChecker
<1>1. Init => SoundInv
    BY SoundStarts
<1>2. SoundInv /\ PlanningInv' /\ [Next]_vars => SoundInv'
    BY SoundKept
<1>3. Spec => []PlanningInv
    BY PlanningIsKept
<1>4. SoundInv => PlanPassesTheChecker
    BY PlannedSound DEF PlanPassesTheChecker
<1> QED
    BY <1>1, <1>2, <1>3, <1>4, PTL DEF Spec
==============================================================================
