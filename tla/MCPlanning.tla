----------------------------- MODULE MCPlanning ------------------------------
(***************************************************************************)
(* Two jobs, two fitters, two vans and two days of ten minutes: one world  *)
(* in which both jobs just fit, and the worlds that differ from it in the  *)
(* jobs, in the people and vans, or on the road.                           *)
(***************************************************************************)
EXTENDS Planning

\* Traffic that eases.
MCEasing == <<[from |-> 0, until |-> 4, probe |-> 2, leg |-> 2],
              [from |-> 4, until |-> 10, probe |-> 7, leg |-> 1]>>

Job == [at |-> "east", dur |-> 2, crew |-> 1, certs |-> {}, windows |-> <<>>, state |-> "provisional",
        ready |-> 1, requested |-> -1, load |-> [panes |-> 1, seal |-> 0], claim |-> <<>>]
West == [Job EXCEPT !.at = "west"]
Win(from, until, hard) == [from |-> from, until |-> until, hard |-> hard]

Fitter == [certs |-> {"storefront"}, shift |-> <<<<1, 8>>, <<1, 8>>>>, eligible |-> TRUE,
           outages |-> {}, kept |-> <<0, 0>>]
Hand == [Fitter EXCEPT !.certs = {}]
VanRecord == [room |-> [panes |-> 2, seal |-> 1], outages |-> {}]

W(j1, j2, people, fleet, delays) ==
    [jobs |-> [j1 |-> j1, j2 |-> j2], fitters |-> people, vans |-> fleet, delays |-> delays]

One == [f1 |-> Fitter]
Two == [f1 |-> Fitter, f2 |-> Hand]
V1 == [v1 |-> VanRecord]
V2 == [v1 |-> VanRecord, v2 |-> VanRecord]

\* What else the second job may be.
Variants ==
    {West,
     [West EXCEPT !.windows = <<Win(0, 4, TRUE)>>],
     [West EXCEPT !.windows = <<Win(0, 5, TRUE)>>],
     [West EXCEPT !.windows = <<Win(5, 8, FALSE)>>],
     [West EXCEPT !.windows = <<Win(2, 4, FALSE)>>, !.state = "confirmed"],
     [West EXCEPT !.windows = <<Win(5, 7, FALSE)>>, !.state = "confirmed"],
     [West EXCEPT !.windows = <<Win(15, 18, TRUE)>>],
     [West EXCEPT !.windows = <<Win(2, 3, TRUE)>>],
     [West EXCEPT !.windows = <<Win(2, 3, TRUE), Win(5, 8, FALSE)>>],
     [West EXCEPT !.crew = 2],
     [West EXCEPT !.crew = 2, !.certs = {"storefront"}],
     [West EXCEPT !.certs = {"storefront"}],
     [West EXCEPT !.ready = 2],
     [West EXCEPT !.ready = 3],
     [West EXCEPT !.load = [panes |-> 2, seal |-> 1]],
     [West EXCEPT !.claim = <<"f2", 1>>],
     [West EXCEPT !.dur = 3]}

Simple == {W(Job, j, One, V1, {}) : j \in Variants}
Crews == {W(Job, j, Two, V1, {}) : j \in {x \in Variants : x.crew = 2 \/ x.certs # {} \/ x.claim # <<>>}}

\* Who may be out, kept late or unwilling to stay, and what may be slow.
Gone(from, until) == {[from |-> from, until |-> until]}
People ==
    {[f1 |-> [Fitter EXCEPT !.outages = Gone(3, 5)]],
     [f1 |-> [Fitter EXCEPT !.outages = Gone(0, 10)]],
     [f1 |-> [Fitter EXCEPT !.outages = Gone(8, 13)]],
     [f1 |-> [Fitter EXCEPT !.kept = <<9, 0>>]],
     [f1 |-> [Fitter EXCEPT !.eligible = FALSE]],
     [f1 |-> [Fitter EXCEPT !.shift = <<<<>>, <<1, 8>>>>]]}
Fleets == {[v1 |-> [VanRecord EXCEPT !.outages = Gone(0, 4)]],
           [v1 |-> [VanRecord EXCEPT !.outages = Gone(-5, 10)]],
           V2}
Slow == {[from |-> 0, until |-> 4, origin |-> "east", dest |-> Anywhere, times |-> 2],
         [from |-> 0, until |-> 20, origin |-> Anywhere, dest |-> "west", times |-> 3]}

Absences == {W(Job, West, people, V1, {}) : people \in People}
               \cup {W(Job, West, One, fleet, {}) : fleet \in Fleets}
               \cup {W(Job, West, One, V1, {delay}) : delay \in Slow}

MCWorlds == Simple \cup Crews \cup Absences
MCFollowed == {W(Job, West, One, V1, {}),
               W(Job, [West EXCEPT !.windows = <<Win(5, 7, FALSE)>>, !.state = "confirmed"], One, V1, {}),
               W(Job, West, [f1 |-> [Fitter EXCEPT !.kept = <<9, 0>>]], V1, {}),
               W(Job, [West EXCEPT !.claim = <<"f2", 1>>], Two, V1, {})}

\* The van may break down in the afternoon, under its crew or not.
MCTroubles == {{}, Gone(6, 10)}
=============================================================================
