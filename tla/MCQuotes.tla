------------------------------ MODULE MCQuotes --------------------------------
(***************************************************************************)
(* One fitter or two, a van, and three days of twelve minutes, the second  *)
(* of them off; a job booked for the first, and the ways a caller may be   *)
(* understood.                                                             *)
(***************************************************************************)
EXTENDS Quotes

MCEasing == <<[from |-> 0, until |-> 5, probe |-> 2, leg |-> 2],
              [from |-> 5, until |-> 12, probe |-> 8, leg |-> 1]>>

MCCatalogue == "window" :> [dur |-> 2, perPane |-> 1, crew |-> 1, certs |-> {}, seals |-> 1]
               @@ "storefront" :> [dur |-> 3, perPane |-> 1, crew |-> 2, certs |-> {"storefront"}, seals |-> 0]
               @@ "windscreen" :> [dur |-> 2, perPane |-> 1, crew |-> 1, certs |-> {}, seals |-> 0]
MCMap == "door" :> [at |-> "west", named |-> FALSE, said |-> TRUE]
         @@ "shop" :> [at |-> "east", named |-> TRUE, said |-> FALSE]
         @@ "haslet" :> [at |-> "west", named |-> FALSE, said |-> FALSE]
MCWeights == "leave" :> 3 @@ "waiting" :> 2

Fitter == [certs |-> {"storefront"}, shift |-> <<<<1, 9>>, <<>>, <<1, 9>>>>, eligible |-> TRUE,
           outages |-> {}, kept |-> <<0, 0, 0>>]
Hand == [Fitter EXCEPT !.certs = {}, !.eligible = FALSE]
Booked == [at |-> "east", dur |-> 2, crew |-> 1, certs |-> {}, state |-> "confirmed",
           windows |-> <<[from |-> 2, until |-> 6, hard |-> FALSE]>>, ready |-> 1,
           requested |-> -1, load |-> [panes |-> 1, seal |-> 0], claim |-> <<>>]

W(job, people) ==
    [jobs |-> [j1 |-> job], fitters |-> people,
     vans |-> [v1 |-> [room |-> [panes |-> 5, seal |-> 2], outages |-> {}]], delays |-> {}]

One == [f1 |-> Fitter]
Two == [f1 |-> Fitter, f2 |-> Hand]

MCDiaries == {W(Booked, One), W([Booked EXCEPT !.state = "provisional"], One),
              W([Booked EXCEPT !.windows = <<>>], One), W([Booked EXCEPT !.state = "cancelled"], Two)}

Said == [name |-> "Ani", phone |-> "913-295-2960", address |-> "door", service |-> "window",
         panes |-> Unsaid, glass |-> "annealed", earliest |-> Unsaid, latest |-> Unsaid,
         days |-> {}, signals |-> {}, quotes |-> {}]
Words == [after |-> Unsaid, comeAt |-> Unsaid, before |-> Unsaid, only |-> {},
          measured |-> FALSE, counted |-> FALSE, arranged |-> {}]

C(call, text) == [call |-> call, text |-> text]

MCCalls ==
    {C(Said, Words),
     \* "after 4pm" heard as finish by four, or as both ends
     C([Said EXCEPT !.latest = 3], [Words EXCEPT !.after = 3]),
     C([Said EXCEPT !.earliest = 3, !.latest = 3], [Words EXCEPT !.after = 3]),
     \* "the morning" heard as six, and "after 6am" said
     C([Said EXCEPT !.earliest = 0], Words),
     C([Said EXCEPT !.earliest = 0], [Words EXCEPT !.after = 0]),
     \* the same, from 45 Elm Street, and from somebody who says to come early
     C([Said EXCEPT !.earliest = 0], [Words EXCEPT !.after = Unparsed]),
     C([Said EXCEPT !.earliest = 3], [Words EXCEPT !.comeAt = 0]),
     \* "after 4pm" as finish by four, and the flat is by 30 Elm Street
     C([Said EXCEPT !.latest = 3], [Words EXCEPT !.after = 3, !.before = Unparsed]),
     \* "before we open" heard the wrong way round
     C([Said EXCEPT !.earliest = 3], [Words EXCEPT !.before = 2]),
     C([Said EXCEPT !.latest = 3], [Words EXCEPT !.before = 3, !.only = {3}]),
     \* a size heard as a count, glass to be cut, and two fitters' work
     C([Said EXCEPT !.panes = 4], [Words EXCEPT !.measured = TRUE]),
     C([Said EXCEPT !.glass = "tempered", !.panes = 2], [Words EXCEPT !.counted = TRUE]),
     C([Said EXCEPT !.service = "storefront", !.address = "shop"], Words),
     \* nobody to ring, nowhere to go, nothing sold
     C([Said EXCEPT !.phone = "n/a"], Words),
     C([Said EXCEPT !.phone = "894892894"], Words),
     C([Said EXCEPT !.address = "haslet"], Words),
     C([Said EXCEPT !.address = "nowhere"], Words),
     C([Said EXCEPT !.service = "plumbing"], Words),
     C([Said EXCEPT !.service = "windscreen"], Words),
     \* a receipt invented, and one of two
     C([Said EXCEPT !.signals = {"leave"}, !.quotes = {"time off work"}], Words),
     C([Said EXCEPT !.signals = {"leave", "waiting"}, !.quotes = {"time off work", "be in"},
                    !.days = {1, 2, 3}], [Words EXCEPT !.arranged = {"be in"}])}

\* Before work, during the first day, and within the lead of midnight.
MCNows == {0, 3, 5, 11}

\* Steady traffic, and a day on which the caller fits only if another customer's promise gives way.
MCSteady == <<[from |-> 0, until |-> 12, probe |-> 6, leg |-> 2]>>
MCFullDiary == {W([Booked EXCEPT !.windows = <<[from |-> 4, until |-> 7, hard |-> FALSE]>>], One)}
MCAnyTime == {C([Said EXCEPT !.address = "shop", !.panes = 2, !.earliest = 1],
                  [Words EXCEPT !.counted = TRUE, !.after = 1])}
=============================================================================
