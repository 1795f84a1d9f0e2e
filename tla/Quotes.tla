-------------------------------- MODULE Quotes --------------------------------
(***************************************************************************)
(* A call becomes priced slots (run_intake in api/main.py, booking_slots   *)
(* in service.py, scheduler/booking.py): every working day of a horizon is *)
(* solved as it stands and again with the caller's job in it, and the      *)
(* difference is what serving the caller that day costs.  A caller who     *)
(* asked for the afternoon is also shown what the morning would cost.      *)
(*                                                                         *)
(* One request is one thread and one world; its steps are the days it      *)
(* solves.  A calendar is at most a week, so that a day is its weekday.    *)
(***************************************************************************)
EXTENDS Agreement, Costing, Intake

CONSTANTS Calls,         \* [call, text]: what the model may make of which words
          Diaries,       \* the worlds there are
          Nows,          \* the moments a call may come in
          Calendar,      \* days there are
          HorizonDays,   \* working days that are offered
          HourLen,       \* minutes in an hour
          Noon,          \* the hour from which a wish is one for the afternoon
          Lead,          \* the warning a crew needs before a job of the same day
          QuotedWindow,  \* minutes in which a customer is told to expect the crew
          Limit, FlexibleLimit  \* slots that are shown, and cheaper ones beside them

ASSUME QuotesConstants ==
    /\ Calendar \in 1..7 /\ {HorizonDays, HourLen, QuotedWindow, Limit, FlexibleLimit} \subseteq Nat \ {0}
    /\ PerMinute = 1  \* everything happens on the minute
    /\ HourLen * (LastHour + 1) <= Minutes /\ Quarter <= QuotedWindow /\ Lead \in Nat
    /\ Nows \subseteq Nat /\ Goods = {"panes", "seal"}
    /\ \A c \in Calls : IsCall(c.call) /\ IsText(c.text)
    /\ \A w \in Diaries : IsWorld(w, 1..Calendar) /\ "draft" \notin DOMAIN w.jobs

VARIABLES world, now, said,
          phase,     \* "call", "search", "cut", "offered", "asked", "failed"
          relaxed,   \* the search is for the cheaper slots beside the asked ones
          due,       \* the days still to be solved
          known,     \* the baseline cache, [<<day, jobs>> -> baseline]
          trial,     \* the last day solved with the job in it
          slots,     \* what this search has found
          refused,   \* [day -> reason], this search
          offer      \* [asked, flexible] once the search is over

vars == <<world, now, said, phase, relaxed, due, known, trial, slots, refused, offer>>

NoTrial == [day |-> 0, routes |-> {}, released |-> {}, before |-> {}, promised |-> {}]
NoOffer == [asked |-> {}, flexible |-> {}]

Init ==
    /\ world \in Diaries /\ now \in Nows /\ said \in Calls
    /\ phase = "call" /\ relaxed = FALSE /\ due = {} /\ known = <<>>
    /\ trial = NoTrial /\ slots = {} /\ refused = <<>> /\ offer = NoOffer

-----------------------------------------------------------------------------
(* What is searched, and where.                                            *)

Call == Heard(said.call, said.text)

Day(moment) == (moment \div Minutes) + 1
Moment(d, t) == (d - 1) * Minutes + t

Draft ==
    LET estimate == Estimate(Call)
    IN [at |-> Map[Call.address].at, dur |-> estimate.dur, crew |-> estimate.crew,
        certs |-> estimate.certs, windows |-> <<>>, state |-> "draft",
        ready |-> Day(now) + estimate.lead, requested |-> now,
        load |-> [panes |-> Panes(Call), seal |-> estimate.seals], claim |-> <<>>]

\* A caller who stated nothing gets civil hours.
EarliestHour ==
    IF relaxed \/ (Call.earliest = Unsaid /\ Call.latest = Unsaid) THEN CivilHour ELSE Call.earliest
LatestHour == IF relaxed THEN Unsaid ELSE Call.latest

Rostered == {d \in 1..Calendar : \E f \in DOMAIN world.fitters : world.fitters[f].shift[d] # <<>>}

NextWorkingDay(d) == IF \E r \in Rostered : r >= d THEN Min({r \in Rostered : r >= d}) ELSE d

\* Minutes into its day at which the lead is over: past midnight, of the next.
NotBefore == now + Lead

\* Today is on the table while a job could still start, run and finish.
TodayWorks ==
    LET here == {f \in DOMAIN world.fitters : world.fitters[f].shift[Day(now)] # <<>>}
        ends == {world.fitters[f].shift[Day(now)][2] + (IF world.fitters[f].eligible THEN Overtime ELSE 0) :
                   f \in here}
    IN here # {} /\ (NotBefore % Minutes) + Draft.dur <= Max(ends)

Opening == NextWorkingDay(IF TodayWorks THEN Day(now) ELSE Day(now) + 1)

\* The first working days that the caller can do.
Horizon ==
    LET wanted == IF Call.days = {} THEN Rostered ELSE Call.days
        days == {d \in Rostered \cap wanted : d >= Opening}
    IN {d \in days : Cardinality({e \in days : e < d}) < HorizonDays}

\* Mutant of Floor: nothing tells the search what time it is.
NoFloor(d) == {}

\* Now is a constraint on the day it is on.
Floor(d) == IF Day(NotBefore) = d THEN {NotBefore} ELSE {}

Opens(d) == Max({Moment(d, IF EarliestHour = Unsaid THEN 0 ELSE EarliestHour * HourLen)} \cup Floor(d))

\* The last minute of the hour; midnight is taken for no hour at all.
Closes(d) ==
    Moment(d, (IF LatestHour \in {Unsaid, 0} THEN LastHour ELSE LatestHour) * HourLen + HourLen - 1)

\* The job with the caller's hours as a preference for the day.
Wanted(d) == [Draft EXCEPT !.windows = <<[from |-> Opens(d), until |-> Closes(d), hard |-> FALSE]>>]

With(job) == [world EXCEPT !.jobs = Put(world.jobs, "draft", job)]

\* The work with a window on the day; what has none is not held to any.
Existing(d) ==
    {j \in DOMAIN world.jobs :
        /\ Active(world.jobs[j]) /\ world.jobs[j].state # "dispatched"
        /\ \E win \in ToSet(world.jobs[j].windows) : Day(win.from) <= d /\ d <= Day(win.until)}

-----------------------------------------------------------------------------
(* The search.                                                             *)

\* Something is still to be asked, or the work is not sold.
AskTheCaller ==
    /\ phase = "call" /\ ~Bookable(Call)
    /\ phase' = "asked"
    /\ UNCHANGED <<world, now, said, relaxed, due, known, trial, slots, refused, offer>>

OpenTheSearch ==
    /\ phase = "call" /\ Bookable(Call)
    /\ phase' = "search" /\ due' = Horizon
    /\ UNCHANGED <<world, now, said, relaxed, known, trial, slots, refused, offer>>

\* The day as it stands, from the cache if it was solved before.
Baselines(d) ==
    LET key == <<d, Existing(d)>>
    IN IF key \in DOMAIN known THEN {known[key]}
       ELSE {[served |-> Stopped(p.routes), kept |-> Stopped(p.routes) \ p.released,
              cost |-> Total(OperatingCost, world, p.routes),
              overtime |-> Total(OvertimeMinutes, world, p.routes)] :
                p \in PlanDay(world, d, Existing(d), {}, TRUE)}

\* Mutant of Locked: only the caller's own job has to be served.
LockedDraft(before) == {"draft"}

\* "Everything already placed stays placed", and the draft is locked too.
Locked(before) == before.served \cup {"draft"}

\* Mutant of QuotedFrom: rounded up to the quarter hour.
NextQuarter(arrive) == arrive + ((-arrive) % Quarter)

\* Customers are told a time on the quarter hour, and a window that opens then.
QuotedFrom(arrive) == arrive - (arrive % Quarter)

Slot(d, routes, before) ==
    LET stop == CHOOSE s \in UNION {ToSet(r.stops) : r \in routes} : s.job = "draft"
        overtime == Later(0, Total(OvertimeMinutes, With(Draft), routes) - before.overtime)
    IN [day |-> d, arrive |-> stop.arrive, opens |-> QuotedFrom(stop.arrive),
        cost |-> Later(0, Total(OperatingCost, With(Draft), routes) - before.cost),
        total |-> QuoteTotal(Draft, overtime)]

SolveDay ==
    /\ phase = "search" /\ due # {} /\ Opens(Min(due)) < Closes(Min(due))
    /\ LET d == Min(due)
       IN \E before \in Baselines(d) :
          \E result \in PlanDay(With(Wanted(d)), d, Existing(d) \cup {"draft"}, Locked(before), TRUE) :
            /\ known' = Put(known, <<d, Existing(d)>>, before)
            /\ trial' = [day |-> d, routes |-> result.routes, released |-> result.released,
                         before |-> before.served, promised |-> before.kept]
            /\ IF "draft" \in Stopped(result.routes)
               THEN slots' = slots \cup {Slot(d, result.routes, before)} /\ UNCHANGED refused
               ELSE refused' = Put(refused, d, result.unserved["draft"]) /\ UNCHANGED slots
    /\ due' = due \ {Min(due)}
    /\ UNCHANGED <<world, now, said, phase, relaxed, offer>>

\* Hours that contradict each other are no window, and end the request.
NoSuchWindow ==
    /\ phase = "search" /\ due # {} /\ Opens(Min(due)) >= Closes(Min(due))
    /\ phase' = "failed"
    /\ UNCHANGED <<world, now, said, relaxed, due, known, trial, slots, refused, offer>>

ByCost(s, t) == s.cost < t.cost \/ (s.cost = t.cost /\ s.day < t.day)

\* What makes the cut; the order in which it is read out is left aside.
Cheapest(n) == {s \in slots : Cardinality({t \in slots : ByCost(t, s)}) < n}

Cut ==
    /\ phase = "search" /\ due = {} /\ ~relaxed
    /\ offer' = [offer EXCEPT !.asked = Cheapest(Limit)]
    /\ phase' = IF slots # {} /\ Call.earliest # Unsaid /\ Call.earliest >= Noon THEN "cut" ELSE "offered"
    /\ trial' = NoTrial
    /\ UNCHANGED <<world, now, said, relaxed, due, known, slots, refused>>

\* The same days again, with civil hours instead of the caller's.
Relax ==
    /\ phase = "cut"
    /\ relaxed' = TRUE /\ due' = Horizon /\ slots' = {} /\ refused' = <<>>
    /\ phase' = "search"
    /\ UNCHANGED <<world, now, said, known, trial, offer>>

\* Of the cheapest days, those that cost the customer less than any asked for.
CutFlexible ==
    /\ phase = "search" /\ due = {} /\ relaxed
    /\ LET ceiling == Min({s.total : s \in offer.asked})
       IN offer' = [offer EXCEPT !.flexible =
                      {s \in Cheapest(FlexibleLimit) : s.total < ceiling}]
    /\ phase' = "offered" /\ trial' = NoTrial
    /\ UNCHANGED <<world, now, said, relaxed, due, known, slots, refused>>

Next == AskTheCaller \/ OpenTheSearch \/ SolveDay \/ NoSuchWindow \/ Cut \/ Relax \/ CutFlexible

Spec == Init /\ [][Next]_vars

-----------------------------------------------------------------------------
(* What an offer has to be.                                                *)

Offered == offer.asked \cup offer.flexible
Tried == "draft" \in Stopped(trial.routes)

\* Within the lead of midnight the clock wraps, and a search takes today for open.
LeadEndsToday == Day(NotBefore) = Day(now)

\* "Everything already placed stays placed": the day that is priced for the
\* caller still serves every job that the day without the caller served.
NothingIsDisplaced == Tried => trial.before \subseteq Stopped(trial.routes)

\* The board promises the customer a window from what it was quoted.  The day
\* the slot was priced with keeps that promise, and everybody else's: unless it
\* gave one up itself, the checker finds nothing against it once the job is
\* booked, on a day that the planner sees as the checker does.
QuotedSlotCanBeKept ==
    /\ Tried /\ trial.released = {}
    /\ SeenAlike(With(Wanted(trial.day)), trial.day, TRUE)
    =>
        \A s \in {x \in slots : x.day = trial.day} :
            LET opens == Moment(s.day, s.opens)
                promise == [from |-> opens, until |-> opens + QuotedWindow + Draft.dur, hard |-> FALSE]
                booked == [Draft EXCEPT !.windows = <<promise>>, !.state = "confirmed"]
            IN Violations(trial.routes, With(booked), {}, TRUE) = {}

\* Nobody is offered a visit before a crew could be there, in either list.
NobodyIsOfferedThePast ==
    LeadEndsToday => \A s \in Offered : NotBefore <= Moment(s.day, s.arrive)

\* Whatever the model made of the call, no visit that the caller is offered for
\* the asked hours starts before the hour the words say, on a day they exclude,
\* or, when _AFTER finds nothing in them and no limit is left, before civil hours.
StatedHoursStand ==
    \A s \in offer.asked :
        /\ IsHour(LowerBound(said.text)) => LowerBound(said.text) * HourLen <= s.arrive
        /\ said.text.after = Unsaid /\ Call.latest = Unsaid => CivilHour * HourLen <= s.arrive
        /\ said.text.only # {} => s.day \in said.text.only

\* What _civil_floor says of itself: a lower bound before civil hours "stands only
\* when the caller typed the early hour themselves", so no visit before them is
\* offered to a caller in whose words there is no hour to start from.
EarlyHoursWereTyped ==
    \A s \in offer.asked :
        ~IsHour(LowerBound(said.text)) /\ Call.latest = Unsaid => CivilHour * HourLen <= s.arrive

\* Receipts the caller never gave do not make an appointment dear to move.
InventedReceiptsAreNotPriced ==
    said.call.quotes # {} /\ said.call.quotes \cap said.text.arranged = {} => CommitmentCost(Call) = 0

\* "A quote must never look cheap because it quietly displaced someone who was
\* already promised a slot": the day that is priced for the caller serves nobody
\* outside a promise that the day without the caller kept.
NoPromiseIsSpentOnAQuote ==
    Tried => \A j \in trial.promised :
                <<"confirmed_window_moved", j>> \notin Windows(trial.routes, With(Draft), {})
=============================================================================
