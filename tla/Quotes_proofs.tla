----------------------------- MODULE Quotes_proofs -----------------------------
(***************************************************************************)
(* What a caller is quoted: nobody placed is displaced, no visit is before *)
(* now or before the hour that was said, and nothing is priced that the    *)
(* caller never said.                                                      *)
(*                                                                         *)
(* The world, the moment and the call never change during a request, so    *)
(* the invariant is about what is collected: baselines serve candidates of *)
(* their day, and every slot found is on a day of the horizon, after now,  *)
(* and, while the search is the caller's own, not before the hour asked.   *)
(***************************************************************************)
EXTENDS Quotes, DayPlan_proofs

-----------------------------------------------------------------------------
(* What is heard.                                                          *)

\* A sum over nothing.
LEMMA NothingCosts == ASSUME NEW call, call.signals = {} PROVE CommitmentCost(call) = 0
<1> DEFINE Folds(iter) == iter = [s \in SUBSET {} |->
               IF s = {} THEN 0
               ELSE Weights[CHOOSE x \in s : TRUE] + iter[s \ {CHOOSE x \in s : TRUE}]]
           fold == CHOOSE iter : Folds(iter)
<1>1. call.signals \cap DOMAIN Weights = {}
    OBVIOUS
<1>2. MapThenSumSet(LAMBDA s : Weights[s], {}) = fold[{}]
    BY DEF MapThenSumSet, MapThenFoldSet
<1>3. Folds([s \in {{}} |-> 0])
    <2>1. SUBSET {} = {{}}
        OBVIOUS
    <2> QED
        BY <2>1
<1>4. Folds(fold)
    <2> HIDE DEF Folds
    <2> QED
        BY <1>3
<1>5. fold[{}] = 0
    <2> HIDE DEF fold
    <2>1. {} \in SUBSET {}
        OBVIOUS
    <2> QED
        BY <1>4, <2>1
<1> HIDE DEF Folds, fold
<1>6. CommitmentCost(call) = IF 0 < MaxCommitment THEN 0 ELSE MaxCommitment
    BY <1>1, <1>2, <1>5 DEF CommitmentCost
<1> QED
    BY <1>6, IntakeConstants

Hours == (0..LastHour) \cup {Unsaid}

\* What a pattern for hours makes of the words.
Matches == Hours \cup {Unparsed}

LEMMA MatchTyped ==
    /\ \A h \in Matches : IsHour(h) => h \in Hours /\ h # Unsaid
    /\ \A h \in Hours : h # Unsaid => IsHour(h)
BY IntakeConstants DEF Matches, Hours, IsHour

LEMMA HourTyped == \A h \in Hours : h # Unsaid => h \in Nat /\ h \in 0..LastHour
BY IntakeConstants DEF Hours

\* What the corrections leave of a call.
HeardAs(call, text, heard) ==
    /\ heard.panes \in (Nat \ {0}) \cup {Unsaid} /\ {heard.earliest, heard.latest} \subseteq Hours
    /\ call.quotes # {} /\ call.quotes \cap text.arranged = {} => heard.signals = {}
    /\ text.only # {} => heard.days = text.only
    /\ IsHour(LowerBound(text)) => heard.earliest # Unsaid /\ LowerBound(text) <= heard.earliest
    /\ text.after = Unsaid /\ heard.earliest # Unsaid => CivilHour <= heard.earliest

LEMMA HeardMeans ==
    ASSUME NEW call, IsCall(call), NEW text, IsText(text)
    PROVE  HeardAs(call, text, Heard(call, text))
<1> DEFINE Same(a, b) ==
        /\ DOMAIN a = DOMAIN b /\ a.quotes = b.quotes /\ a.signals = b.signals /\ a.days = b.days
<1>1. PICK c1 : c1 = Validated(call)
    OBVIOUS
<1>2. Same(c1, call) /\ c1.panes = call.panes /\ {c1.earliest, c1.latest} \subseteq Hours
    <2>1. PICK c0 : c0 = [call EXCEPT !.name = Stated(@), !.phone = PhoneOrBlank(Stated(@)),
                                       !.address = Stated(@), !.service = Stated(@)]
        OBVIOUS
    <2>2. /\ Same(c0, call) /\ c0.panes = call.panes
          /\ c0.earliest = call.earliest /\ c0.latest = call.latest
        BY <2>1 DEF IsCall
    <2>3. c1 = c0 \/ c1 = [c0 EXCEPT !.latest = Unsaid]
        BY <1>1, <2>1 DEF Validated, AWindowMustBePossible
    <2>4. /\ Same(c1, c0) /\ c1.panes = c0.panes /\ c1.earliest = c0.earliest
          /\ c1.latest = c0.latest \/ c1.latest = Unsaid
        BY <2>2, <2>3 DEF IsCall
    <2> QED
        BY <2>2, <2>4 DEF IsCall, Hours
<1>3. PICK c2 : c2 = DistrustASizeReadAsACount(c1, text)
    OBVIOUS
<1>4. /\ Same(c2, call) /\ {c2.earliest, c2.latest} \subseteq Hours
      /\ c2.panes \in (Nat \ {0}) \cup {Unsaid}
    <2>1. c2 = c1 \/ c2 = [c1 EXCEPT !.panes = 1]
        BY <1>3 DEF DistrustASizeReadAsACount
    <2> QED
        BY <1>2, <2>1 DEF IsCall
<1>5. PICK c3 : c3 = FixTheDirection(c2, text)
    OBVIOUS
<1>6. LowerBound(text) \in Matches
    BY DEF LowerBound, IsText, Hours, Matches
<1>7. /\ Same(c3, call) /\ c3.panes = c2.panes /\ {c3.earliest, c3.latest} \subseteq Hours
      /\ IsHour(LowerBound(text)) => c3.earliest = LowerBound(text)
    <2>1. PICK early : early = IF IsHour(LowerBound(text)) THEN LowerBound(text) ELSE c2.earliest
        OBVIOUS
    <2>4. early \in Hours
        BY <1>4, <1>6, <2>1, MatchTyped
    <2>2. PICK latest \in Hours : c3 = [c2 EXCEPT !.earliest = early, !.latest = latest]
        <3>1. text.before \in Matches /\ Unsaid \in Hours
            BY DEF IsText, Hours, Matches
        <3>2. \/ c3 = [c2 EXCEPT !.earliest = early, !.latest = text.before] /\ IsHour(text.before)
              \/ c3 = [c2 EXCEPT !.earliest = early, !.latest = Unsaid]
              \/ c3 = [c2 EXCEPT !.earliest = early, !.latest = c2.latest]
            BY <1>5, <2>1 DEF FixTheDirection
        <3> QED
            BY <1>4, <3>1, <3>2, MatchTyped
    <2>3. /\ DOMAIN c3 = DOMAIN c2 /\ c3.quotes = c2.quotes /\ c3.signals = c2.signals /\ c3.days = c2.days
          /\ c3.panes = c2.panes /\ c3.earliest = early /\ c3.latest = latest
        BY <1>4, <2>2 DEF IsCall
    <2> QED
        BY <1>4, <2>1, <2>3, <2>4
<1>8. PICK c4 : c4 = GroundedCommitments(c3, text)
    OBVIOUS
<1>9. /\ DOMAIN c4 = DOMAIN call /\ c4.panes = c3.panes /\ c4.days = call.days
      /\ c4.earliest = c3.earliest /\ c4.latest = c3.latest
      /\ call.quotes # {} /\ call.quotes \cap text.arranged = {} => c4.signals = {}
    <2>1. PICK quotes : quotes = call.quotes \cap text.arranged
        OBVIOUS
    <2>2. PICK signals : signals = IF quotes = {} THEN {} ELSE c3.signals
        OBVIOUS
    <2>3. c4 = IF quotes = call.quotes THEN c3 ELSE [c3 EXCEPT !.quotes = quotes, !.signals = signals]
        BY <1>7, <1>8, <2>1, <2>2 DEF GroundedCommitments
    <2>4. CASE quotes = call.quotes
        BY <1>7, <2>1, <2>3, <2>4
    <2>5. CASE quotes # call.quotes
        BY <1>7, <2>1, <2>2, <2>3, <2>5 DEF IsCall
    <2> QED
        BY <2>4, <2>5
<1>10. PICK c5 : c5 = CivilFloor(c4, text)
    OBVIOUS
<1>11. /\ DOMAIN c5 = DOMAIN call /\ c5.panes = c4.panes /\ c5.days = c4.days /\ c5.signals = c4.signals
       /\ {c5.earliest, c5.latest} \subseteq Hours
       /\ IsHour(LowerBound(text)) => c5.earliest # Unsaid /\ LowerBound(text) <= c5.earliest
       /\ text.after = Unsaid /\ c5.earliest # Unsaid => CivilHour <= c5.earliest
    <2>1. c4.earliest \in Hours /\ c4.latest \in Hours /\ CivilHour \in Hours /\ CivilHour \in Nat
        BY <1>7, <1>9, IntakeConstants DEF Hours
    <2>2. IsHour(LowerBound(text)) => /\ c4.earliest = LowerBound(text) /\ c4.earliest # Unsaid
                                      /\ c4.earliest \in Nat
        BY <1>6, <1>7, <1>9, MatchTyped, HourTyped
    <2>3. CivilHour # Unsaid
        BY IntakeConstants
    <2>4. CASE c4.earliest # Unsaid /\ c4.earliest < CivilHour /\ text.after = Unsaid
        <3>1. c5 = [c4 EXCEPT !.earliest = CivilHour]
            BY <1>10, <2>4 DEF CivilFloor
        <3>2. /\ DOMAIN c5 = DOMAIN c4 /\ c5.panes = c4.panes /\ c5.days = c4.days /\ c5.signals = c4.signals
              /\ c5.earliest = CivilHour /\ c5.latest = c4.latest
            BY <1>9, <3>1 DEF IsCall
        <3>3. IsHour(LowerBound(text)) => c5.earliest # Unsaid /\ LowerBound(text) <= c5.earliest
            BY <2>1, <2>2, <2>3, <2>4, <3>2
        <3> QED
            BY <1>9, <2>1, <3>2, <3>3
    <2>5. CASE ~(c4.earliest # Unsaid /\ c4.earliest < CivilHour /\ text.after = Unsaid)
        <3>1. c5 = c4
            BY <1>10, <2>5 DEF CivilFloor
        <3>2. text.after = Unsaid /\ c4.earliest # Unsaid => CivilHour <= c4.earliest
            <4>1. c4.earliest # Unsaid => c4.earliest \in Nat
                BY <2>1, HourTyped
            <4> QED
                BY <2>1, <2>5, <4>1
        <3>3. IsHour(LowerBound(text)) => c5.earliest # Unsaid /\ LowerBound(text) <= c5.earliest
            BY <2>2, <3>1
        <3> QED
            BY <1>9, <2>1, <3>1, <3>2, <3>3
    <2> QED
        BY <2>4, <2>5
<1>12. PICK c6 : c6 = RestrictedDays(c5, text)
    OBVIOUS
<1>13. /\ c6.panes = c5.panes /\ c6.signals = c5.signals /\ c6.earliest = c5.earliest /\ c6.latest = c5.latest
       /\ text.only # {} => c6.days = text.only
    <2>1. PICK days : /\ c6 = [c5 EXCEPT !.days = days]
                      /\ text.only # {} => days = text.only
        BY <1>12 DEF RestrictedDays
    <2> QED
        BY <1>11, <2>1 DEF IsCall
<1>14. c6 = Heard(call, text)
    BY <1>1, <1>3, <1>5, <1>8, <1>10, <1>12 DEF Heard
<1>15. HeardAs(call, text, c6)
    BY <1>4, <1>7, <1>9, <1>11, <1>13 DEF HeardAs
<1> QED
    BY <1>14, <1>15

-----------------------------------------------------------------------------
(* What is searched.                                                       *)

\* The request: its world, its moment, and what was heard of it.
Asked ==
    /\ world \in Diaries /\ now \in Nows /\ said \in Calls
    /\ phase \in {"search", "cut"} => Call.service \in Sold

LEMMA AskedMeans ==
    ASSUME Asked
    PROVE  /\ IsWorld(world, 1..Calendar) /\ "draft" \notin DOMAIN world.jobs /\ now \in Nat
           /\ IsCall(said.call) /\ IsText(said.text) /\ HeardAs(said.call, said.text, Call)
<1>1. /\ IsWorld(world, 1..Calendar) /\ "draft" \notin DOMAIN world.jobs /\ now \in Nat
      /\ IsCall(said.call) /\ IsText(said.text)
    BY QuotesConstants DEF Asked
<1> QED
    BY <1>1, HeardMeans DEF Call

LEMMA MomentMeans ==
    ASSUME NEW d \in Int, NEW t \in Int
    PROVE  /\ Moment(d, t) \in Int /\ Clock(d, Moment(d, t)) = t
           /\ Clock(d, t) \in Int /\ Moment(d, Clock(d, t)) = t
<1>1. PICK m \in Int : m = (d - 1) * Minutes
    BY HoursConstants
<1> QED
    BY <1>1 DEF Moment, Clock

\* Nobody asks for a visit before the moment its day begins with.
LEMMA DayMeans ==
    ASSUME NEW m \in Nat
    PROVE  Day(m) \in Nat \ {0} /\ m < Day(m) * Minutes /\ (Day(m) - 1) * Minutes <= m
<1>1. PICK q \in Nat : q = m \div Minutes /\ q * Minutes <= m /\ m < (q + 1) * Minutes
    BY HoursConstants
<1>2. Day(m) = q + 1
    BY <1>1 DEF Day
<1> QED
    BY <1>1, <1>2

LEMMA HoursTyped ==
    ASSUME Asked
    PROVE  EarliestHour \in Hours /\ LatestHour \in Hours
<1>1. {Call.earliest, Call.latest} \subseteq Hours
    BY AskedMeans DEF HeardAs
<1>2. CivilHour \in Hours /\ Unsaid \in Hours
    BY IntakeConstants DEF Hours
<1> QED
    BY <1>1, <1>2 DEF EarliestHour, LatestHour

LEMMA OpensMeans ==
    ASSUME Asked, NEW d \in Nat
    PROVE  /\ Opens(d) \in Int
           /\ EarliestHour # Unsaid => EarliestHour * HourLen <= Clock(d, Opens(d))
           /\ Day(NotBefore) = d => NotBefore <= Opens(d)
<1>1. PICK h \in Nat : h = IF EarliestHour = Unsaid THEN 0 ELSE EarliestHour
    BY HoursTyped, HourTyped
<1>2. PICK t \in Nat : t = h * HourLen
    BY <1>1, QuotesConstants
<1>3. t = IF EarliestHour = Unsaid THEN 0 ELSE EarliestHour * HourLen
    BY <1>1, <1>2, QuotesConstants
<1>4. PICK m \in Int : m = Moment(d, t) /\ Clock(d, m) = t
    <2>1. d \in Int /\ t \in Int
        OBVIOUS
    <2> QED
        BY <2>1, MomentMeans
<1>5. NotBefore \in Int
    BY AskedMeans, QuotesConstants DEF NotBefore
<1>6. PICK T \in SUBSET Int : T = {m} \cup Floor(d)
    BY <1>4, <1>5 DEF Floor
<1>7. Opens(d) = Max(T)
    BY <1>3, <1>4, <1>6 DEF Opens
<1>8. \E b \in Int : \A y \in T : y <= b
    <2>1. PICK b \in Int : m <= b /\ NotBefore <= b
        BY <1>4, <1>5
    <2> QED
        BY <1>6, <2>1 DEF Floor
<1>9. Max(T) \in Int /\ \A y \in T : y <= Max(T)
    BY <1>6, <1>8, MaxMeans
<1>10. PICK x \in Int : x = Opens(d) /\ m <= x /\ (Day(NotBefore) = d => NotBefore <= x)
    BY <1>6, <1>7, <1>9 DEF Floor
<1>11. Clock(d, m) <= Clock(d, x)
    <2>1. PICK y \in Int : y = (d - 1) * Minutes
        BY HoursConstants
    <2> QED
        BY <1>4, <1>10, <2>1 DEF Clock
<1> QED
    BY <1>3, <1>4, <1>10, <1>11

LEMMA ClosesTyped ==
    ASSUME Asked, NEW d \in Nat
    PROVE  Closes(d) \in Int
<1>1. PICK h \in Nat : h = IF LatestHour \in {Unsaid, 0} THEN LastHour ELSE LatestHour
    BY HoursTyped, HourTyped, IntakeConstants
<1>2. PICK t \in Int : t = h * HourLen + HourLen - 1
    BY <1>1, QuotesConstants
<1>3. Closes(d) = Moment(d, t) /\ d \in Int
    BY <1>1, <1>2 DEF Closes
<1> QED
    BY <1>2, <1>3, MomentMeans

LEMMA DraftTyped ==
    ASSUME Asked, Call.service \in Sold
    PROVE  /\ Draft.windows = <<>> /\ Draft.state = "draft" /\ IsJob(Draft)
           /\ DOMAIN Draft = {"at", "dur", "crew", "certs", "windows", "state", "ready", "requested", "load", "claim"}
<1>1. PICK e : e = Catalogue[Call.service]
    OBVIOUS
<1>2. /\ e.dur \in Nat \ {0} /\ e.crew \in 1..2 /\ e.perPane \in Nat /\ e.seals \in Nat
    BY <1>1, IntakeConstants
<1>3. PICK p \in Nat \ {0} : p = Panes(Call)
    BY AskedMeans DEF HeardAs, Panes
<1>4. PICK x \in Nat : x = (p - 1) * e.perPane
    <2>1. p - 1 \in Nat
        OBVIOUS
    <2> QED
        BY <1>2, <2>1
<1>5. PICK y \in Nat : y = e.seals * p
    BY <1>2
<1>6. PICK z : z = Estimate(Call)
    OBVIOUS
<1>7. /\ z.dur = e.dur + x /\ z.crew \in 1..2
      /\ z.lead \in Nat /\ z.seals \in Nat
    BY <1>1, <1>2, <1>3, <1>4, <1>5, <1>6, IntakeConstants DEF Estimate
<1>8. z.dur \in Nat \ {0}
    BY <1>2, <1>7
<1>9. PICK r \in Int : r = Day(now) + z.lead
    <2>1. PICK day \in Nat : day = Day(now)
        BY AskedMeans, DayMeans
    <2> QED
        BY <1>7, <2>1
<1>10. PICK at, certs : at = Map[Call.address].at /\ certs = z.certs
    OBVIOUS
<1>11. Draft = [at |-> at, dur |-> z.dur, crew |-> z.crew, certs |-> certs, windows |-> <<>>,
                state |-> "draft", ready |-> r, requested |-> now,
                load |-> [panes |-> p, seal |-> z.seals], claim |-> <<>>]
    BY <1>3, <1>6, <1>9, <1>10 DEF Draft
<1>12. now \in Int
    BY AskedMeans
<1>13. \A g \in Goods : Draft.load[g] \in Nat
    BY <1>7, <1>11, QuotesConstants
<1>14. Draft.windows \in Seq([from : Int, until : Int, hard : BOOLEAN]) /\ ToSet(Draft.windows) = {}
    BY <1>11 DEF ToSet
<1>15. IsJob(Draft)
    BY <1>7, <1>8, <1>11, <1>12, <1>13, <1>14 DEF IsJob
<1> QED
    BY <1>11, <1>15

\* A job with one window more is still a job.
LEMMA WithWindow ==
    ASSUME NEW job, IsJob(job), NEW from \in Int, NEW until \in Int, from < until,
           NEW next, next = [job EXCEPT !.windows = <<[from |-> from, until |-> until, hard |-> FALSE]>>]
    PROVE  /\ IsJob(next) /\ next.windows = <<[from |-> from, until |-> until, hard |-> FALSE]>>
           /\ next.state = job.state /\ next.dur = job.dur /\ next.requested = job.requested
<1>1. PICK win : win = [from |-> from, until |-> until, hard |-> FALSE]
    OBVIOUS
<1>2. next = [job EXCEPT !.windows = <<win>>]
    BY <1>1
<1>3. /\ DOMAIN next = DOMAIN job /\ next.windows = <<win>> /\ next.dur = job.dur /\ next.crew = job.crew
      /\ next.ready = job.ready /\ next.requested = job.requested /\ next.load = job.load
      /\ next.state = job.state
    BY <1>2 DEF IsJob
<1>4. <<win>> \in Seq([from : Int, until : Int, hard : BOOLEAN]) /\ ToSet(<<win>>) = {win}
    <2>1. win \in [from : Int, until : Int, hard : BOOLEAN]
        BY <1>1
    <2> DEFINE R == [from : Int, until : Int, hard : BOOLEAN]
    <2> HIDE DEF R
    <2>2. <<win>> \in Seq(R)
        BY <2>1 DEF R
    <2>3. ToSet(<<win>>) = {win}
        BY DEF ToSet
    <2> QED
        BY <2>2, <2>3 DEF R
<1>5. \A x \in ToSet(next.windows) : x.from < x.until
    <2>1. ToSet(next.windows) = {win} /\ win.from < win.until
        BY <1>1, <1>3, <1>4
    <2> QED
        BY <2>1
<1>6. next.windows \in Seq([from : Int, until : Int, hard : BOOLEAN])
    BY <1>3, <1>4
<1> QED
    BY <1>1, <1>3, <1>5, <1>6 DEF IsJob

\* The world with the caller's job in it.
LEMMA WithMeans ==
    ASSUME Asked, NEW job, IsJob(job), NEW w, w = With(job)
    PROVE  /\ IsWorld(w, 1..Calendar) /\ DOMAIN w.jobs = DOMAIN world.jobs \cup {"draft"}
           /\ w.jobs["draft"] = job /\ \A j \in DOMAIN world.jobs : w.jobs[j] = world.jobs[j]
           /\ w.fitters = world.fitters /\ w.vans = world.vans /\ w.delays = world.delays
<1>1. IsWorld(world, 1..Calendar) /\ "draft" \notin DOMAIN world.jobs
    BY AskedMeans
<1>2. PICK jobs : jobs = Put(world.jobs, "draft", job)
    OBVIOUS
<1>3. /\ DOMAIN jobs = DOMAIN world.jobs \cup {"draft"} /\ jobs["draft"] = job
      /\ \A j \in DOMAIN world.jobs : jobs[j] = world.jobs[j]
    BY <1>1, <1>2 DEF Put
<1>4. w = [world EXCEPT !.jobs = jobs]
    BY <1>2 DEF With
<1>5. /\ w.jobs = jobs /\ w.fitters = world.fitters /\ w.vans = world.vans /\ w.delays = world.delays
      /\ DOMAIN w = DOMAIN world
    BY <1>1, <1>4 DEF IsWorld
<1>6. IsFiniteSet(DOMAIN jobs)
    BY <1>1, <1>3, FS_AddElement DEF IsWorld
<1>7. \A j \in DOMAIN jobs : IsJob(jobs[j])
    BY <1>1, <1>3 DEF IsWorld
<1>8. IsWorld(w, 1..Calendar)
    BY <1>1, <1>5, <1>6, <1>7 DEF IsWorld
<1> QED
    BY <1>3, <1>5, <1>8

-----------------------------------------------------------------------------
(* What is found.                                                          *)

\* A slot is on a day of the search, and today's is not before the lead is over.
OnTime(s) ==
    /\ s.day \in Horizon /\ s.arrive \in Nat
    /\ Day(NotBefore) = s.day => NotBefore <= Moment(s.day, s.arrive)

\* The hour that the search begins with when it is not relaxed.
AskedFrom == IF Call.earliest = Unsaid /\ Call.latest = Unsaid THEN CivilHour ELSE Call.earliest

AsAsked(s) == AskedFrom # Unsaid => AskedFrom * HourLen <= s.arrive

\* What the cache says was served could be served.
KnownOK ==
    \A d : <<d, Existing(d)>> \in DOMAIN known =>
              known[<<d, Existing(d)>>].served \subseteq Candidates(world, d, Existing(d))

TrialOK == Tried => trial.before \subseteq Stopped(trial.routes)

SlotsOK ==
    /\ \A s \in slots : OnTime(s) /\ (~relaxed => AsAsked(s))
    /\ \A s \in offer.asked : OnTime(s) /\ AsAsked(s)
    /\ \A s \in offer.flexible : OnTime(s)

QuotesInv == Asked /\ due \subseteq Horizon /\ KnownOK /\ TrialOK /\ SlotsOK /\ relaxed \in BOOLEAN
             /\ DOMAIN offer = {"asked", "flexible"}

LEMMA HorizonMeans == \A d \in Horizon : d \in 1..Calendar /\ d \in Nat /\ d >= Opening
BY QuotesConstants DEF Horizon, Rostered

LEMMA DueDay ==
    ASSUME due \subseteq Horizon, due # {}
    PROVE  Min(due) \in due /\ Min(due) \in Horizon /\ Min(due) \in Nat
<1>1. due \in SUBSET Int /\ \A d \in due : 0 <= d
    BY HorizonMeans
<1> QED
    BY <1>1, MinMeans, HorizonMeans

\* What is priced for a day of the search.
Priced(d, before, result, w) ==
    /\ before.served \subseteq Candidates(world, d, Existing(d))
    /\ Opens(d) < Closes(d) /\ w = With(Wanted(d))
    /\ result \in PlanDay(w, d, Existing(d) \cup {"draft"}, Locked(before), TRUE)

LEMMA WantedMeans ==
    ASSUME Asked, phase \in {"search", "cut"}, NEW d \in Nat, Opens(d) < Closes(d)
    PROVE  /\ IsJob(Wanted(d)) /\ Wanted(d).state = "draft"
           /\ \E win : Wanted(d).windows = <<win>> /\ win.from = Opens(d) /\ win.hard = FALSE
<1>1. PICK from \in Int, until \in Int : from = Opens(d) /\ until = Closes(d)
    BY OpensMeans, ClosesTyped
<1>2. Call.service \in Sold
    BY DEF Asked
<1>3. PICK job : job = Draft
    OBVIOUS
<1>4. IsJob(job) /\ job.state = "draft"
    BY <1>2, <1>3, DraftTyped
<1>5. PICK next : next = Wanted(d)
    OBVIOUS
<1>6. next = [job EXCEPT !.windows = <<[from |-> from, until |-> until, hard |-> FALSE]>>]
    BY <1>1, <1>3, <1>5 DEF Wanted
<1>7. from < until
    BY <1>1
<1>8. /\ IsJob(next) /\ next.windows = <<[from |-> from, until |-> until, hard |-> FALSE]>>
      /\ next.state = job.state
    BY <1>4, <1>6, <1>7, WithWindow
<1> QED
    BY <1>1, <1>4, <1>5, <1>8

LEMMA NobodyIsLeftOut ==
    ASSUME Asked, phase = "search", NEW d \in Nat, NEW before, NEW result, NEW w, Priced(d, before, result, w),
           "draft" \in Stopped(result.routes)
    PROVE  /\ before.served \subseteq Stopped(result.routes)
           /\ IsWorld(w, 1..Calendar) /\ w.jobs["draft"] = Wanted(d) /\ d \in Int
           /\ \E s, js : js \in SUBSET DOMAIN w.jobs /\ Solved(w, d, js, Locked(before), TRUE, result, s)
<1>1. d \in Int /\ IsJob(Wanted(d))
    <2>1. phase \in {"search", "cut"} /\ Opens(d) < Closes(d)
        BY DEF Priced
    <2>2. /\ IsJob(Wanted(d)) /\ Wanted(d).state = "draft"
          /\ \E win : Wanted(d).windows = <<win>> /\ win.from = Opens(d) /\ win.hard = FALSE
        BY <2>1, WantedMeans
    <2> QED
        BY <2>2
<1>2. /\ IsWorld(w, 1..Calendar) /\ DOMAIN w.jobs = DOMAIN world.jobs \cup {"draft"}
      /\ w.jobs["draft"] = Wanted(d) /\ \A j \in DOMAIN world.jobs : w.jobs[j] = world.jobs[j]
    BY <1>1, WithMeans DEF Priced
<1>3. PICK js : js = Candidates(w, d, Existing(d) \cup {"draft"})
    OBVIOUS
<1>4. before.served \subseteq js
    <2>1. \A j \in Candidates(world, d, Existing(d)) : j \in js
        BY <1>2, <1>3 DEF Candidates
    <2> QED
        BY <2>1 DEF Priced
<1>5. js \in SUBSET DOMAIN w.jobs
    BY <1>3 DEF Candidates
<1>6. PICK must : must = Locked(before)
    OBVIOUS
<1>7. PICK s : Solved(w, d, js, must, TRUE, result, s)
    <2>1. result \in PlanDay(w, d, Existing(d) \cup {"draft"}, must, TRUE)
        BY <1>6 DEF Priced
    <2>2. Stopped(result.routes) # {}
        OBVIOUS
    <2> QED
        BY <1>1, <1>2, <1>3, <2>1, <2>2, PlanDaySolved
<1>8. before.served \subseteq must
    BY <1>6 DEF Locked
<1>9. before.served \subseteq Stopped(result.routes)
    BY <1>4, <1>7, <1>8 DEF Solved
<1> QED
    BY <1>1, <1>2, <1>5, <1>6, <1>7, <1>9

\* The stop that is priced is the draft's, and not before the day's search opens.
LEMMA PricedStop ==
    ASSUME Asked, phase = "search", NEW d \in Nat, NEW before, NEW result, NEW w, Priced(d, before, result, w),
           "draft" \in Stopped(result.routes),
           NEW stop, stop = CHOOSE x \in UNION {ToSet(r.stops) : r \in result.routes} : x.job = "draft"
    PROVE  stop.arrive \in Nat /\ Clock(d, Opens(d)) <= stop.arrive
<1>1. PICK s, js : js \in SUBSET DOMAIN w.jobs /\ Solved(w, d, js, Locked(before), TRUE, result, s)
    BY NobodyIsLeftOut
<1>2. IsWorld(w, 1..Calendar) /\ w.jobs["draft"] = Wanted(d) /\ d \in Int
    BY NobodyIsLeftOut
<1>3. stop.job = "draft" /\ \E route \in result.routes : stop \in ToSet(route.stops)
    <2>1. \E x \in UNION {ToSet(r.stops) : r \in result.routes} : x.job = "draft"
        BY DEF Stopped
    <2>2. stop \in UNION {ToSet(r.stops) : r \in result.routes} /\ stop.job = "draft"
        BY <2>1
    <2> QED
        BY <2>2
<1>4. PICK route \in result.routes : stop \in ToSet(route.stops)
    BY <1>3
<1>5. PICK r \in s : route = MaterializeRoute(w, d, r)
    BY <1>1, <1>4 DEF Solved, RoutesOf
<1>6. PICK n : IsRun(w, d, r, js, route, n)
    BY <1>1, <1>5 DEF Solved, AreRuns
<1>7. PICK i \in 1..n : stop = route.stops[i]
    BY <1>4, <1>6 DEF IsRun, Replays, ToSet
<1>8. /\ route.stops[i].job = r.stops[i] /\ r.stops[i] \in js /\ route.stops[i].arrive \in Nat
      /\ \E arrival \in Int : EarliestStart(w.jobs[r.stops[i]], d, arrival) <= route.stops[i].arrive
    BY <1>1, <1>2, <1>6, RunStarts
<1>9. PICK arrival \in Int : EarliestStart(Wanted(d), d, arrival) <= stop.arrive
    BY <1>2, <1>3, <1>7, <1>8
<1>10. /\ IsJob(Wanted(d))
       /\ \E win : Wanted(d).windows = <<win>> /\ win.from = Opens(d) /\ win.hard = FALSE
    <2>1. phase \in {"search", "cut"} /\ Opens(d) < Closes(d)
        BY DEF Priced
    <2> QED
        BY <2>1, WantedMeans
<1>11. PICK win : Wanted(d).windows = <<win>> /\ win.from = Opens(d) /\ win.hard = FALSE
    BY <1>10
<1>12. Clock(d, win.from) <= EarliestStart(Wanted(d), d, arrival)
    BY <1>2, <1>10, <1>11, PreferenceHolds
<1>13. PICK x \in Int, y \in Int, z \in Nat : /\ x = Clock(d, win.from)
                                             /\ y = EarliestStart(Wanted(d), d, arrival) /\ z = stop.arrive
    <2>1. Clock(d, win.from) \in Int
        BY <1>2, <1>11, OpensMeans, MomentMeans
    <2>2. EarliestStart(Wanted(d), d, arrival) \in Int
        BY <1>2, <1>10, StartMeans
    <2> QED
        BY <1>7, <1>8, <2>1, <2>2
<1> QED
    BY <1>9, <1>11, <1>12, <1>13

LEMMA BaselineServes ==
    ASSUME Asked, KnownOK, NEW d \in Nat, NEW before \in Baselines(d)
    PROVE  before.served \subseteq Candidates(world, d, Existing(d))
<1>1. PICK key : key = <<d, Existing(d)>>
    OBVIOUS
<1>2. CASE key \in DOMAIN known
    BY <1>1, <1>2 DEF Baselines, KnownOK
<1>3. CASE key \notin DOMAIN known
    <2> DEFINE kept(p) == Stopped(p.routes) \ p.released
               cost(p) == Total(OperatingCost, world, p.routes)
               overtime(p) == Total(OvertimeMinutes, world, p.routes)
               record(p) == [served |-> Stopped(p.routes), kept |-> kept(p),
                             cost |-> cost(p), overtime |-> overtime(p)]
               found == {record(p) : p \in PlanDay(world, d, Existing(d), {}, TRUE)}
    <2>6. Baselines(d) = found
        BY <1>1, <1>3 DEF Baselines
    <2>7. \A p : record(p).served = Stopped(p.routes)
        <3> HIDE DEF kept, cost, overtime
        <3> QED
            OBVIOUS
    <2> HIDE DEF record
    <2>1. PICK p \in PlanDay(world, d, Existing(d), {}, TRUE) : before.served = Stopped(p.routes)
        BY <2>6, <2>7
    <2>2. PICK js : js = Candidates(world, d, Existing(d))
        OBVIOUS
    <2>3. IsWorld(world, 1..Calendar) /\ d \in Int
        BY AskedMeans
    <2>4. Stopped(p.routes) = {} \/ \E s : Solved(world, d, js, {}, TRUE, p, s)
        BY <2>1, <2>2, <2>3, PlanDaySolved
    <2>5. Stopped(p.routes) \subseteq js
        BY <2>4 DEF Solved
    <2> QED
        BY <2>1, <2>2, <2>5
<1> QED
    BY <1>2, <1>3

\* What a slot says of the day: when the visit begins, not before now or the hour.
LEMMA SlotMeans ==
    ASSUME NEW d, NEW routes, NEW before
    PROVE  /\ Slot(d, routes, before).day = d
           /\ Slot(d, routes, before).opens =
                QuotedFrom((CHOOSE s \in UNION {ToSet(r.stops) : r \in routes} : s.job = "draft").arrive)
           /\ Slot(d, routes, before).arrive =
                (CHOOSE s \in UNION {ToSet(r.stops) : r \in routes} : s.job = "draft").arrive
<1> DEFINE stop == CHOOSE s \in UNION {ToSet(r.stops) : r \in routes} : s.job = "draft"
           late == Later(0, Total(OvertimeMinutes, With(Draft), routes) - before.overtime)
           cost == Later(0, Total(OperatingCost, With(Draft), routes) - before.cost)
           opens == QuotedFrom(stop.arrive)
           total == QuoteTotal(Draft, late)
<1>1. Slot(d, routes, before) =
        [day |-> d, arrive |-> stop.arrive, opens |-> opens, cost |-> cost, total |-> total]
    BY DEF Slot
<1> HIDE DEF stop, cost, opens, total
<1>2. /\ Slot(d, routes, before).day = d /\ Slot(d, routes, before).arrive = stop.arrive
      /\ Slot(d, routes, before).opens = opens
    BY <1>1
<1> QED
    BY <1>2 DEF stop, opens

LEMMA SlotFound ==
    ASSUME Asked, phase = "search", relaxed \in BOOLEAN, NEW d \in Horizon, NEW before, NEW result, NEW w,
           Priced(d, before, result, w), "draft" \in Stopped(result.routes),
           NEW s, s = Slot(d, result.routes, before)
    PROVE  OnTime(s) /\ (~relaxed => AsAsked(s))
<1>1. d \in Nat /\ d \in Int
    BY HorizonMeans
<1>2. PICK stop : stop = CHOOSE x \in UNION {ToSet(r.stops) : r \in result.routes} : x.job = "draft"
    OBVIOUS
<1>3. stop.arrive \in Nat /\ Clock(d, Opens(d)) <= stop.arrive
    BY <1>1, <1>2, PricedStop
<1>4. s.day = d /\ s.arrive = stop.arrive
    BY <1>2, SlotMeans
<1>5. /\ Opens(d) \in Int
      /\ EarliestHour # Unsaid => EarliestHour * HourLen <= Clock(d, Opens(d))
      /\ Day(NotBefore) = d => NotBefore <= Opens(d)
    BY <1>1, OpensMeans
<1>6. PICK o \in Int : o = Opens(d)
    BY <1>5
<1>7. PICK c \in Int : c = Clock(d, o) /\ Moment(d, c) = o
    BY <1>1, MomentMeans
<1>8. PICK a \in Nat : a = stop.arrive /\ c <= a
    BY <1>3, <1>6, <1>7
<1>9. NotBefore \in Int
    BY AskedMeans, QuotesConstants DEF NotBefore
<1>10. Day(NotBefore) = d => NotBefore <= Moment(d, a)
    <2>1. PICK y \in Int : y = (d - 1) * Minutes
        BY <1>1, HoursConstants
    <2>2. o = y + c /\ Moment(d, a) = y + a
        BY <1>7, <2>1 DEF Moment
    <2> QED
        BY <1>5, <1>6, <1>8, <1>9, <2>1, <2>2
<1>11. OnTime(s)
    BY <1>4, <1>8, <1>10 DEF OnTime
<1>12. ASSUME ~relaxed, AskedFrom # Unsaid
       PROVE  AskedFrom * HourLen <= s.arrive
    <2>1. PICK h \in Nat : h = EarliestHour /\ h = AskedFrom
        BY <1>12, HoursTyped, HourTyped DEF EarliestHour, AskedFrom
    <2>2. PICK t \in Nat : t = h * HourLen
        BY QuotesConstants
    <2> QED
        BY <1>4, <1>5, <1>6, <1>7, <1>8, <1>12, <2>1, <2>2
<1> QED
    BY <1>11, <1>12 DEF AsAsked

-----------------------------------------------------------------------------
(* What every step keeps.                                                  *)

\* The search is of one call at one moment in one world.
LEMMA SameSearch ==
    ASSUME UNCHANGED <<world, now, said>>
    PROVE  /\ Call' = Call /\ Horizon' = Horizon /\ AskedFrom' = AskedFrom /\ NotBefore' = NotBefore
           /\ \A d : Existing(d)' = Existing(d)
<1>1. Call' = Call
    BY DEF Call
<1>2. NotBefore' = NotBefore
    BY DEF NotBefore
<1>3. AskedFrom' = AskedFrom
    BY <1>1 DEF AskedFrom
<1>4. Rostered' = Rostered
    BY DEF Rostered
<1>5. Draft' = Draft
    BY <1>1 DEF Draft
<1>6. TodayWorks' = TodayWorks
    BY <1>2, <1>5 DEF TodayWorks
<1>7. Opening' = Opening
    BY <1>4, <1>6 DEF Opening, NextWorkingDay
<1>8. Horizon' = Horizon
    BY <1>1, <1>4, <1>7 DEF Horizon
<1>9. \A d : Existing(d)' = Existing(d)
    BY DEF Existing
<1> QED
    BY <1>1, <1>2, <1>3, <1>8, <1>9

\* What a slot promises does not depend on the step.
LEMMA SameSlot ==
    ASSUME UNCHANGED <<world, now, said>>, NEW s
    PROVE  (OnTime(s)' <=> OnTime(s)) /\ (AsAsked(s)' <=> AsAsked(s))
BY SameSearch DEF OnTime, AsAsked

LEMMA SameKnown ==
    ASSUME UNCHANGED <<world, now, said, known>>, KnownOK
    PROVE  KnownOK'
<1>1. \A d : Existing(d)' = Existing(d)
    BY SameSearch
<1> QED
    BY <1>1 DEF KnownOK

LEMMA QuotesInitially == ASSUME Init PROVE QuotesInv
<1>1. Asked /\ due \subseteq Horizon /\ relaxed \in BOOLEAN
    BY DEF Init, Asked
<1>2. KnownOK
    BY DEF Init, KnownOK
<1>3. TrialOK
    BY DEF Init, TrialOK, Tried, Stopped, NoTrial
<1>4. SlotsOK /\ DOMAIN offer = {"asked", "flexible"}
    BY DEF Init, SlotsOK, NoOffer
<1> QED
    BY <1>1, <1>2, <1>3, <1>4 DEF QuotesInv

LEMMA SolveKeeps == ASSUME QuotesInv, SolveDay PROVE QuotesInv'
<1>1. /\ Asked /\ due \subseteq Horizon /\ KnownOK /\ SlotsOK /\ relaxed \in BOOLEAN /\ phase = "search"
      /\ due # {} /\ UNCHANGED <<world, now, said, phase, relaxed, offer>>
    BY DEF QuotesInv, SolveDay
<1>2. PICK d : d = Min(due)
    OBVIOUS
<1>3. d \in due /\ d \in Horizon /\ d \in Nat
    BY <1>1, <1>2, DueDay
<1>4. PICK before, result :
        /\ before \in Baselines(d)
        /\ result \in PlanDay(With(Wanted(d)), d, Existing(d) \cup {"draft"}, Locked(before), TRUE)
        /\ known' = Put(known, <<d, Existing(d)>>, before)
        /\ trial' = [day |-> d, routes |-> result.routes, released |-> result.released,
                     before |-> before.served, promised |-> before.kept]
        /\ IF "draft" \in Stopped(result.routes)
           THEN slots' = slots \cup {Slot(d, result.routes, before)} /\ UNCHANGED refused
           ELSE refused' = Put(refused, d, result.unserved["draft"]) /\ UNCHANGED slots
    BY <1>2 DEF SolveDay
<1>5. Opens(d) < Closes(d) /\ due' = due \ {d}
    BY <1>2 DEF SolveDay
<1>6. before.served \subseteq Candidates(world, d, Existing(d))
    BY <1>1, <1>3, <1>4, BaselineServes
<1>7. PICK w : w = With(Wanted(d))
    OBVIOUS
<1>8. Priced(d, before, result, w)
    BY <1>4, <1>5, <1>6, <1>7 DEF Priced
<1>9. Asked' /\ (due \subseteq Horizon)' /\ (relaxed \in BOOLEAN)' /\ (DOMAIN offer = {"asked", "flexible"})'
    BY <1>1, <1>5, SameSearch DEF Asked, QuotesInv
<1>10. KnownOK'
    <2>1. \A e : Existing(e)' = Existing(e)
        BY <1>1, SameSearch
    <2>2. PICK key : key = <<d, Existing(d)>>
        OBVIOUS
    <2>3. /\ DOMAIN known' = DOMAIN known \cup {key} /\ known'[key] = before
          /\ \A k \in DOMAIN known : k # key => known'[k] = known[k]
        BY <1>4, <2>2 DEF Put
    <2>4. ASSUME NEW e, <<e, Existing(e)>> \in DOMAIN known'
          PROVE  known'[<<e, Existing(e)>>].served \subseteq Candidates(world, e, Existing(e))
        <3>1. CASE e = d
            BY <1>6, <2>2, <2>3, <3>1
        <3>2. CASE e # d
            <4>1. PICK k : k = <<e, Existing(e)>>
                OBVIOUS
            <4>2. k # key
                BY <2>2, <3>2, <4>1
            <4>3. k \in DOMAIN known /\ known'[k] = known[k]
                BY <2>3, <2>4, <4>1, <4>2
            <4> QED
                BY <1>1, <4>1, <4>3 DEF KnownOK
        <3> QED
            BY <3>1, <3>2
    <2> QED
        BY <1>1, <2>1, <2>4 DEF KnownOK
<1>11. TrialOK'
    <2>1. trial'.routes = result.routes /\ trial'.before = before.served
        BY <1>4
    <2>2. "draft" \in Stopped(result.routes) => before.served \subseteq Stopped(result.routes)
        BY <1>1, <1>3, <1>8, NobodyIsLeftOut
    <2> QED
        BY <2>1, <2>2 DEF TrialOK, Tried
<1>12. SlotsOK'
    <2>1. \A s : (OnTime(s)' <=> OnTime(s)) /\ (AsAsked(s)' <=> AsAsked(s))
        BY <1>1, SameSlot
    <2>2. ASSUME NEW s \in slots'
          PROVE  OnTime(s) /\ (~relaxed => AsAsked(s))
        <3>1. CASE s \in slots
            BY <1>1, <3>1 DEF SlotsOK
        <3>2. CASE s \notin slots
            <4>1. "draft" \in Stopped(result.routes) /\ s = Slot(d, result.routes, before)
                BY <1>4, <2>2, <3>2
            <4> QED
                BY <1>1, <1>3, <1>8, <4>1, SlotFound
        <3> QED
            BY <3>1, <3>2
    <2> QED
        BY <1>1, <2>1, <2>2 DEF SlotsOK
<1> QED
    BY <1>9, <1>10, <1>11, <1>12 DEF QuotesInv

LEMMA QuotesStep == ASSUME QuotesInv, [Next]_vars PROVE QuotesInv'
<1>1. /\ Asked /\ due \subseteq Horizon /\ KnownOK /\ TrialOK /\ SlotsOK /\ relaxed \in BOOLEAN
      /\ DOMAIN offer = {"asked", "flexible"}
    BY DEF QuotesInv
<1>2. SUFFICES ASSUME ~SolveDay
               PROVE  QuotesInv'
    BY SolveKeeps
<1>3. UNCHANGED <<world, now, said>>
    BY <1>2 DEF Next, vars, AskTheCaller, OpenTheSearch, NoSuchWindow, Cut, Relax, CutFlexible
<1>4. KnownOK'
    <2>1. known' = known
        BY <1>2 DEF Next, vars, AskTheCaller, OpenTheSearch, NoSuchWindow, Cut, Relax, CutFlexible
    <2> QED
        BY <1>1, <1>3, <2>1, SameKnown
<1>5. Horizon' = Horizon /\ Call' = Call
    BY <1>3, SameSearch
<1>6. \A s : (OnTime(s)' <=> OnTime(s)) /\ (AsAsked(s)' <=> AsAsked(s))
    BY <1>3, SameSlot
<1>7. \A n : Cheapest(n) \subseteq slots
    BY DEF Cheapest
<1>8. TrialOK'
    <2>1. trial' = trial \/ trial' = NoTrial
        BY <1>2 DEF Next, vars, AskTheCaller, OpenTheSearch, NoSuchWindow, Cut, Relax, CutFlexible
    <2> QED
        BY <1>1, <2>1 DEF TrialOK, Tried, Stopped, NoTrial
<1>9. CASE AskTheCaller \/ NoSuchWindow \/ UNCHANGED vars
    <2>1. /\ UNCHANGED <<relaxed, due, slots, offer>>
          /\ phase' \in {"asked", "failed"} \/ phase' = phase
        BY <1>9 DEF AskTheCaller, NoSuchWindow, vars
    <2>2. Asked'
        BY <1>1, <1>3, <1>5, <2>1 DEF Asked
    <2>3. SlotsOK'
        BY <1>1, <1>6, <2>1 DEF SlotsOK
    <2> QED
        BY <1>1, <1>4, <1>5, <1>8, <2>1, <2>2, <2>3 DEF QuotesInv
<1>10. CASE OpenTheSearch
    <2>1. UNCHANGED <<relaxed, slots, offer>> /\ due' = Horizon /\ Call.service \in Sold
        BY <1>10 DEF OpenTheSearch, Bookable
    <2>2. Asked'
        BY <1>1, <1>3, <1>5, <2>1 DEF Asked
    <2>3. SlotsOK'
        BY <1>1, <1>6, <2>1 DEF SlotsOK
    <2> QED
        BY <1>1, <1>4, <1>5, <1>8, <2>1, <2>2, <2>3 DEF QuotesInv
<1>11. CASE Cut
    <2>1. /\ UNCHANGED <<relaxed, due, slots>> /\ ~relaxed /\ phase = "search"
          /\ offer' = [offer EXCEPT !.asked = Cheapest(Limit)]
        BY <1>11 DEF Cut
    <2>2. offer'.asked \subseteq slots /\ offer'.flexible = offer.flexible
          /\ DOMAIN offer' = {"asked", "flexible"}
        BY <1>1, <1>7, <2>1
    <2>3. Asked'
        BY <1>1, <1>3, <1>5, <2>1 DEF Asked
    <2>4. SlotsOK'
        BY <1>1, <1>6, <2>1, <2>2 DEF SlotsOK
    <2> QED
        BY <1>1, <1>4, <1>5, <1>8, <2>1, <2>2, <2>3, <2>4 DEF QuotesInv
<1>12. CASE Relax
    <2>1. relaxed' = TRUE /\ due' = Horizon /\ slots' = {} /\ phase = "cut" /\ UNCHANGED offer
        BY <1>12 DEF Relax
    <2>2. Asked'
        BY <1>1, <1>3, <1>5, <2>1 DEF Asked
    <2>3. SlotsOK'
        BY <1>1, <1>6, <2>1 DEF SlotsOK
    <2> QED
        BY <1>1, <1>4, <1>5, <1>8, <2>1, <2>2, <2>3 DEF QuotesInv
<1>13. CASE CutFlexible
    <2>1. PICK found : offer' = [offer EXCEPT !.flexible = found] /\ found \subseteq slots
        <3>1. PICK n : n = FlexibleLimit
            OBVIOUS
        <3>2. PICK ceiling : ceiling = Min({s.total : s \in offer.asked})
            OBVIOUS
        <3>3. offer' = [offer EXCEPT !.flexible = {s \in Cheapest(n) : s.total < ceiling}]
            BY <1>13, <3>1, <3>2 DEF CutFlexible
        <3>4. {s \in Cheapest(n) : s.total < ceiling} \subseteq slots
            BY <1>7
        <3> QED
            BY <3>3, <3>4
    <2>2. UNCHANGED <<relaxed, due, slots>> /\ phase' = "offered"
        BY <1>13 DEF CutFlexible
    <2>3. offer'.flexible \subseteq slots /\ offer'.asked = offer.asked
          /\ DOMAIN offer' = {"asked", "flexible"}
        BY <1>1, <2>1
    <2>4. Asked'
        BY <1>1, <1>3, <2>2 DEF Asked
    <2>5. SlotsOK'
        BY <1>1, <1>6, <2>2, <2>3 DEF SlotsOK
    <2> QED
        BY <1>1, <1>4, <1>5, <1>8, <2>2, <2>3, <2>4, <2>5 DEF QuotesInv
<1> QED
    BY <1>2, <1>9, <1>10, <1>11, <1>12, <1>13 DEF Next

LEMMA QuotesAlways == Spec => []QuotesInv
<1>1. Init => QuotesInv
    BY QuotesInitially
<1>2. QuotesInv /\ [Next]_vars => QuotesInv'
    BY QuotesStep
<1> QED
    BY <1>1, <1>2, PTL DEF Spec

-----------------------------------------------------------------------------
(* What the caller can rely on.                                            *)

\* A day is priced for a caller only with everybody on it whom it served before.
THEOREM QuotesDisplaceNobody == Spec => []NothingIsDisplaced
<1>1. QuotesInv => NothingIsDisplaced
    BY DEF QuotesInv, TrialOK, NothingIsDisplaced
<1> QED
    BY <1>1, QuotesAlways, PTL

\* The first day that is searched is not before today.
LEMMA OpeningMeans ==
    ASSUME Asked
    PROVE  Opening \in Nat /\ Day(now) <= Opening
<1>1. PICK today \in Nat : today = Day(now)
    BY AskedMeans, DayMeans
<1>2. PICK d \in Nat : d = (IF TodayWorks THEN today ELSE today + 1) /\ today <= d
    OBVIOUS
<1>3. Opening = NextWorkingDay(d)
    BY <1>1, <1>2 DEF Opening
<1>4. PICK T : T = {r \in Rostered : r >= d}
    OBVIOUS
<1>5. T \in SUBSET Int /\ \A r \in T : 0 <= r /\ r \in Nat
    BY <1>4, QuotesConstants DEF Rostered
<1>6. T # {} => Min(T) \in T
    BY <1>5, MinMeans
<1>7. NextWorkingDay(d) = IF T # {} THEN Min(T) ELSE d
    BY <1>4 DEF NextWorkingDay
<1>8. PICK n : n = NextWorkingDay(d)
    OBVIOUS
<1>9. n \in T \/ n = d
    BY <1>6, <1>7, <1>8
<1>10. n \in Nat /\ d <= n
    BY <1>4, <1>5, <1>9
<1> QED
    BY <1>1, <1>2, <1>3, <1>8, <1>10

\* Whoever is offered a visit is offered one that a crew can still drive to.
THEOREM OffersAreAhead == Spec => []NobodyIsOfferedThePast
<1>1. ASSUME QuotesInv, LeadEndsToday, NEW s \in Offered
      PROVE  NotBefore <= Moment(s.day, s.arrive)
    <2>1. Asked /\ OnTime(s)
        BY <1>1 DEF QuotesInv, SlotsOK, Offered
    <2>2. PICK day \in Nat : day = s.day /\ Opening <= day
        BY <2>1, HorizonMeans DEF OnTime
    <2>3. PICK m \in Nat : m = NotBefore
        BY <2>1, AskedMeans, QuotesConstants DEF NotBefore
    <2>4. PICK today \in Nat : today = Day(m) /\ m < today * Minutes
        BY DayMeans
    <2>5. today = Day(now) /\ today <= day
        <3>1. Opening \in Nat /\ Day(now) <= Opening
            BY <2>1, OpeningMeans
        <3> QED
            BY <1>1, <2>2, <2>3, <2>4, <3>1 DEF LeadEndsToday
    <2>6. CASE today = day
        BY <2>1, <2>2, <2>3, <2>4, <2>6 DEF OnTime
    <2>7. CASE today < day
        <3>1. PICK x \in Nat : x = today * Minutes
            BY HoursConstants
        <3>2. PICK y \in Int : y = (day - 1) * Minutes
            BY HoursConstants
        <3>3. x <= y
            BY <2>7, <3>1, <3>2, HoursConstants
        <3>4. PICK a \in Nat : a = s.arrive
            BY <2>1 DEF OnTime
        <3>5. Moment(s.day, s.arrive) = y + a
            BY <2>2, <3>2, <3>4 DEF Moment
        <3> QED
            BY <2>3, <2>4, <3>1, <3>3, <3>5
    <2> QED
        BY <2>4, <2>2, <2>5, <2>6, <2>7
<1>2. QuotesInv => NobodyIsOfferedThePast
    BY <1>1 DEF NobodyIsOfferedThePast
<1> QED
    BY <1>2, QuotesAlways, PTL

\* What the patterns find of days and hours in the caller's words outlives whatever
\* the model made of them (_fix_the_direction, _civil_floor, _restricted_days).
THEOREM OffersKeepTheHours == Spec => []StatedHoursStand
<1>1. ASSUME QuotesInv, NEW s \in offer.asked
      PROVE  /\ IsHour(LowerBound(said.text)) => LowerBound(said.text) * HourLen <= s.arrive
             /\ said.text.after = Unsaid /\ Call.latest = Unsaid => CivilHour * HourLen <= s.arrive
             /\ said.text.only # {} => s.day \in said.text.only
    <2>1. Asked /\ OnTime(s) /\ AsAsked(s)
        BY <1>1 DEF QuotesInv, SlotsOK
    <2>2. HeardAs(said.call, said.text, Call)
        BY <2>1, AskedMeans
    <2>0. ASSUME NEW a \in Nat, NEW b \in Nat, a <= b PROVE a * HourLen <= b * HourLen
        BY <2>0, QuotesConstants
    <2>3. ASSUME IsHour(LowerBound(said.text))
          PROVE  LowerBound(said.text) * HourLen <= s.arrive
        <3>1. Call.earliest # Unsaid /\ Call.earliest \in Nat /\ LowerBound(said.text) <= Call.earliest
            BY <2>2, <2>3, HourTyped DEF HeardAs
        <3>2. LowerBound(said.text) \in Nat
            <4>1. IsText(said.text)
                BY <2>1, AskedMeans
            <4>2. LowerBound(said.text) \in Matches
                BY <4>1 DEF LowerBound, IsText, Hours, Matches
            <4> QED
                BY <2>3, <4>2, MatchTyped, HourTyped
        <3>3. Call.earliest * HourLen <= s.arrive
            BY <2>1, <3>1 DEF AsAsked, AskedFrom
        <3>4. LowerBound(said.text) * HourLen <= Call.earliest * HourLen
            BY <2>0, <3>1, <3>2
        <3>5. PICK x \in Nat, y \in Nat : x = LowerBound(said.text) * HourLen /\ y = Call.earliest * HourLen
            BY <3>1, <3>2, QuotesConstants
        <3>6. s.arrive \in Nat
            BY <2>1 DEF OnTime
        <3> QED
            BY <3>3, <3>4, <3>5, <3>6
    <2>4. ASSUME said.text.after = Unsaid, Call.latest = Unsaid
          PROVE  CivilHour * HourLen <= s.arrive
        <3>1. CivilHour \in Nat /\ CivilHour # Unsaid /\ HourLen \in Nat /\ s.arrive \in Nat
            BY <2>1, IntakeConstants, QuotesConstants DEF OnTime
        <3>2. CASE Call.earliest = Unsaid
            BY <2>1, <2>4, <3>1, <3>2 DEF AsAsked, AskedFrom
        <3>3. CASE Call.earliest # Unsaid
            <4>1. PICK h \in Nat : h = Call.earliest /\ CivilHour <= h
                BY <2>2, <2>4, <3>3, HourTyped DEF HeardAs
            <4>2. h * HourLen <= s.arrive
                BY <2>1, <3>3, <4>1 DEF AsAsked, AskedFrom
            <4>3. PICK x \in Nat : x = h * HourLen
                BY <3>1
            <4>4. PICK y \in Nat : y = CivilHour * HourLen
                BY <3>1
            <4>5. y <= x
                BY <3>1, <4>1, <4>3, <4>4
            <4> QED
                BY <3>1, <4>2, <4>3, <4>4, <4>5
        <3> QED
            BY <3>2, <3>3
    <2>5. said.text.only # {} => s.day \in said.text.only
        <3>1. s.day \in IF Call.days = {} THEN Rostered ELSE Call.days
            BY <2>1 DEF OnTime, Horizon
        <3> QED
            BY <2>2, <3>1 DEF HeardAs
    <2> QED
        BY <2>3, <2>4, <2>5
<1>2. QuotesInv => StatedHoursStand
    BY <1>1 DEF StatedHoursStand
<1> QED
    BY <1>2, QuotesAlways, PTL

\* Receipts that the transcript does not bear out weigh nothing in the price.
THEOREM ReceiptsAreGrounded == Spec => []InventedReceiptsAreNotPriced
<1>1. QuotesInv => InventedReceiptsAreNotPriced
    BY AskedMeans, NothingCosts DEF QuotesInv, HeardAs, InventedReceiptsAreNotPriced
<1> QED
    BY <1>1, QuotesAlways, PTL

-----------------------------------------------------------------------------
(* The day that was priced keeps the promise that is made of it.           *)

\* A visit lasts what its job takes.
LEMMA VisitsLast ==
    ASSUME NEW w, NEW days, IsWorld(w, days), NEW d \in Int, NEW today, NEW must, NEW late0,
           NEW result \in PlanDay(w, d, today, must, late0), NEW r \in result.routes, NEW i \in DOMAIN r.stops
    PROVE  /\ r.stops[i].leave = r.stops[i].arrive + w.jobs[r.stops[i].job].dur
           /\ r.stops[i].arrive \in Nat /\ r.day = d
<1>1. PICK js : js = Candidates(w, d, today)
    OBVIOUS
<1>2. PICK s : Solved(w, d, js, must, late0, result, s)
    <2>1. result.routes # {}
        OBVIOUS
    <2> QED
        BY <1>1, <2>1, PlanDaySolved
<1>3. js \in SUBSET DOMAIN w.jobs
    BY <1>1 DEF Candidates
<1>4. PICK q \in s : r = MaterializeRoute(w, d, q)
    BY <1>2 DEF Solved, RoutesOf
<1>5. PICK n : IsRun(w, d, q, js, r, n)
    BY <1>2, <1>4 DEF Solved, AreRuns
<1>6. i \in 1..n /\ Replays(w, d, q, r, n)
    BY <1>5 DEF IsRun, Replays
<1>7. /\ r.stops[i].job = q.stops[i] /\ q.stops[i] \in js /\ r.stops[i].arrive \in Nat
      /\ \E arrival \in Int : EarliestStart(w.jobs[q.stops[i]], d, arrival) <= r.stops[i].arrive
    BY <1>3, <1>5, <1>6, RunStarts
<1>8. r.stops[i].leave = r.stops[i].arrive + w.jobs[q.stops[i]].dur
    <2>1. PICK ready : ready = ReadyFor(q, r, i)
        OBVIOUS
    <2>2. r.stops[i] = StopAfter(w, d, q, i, ready)
        BY <1>6, <2>1 DEF Replays
    <2>3. PICK hop : hop = DepartAndArrive(w, d, Place(w, q.stops, i - 1), w.jobs[q.stops[i]], ready)
        OBVIOUS
    <2>4. r.stops[i] = [job |-> q.stops[i], arrive |-> hop.arrive, leave |-> hop.arrive + w.jobs[q.stops[i]].dur,
                        travel |-> hop.leg]
        BY <2>2, <2>3 DEF StopAfter
    <2> QED
        BY <2>4
<1> QED
    BY <1>6, <1>7, <1>8 DEF Replays

\* A job is one still with another window.
LEMMA WithPromise ==
    ASSUME NEW job, IsJob(job), NEW from \in Int, NEW until \in Int, from < until,
           NEW win, win = [from |-> from, until |-> until, hard |-> FALSE],
           NEW next, DOMAIN next = DOMAIN job, next.windows = <<win>>, next.dur = job.dur,
           next.crew = job.crew, next.ready = job.ready, next.load = job.load,
           next.requested = job.requested
    PROVE  IsJob(next)
<1>1. PICK mid : mid = [job EXCEPT !.windows = <<[from |-> from, until |-> until, hard |-> FALSE]>>]
    OBVIOUS
<1>2. IsJob(mid)
    BY <1>1, WithWindow
<1>3. mid = [job EXCEPT !.windows = <<win>>]
    BY <1>1
<1>4. /\ DOMAIN next = DOMAIN mid /\ next.windows = mid.windows /\ next.dur = mid.dur
      /\ next.crew = mid.crew /\ next.ready = mid.ready /\ next.load = mid.load
      /\ next.requested = mid.requested
    BY <1>3 DEF IsJob
<1> QED
    BY <1>2, <1>4 DEF IsJob

LEMMA WantedIs ==
    ASSUME Asked, Call.service \in Sold, NEW d \in Nat, Opens(d) < Closes(d)
    PROVE  /\ IsJob(Wanted(d)) /\ Wanted(d).windows # <<>>
           /\ Wanted(d).at = Draft.at /\ Wanted(d).dur = Draft.dur /\ Wanted(d).crew = Draft.crew
           /\ Wanted(d).certs = Draft.certs /\ Wanted(d).ready = Draft.ready /\ Wanted(d).load = Draft.load
           /\ Wanted(d).requested = Draft.requested
<1>1. PICK from \in Int, until \in Int : from = Opens(d) /\ until = Closes(d)
    BY OpensMeans, ClosesTyped
<1>2. PICK job : job = Draft
    OBVIOUS
<1>3. IsJob(job) /\ job.state = "draft"
    BY <1>2, DraftTyped
<1>4. PICK win : win = [from |-> from, until |-> until, hard |-> FALSE]
    OBVIOUS
<1>5. PICK next : next = Wanted(d)
    OBVIOUS
<1>6. next = [job EXCEPT !.windows = <<win>>]
    BY <1>1, <1>2, <1>4, <1>5 DEF Wanted
<1>7. from < until
    BY <1>1
<1>8. /\ DOMAIN next = DOMAIN job /\ next.windows = <<win>>
       /\ next.at = job.at /\ next.dur = job.dur /\ next.crew = job.crew
       /\ next.certs = job.certs /\ next.ready = job.ready /\ next.load = job.load
       /\ next.requested = job.requested
    BY <1>3, <1>6 DEF IsJob
<1>9. IsJob(next)
    BY <1>1, <1>3, <1>4, <1>7, <1>8, WithPromise
<1>10. next.windows # <<>>
    BY <1>8
<1> QED
    BY <1>2, <1>5, <1>8, <1>9, <1>10

\* Booking the slot changes the draft's window and state alone.
LEMMA BookedAlike ==
    ASSUME Asked, NEW a, IsJob(a), NEW b, IsJob(b), NEW w, w = With(a), NEW u, u = With(b),
           b.at = a.at, b.dur = a.dur, b.crew = a.crew, b.certs = a.certs, b.ready = a.ready, b.load = a.load
    PROVE  /\ Alike(w, u) /\ IsWorld(w, 1..Calendar) /\ IsWorld(u, 1..Calendar)
           /\ w.jobs["draft"] = a /\ u.jobs["draft"] = b /\ u.vans = w.vans
           /\ DOMAIN u.jobs = DOMAIN w.jobs
           /\ \A j \in DOMAIN w.jobs : j # "draft" => u.jobs[j] = w.jobs[j]
<1>1. /\ IsWorld(w, 1..Calendar) /\ DOMAIN w.jobs = DOMAIN world.jobs \cup {"draft"}
      /\ w.jobs["draft"] = a /\ \A j \in DOMAIN world.jobs : w.jobs[j] = world.jobs[j]
      /\ w.fitters = world.fitters /\ w.vans = world.vans /\ w.delays = world.delays
    BY WithMeans
<1>2. /\ IsWorld(u, 1..Calendar) /\ DOMAIN u.jobs = DOMAIN world.jobs \cup {"draft"}
      /\ u.jobs["draft"] = b /\ \A j \in DOMAIN world.jobs : u.jobs[j] = world.jobs[j]
      /\ u.fitters = world.fitters /\ u.vans = world.vans /\ u.delays = world.delays
    BY WithMeans
<1>3. /\ DOMAIN u.jobs = DOMAIN w.jobs /\ \A j \in DOMAIN w.jobs : j # "draft" => u.jobs[j] = w.jobs[j]
    BY <1>1, <1>2
<1>4. Alike(w, u)
    <2>1. ASSUME NEW j \in DOMAIN w.jobs
          PROVE  /\ j \in DOMAIN u.jobs
                 /\ u.jobs[j].at = w.jobs[j].at /\ u.jobs[j].dur = w.jobs[j].dur
                 /\ u.jobs[j].crew = w.jobs[j].crew /\ u.jobs[j].certs = w.jobs[j].certs
                 /\ u.jobs[j].ready = w.jobs[j].ready /\ u.jobs[j].load = w.jobs[j].load
        <3>1. CASE j = "draft"
            BY <1>1, <1>2, <3>1
        <3>2. CASE j # "draft"
            BY <1>3, <3>2
        <3> QED
            BY <3>1, <3>2
    <2>2. u.fitters = w.fitters /\ u.vans = w.vans /\ u.delays = w.delays
        BY <1>1, <1>2
    <2> QED
        BY <2>1, <2>2 DEF Alike
<1> QED
    BY <1>1, <1>2, <1>3, <1>4

\* The window a customer is told holds the visit it was told from.
LEMMA PromiseHolds ==
    ASSUME NEW arrive \in Nat, NEW dur \in Nat \ {0}, NEW d \in Nat,
           NEW opens, opens = Moment(d, QuotedFrom(arrive))
    PROVE  /\ opens \in Int /\ Clock(d, opens) <= arrive /\ opens < opens + QuotedWindow + dur
           /\ opens + QuotedWindow + dur \in Int
           /\ arrive + dur <= Clock(d, opens + QuotedWindow + dur)
<1>1. PICK q \in Nat \ {0}, z \in Nat : q = Quarter /\ z = QuotedWindow /\ q <= z
    <2>1. Quarter \in Nat \ {0}
        BY CostingConstants
    <2>2. Quarter <= QuotedWindow /\ QuotedWindow \in Nat
        BY QuotesConstants
    <2> QED
        BY <2>1, <2>2
<1>2. PICK o \in Int : o = QuotedFrom(arrive) /\ o <= arrive /\ arrive <= o + z
    <2>1. PICK m : m = arrive % q
        OBVIOUS
    <2>2. m \in 0..q - 1
        BY ONLY <2>1, q \in Nat \ {0}, arrive \in Nat
    <2>3. QuotedFrom(arrive) = arrive - m
        BY <1>1, <2>1 DEF QuotedFrom
    <2> QED
        BY <1>1, <2>2, <2>3
<1>3. PICK y \in Int : y = (d - 1) * Minutes
    BY HoursConstants
<1>4. opens = y + o
    BY <1>2, <1>3 DEF Moment
<1>5. Clock(d, opens) = o
    BY <1>3, <1>4 DEF Clock
<1>6. Clock(d, opens + QuotedWindow + dur) = o + z + dur
    BY <1>1, <1>3, <1>4 DEF Clock
<1> QED
    BY <1>1, <1>2, <1>4, <1>5, <1>6

\* What a day was priced from, while it can still be asked about.
PricedOn(d, result, must) ==
    /\ d \in Horizon /\ d \notin due /\ Opens(d) < Closes(d) /\ Call.service \in Sold
    /\ result \in PlanDay(With(Wanted(d)), d, Existing(d) \cup {"draft"}, must, TRUE)
    /\ trial.routes = result.routes /\ trial.released = result.released
    /\ \A s \in slots : s.day = d => \E before : s = Slot(d, result.routes, before)

TrialPriced ==
    /\ Tried => \E result, must : PricedOn(trial.day, result, must)
    /\ phase \in {"call", "cut"} => ~Tried
    /\ phase = "call" => slots = {}
    /\ \A s \in slots : s.day \notin due

LEMMA PromiseKept ==
    ASSUME QuotesInv, TrialPriced
    PROVE  QuotedSlotCanBeKept
<1> SUFFICES ASSUME Tried, trial.released = {}, SeenAlike(With(Wanted(trial.day)), trial.day, TRUE),
                    NEW s \in slots, s.day = trial.day, NEW opens, opens = Moment(s.day, s.opens),
                    NEW booked, booked = [Draft EXCEPT !.windows = <<[from |-> opens,
                                                                      until |-> opens + QuotedWindow + Draft.dur,
                                                                      hard |-> FALSE]>>,
                                                       !.state = "confirmed"]
             PROVE  Violations(trial.routes, With(booked), {}, TRUE) = {}
    BY DEF QuotedSlotCanBeKept
<1>1. PICK d : d = trial.day
    OBVIOUS
<1>2. PICK result, must : PricedOn(d, result, must)
    BY <1>1 DEF TrialPriced
<1>3. /\ d \in Horizon /\ Opens(d) < Closes(d) /\ Call.service \in Sold /\ Asked
      /\ result \in PlanDay(With(Wanted(d)), d, Existing(d) \cup {"draft"}, must, TRUE)
      /\ trial.routes = result.routes /\ trial.released = result.released
    BY <1>2 DEF PricedOn, QuotesInv
<1>4. d \in Nat /\ d \in Int /\ d \in 1..Calendar
    BY <1>3, HorizonMeans
<1>5. PICK draft : draft = Draft
    OBVIOUS
<1>6. IsJob(draft)
    BY <1>3, <1>5, DraftTyped
<1>7. PICK a : a = Wanted(d)
    OBVIOUS
<1>8. /\ IsJob(a) /\ a.windows # <<>> /\ a.at = draft.at /\ a.dur = draft.dur /\ a.crew = draft.crew
      /\ a.certs = draft.certs /\ a.ready = draft.ready /\ a.load = draft.load
      /\ a.requested = draft.requested
    BY <1>3, <1>4, <1>5, <1>7, WantedIs
<1>9. PICK w : w = With(a)
    OBVIOUS
<1>10. IsWorld(w, 1..Calendar) /\ w.jobs["draft"] = a
    BY <1>3, <1>8, <1>9, WithMeans
<1>11. result \in PlanDay(w, d, Existing(d) \cup {"draft"}, must, TRUE)
    BY <1>3, <1>7, <1>9
<1>12. ASSUME NEW r \in result.routes, NEW i \in DOMAIN r.stops
       PROVE  /\ r.stops[i].leave = r.stops[i].arrive + w.jobs[r.stops[i].job].dur
              /\ r.stops[i].arrive \in Nat /\ r.day = d
    <2>1. PICK today, late0, days : today = Existing(d) \cup {"draft"} /\ late0 = TRUE /\ days = 1..Calendar
        OBVIOUS
    <2>2. /\ result \in PlanDay(w, d, today, must, late0) /\ IsWorld(w, days) /\ d \in Int
        BY <1>4, <1>10, <1>11, <2>1
    <2> QED
        BY ONLY <2>2, <1>12, VisitsLast
<1>13. DaySound(w, TRUE, result.routes)
    <2>1. PerMinute = 1 /\ SeenAlike(w, d, TRUE) /\ result.released \cap Stopped(result.routes) = {}
        BY <1>1, <1>3, <1>7, <1>9, QuotesConstants
    <2> QED
        BY <1>4, <1>10, <1>11, <2>1, PlanDaySound
<1>14. \A r \in result.routes : RouteTyped(r)
    BY <1>4, <1>10, <1>11, PlanDayTyped
<1>15. PICK stop : stop = CHOOSE x \in UNION {ToSet(r.stops) : r \in result.routes} : x.job = "draft"
    OBVIOUS
<1>16. PICK route \in result.routes : \E i \in DOMAIN route.stops : stop = route.stops[i] /\ stop.job = "draft"
    <2>1. \E x \in UNION {ToSet(r.stops) : r \in result.routes} : x.job = "draft"
        BY <1>3 DEF Tried, Stopped
    <2>2. stop \in UNION {ToSet(r.stops) : r \in result.routes} /\ stop.job = "draft"
        BY <1>15, <2>1
    <2> QED
        BY <2>2 DEF ToSet
<1>17. PICK k \in DOMAIN route.stops : stop = route.stops[k] /\ stop.job = "draft"
    BY <1>16
<1>18. stop.arrive \in Nat /\ stop.leave = stop.arrive + draft.dur
    <2>1. /\ route.stops[k].leave = route.stops[k].arrive + w.jobs[route.stops[k].job].dur
          /\ route.stops[k].arrive \in Nat /\ route.day = d
        BY <1>12
    <2> QED
        BY <1>8, <1>10, <1>17, <2>1
<1>19. s.opens = QuotedFrom(stop.arrive)
    <2>1. PICK before : s = Slot(d, result.routes, before)
        BY <1>1, <1>2 DEF PricedOn
    <2> QED
        BY <1>15, <2>1, SlotMeans
<1>20. draft.dur \in Nat \ {0}
    BY <1>6 DEF IsJob
<1>21. PICK until : until = opens + QuotedWindow + draft.dur
    OBVIOUS
<1>22. /\ opens \in Int /\ until \in Int /\ opens < until /\ Clock(d, opens) <= stop.arrive
       /\ stop.leave <= Clock(d, until)
    BY <1>1, <1>4, <1>18, <1>19, <1>20, <1>21, PromiseHolds
<1>23. PICK win, state : /\ win = [from |-> opens, until |-> until, hard |-> FALSE] /\ state = "confirmed"
                          /\ booked = [draft EXCEPT !.windows = <<win>>, !.state = state]
    BY <1>5, <1>21
<1>24. /\ DOMAIN booked = DOMAIN draft /\ booked.windows = <<win>>
       /\ booked.at = draft.at /\ booked.dur = draft.dur
       /\ booked.crew = draft.crew /\ booked.certs = draft.certs /\ booked.ready = draft.ready
       /\ booked.load = draft.load /\ booked.requested = draft.requested
    BY <1>6, <1>23 DEF IsJob
<1>25. IsJob(booked)
    <2>1. PICK from \in Int, close \in Int : from = opens /\ close = until /\ from < close
        BY <1>22
    <2>2. win = [from |-> from, until |-> close, hard |-> FALSE]
        BY <1>23, <2>1
    <2> QED
        BY ONLY <1>6, <1>24, <2>1, <2>2, WithPromise
<1>26. PICK u : u = With(booked)
    OBVIOUS
<1>27. /\ Alike(w, u) /\ IsWorld(u, 1..Calendar) /\ u.jobs["draft"] = booked /\ u.vans = w.vans
       /\ \A j \in DOMAIN w.jobs : j # "draft" => u.jobs[j] = w.jobs[j]
    <2>1. /\ booked.at = a.at /\ booked.dur = a.dur /\ booked.crew = a.crew
          /\ booked.certs = a.certs /\ booked.ready = a.ready /\ booked.load = a.load
        BY <1>8, <1>24
    <2>2. Asked /\ IsJob(a) /\ IsJob(booked)
        BY <1>3, <1>8, <1>25
    <2>3. /\ Alike(w, u) /\ IsWorld(w, 1..Calendar) /\ IsWorld(u, 1..Calendar)
          /\ w.jobs["draft"] = a /\ u.jobs["draft"] = booked /\ u.vans = w.vans
          /\ DOMAIN u.jobs = DOMAIN w.jobs
          /\ \A j \in DOMAIN w.jobs : j # "draft" => u.jobs[j] = w.jobs[j]
        BY ONLY <1>9, <1>26, <2>1, <2>2, BookedAlike
    <2> QED
        BY <2>3
<1>28. ASSUME NEW r \in result.routes, NEW i \in DOMAIN r.stops PROVE Windowed(u, r, i)
    <2>1. Windowed(w, r, i) /\ r.stops[i].job \in DOMAIN w.jobs
        BY <1>13 DEF DaySound, Sound, Knows
    <2>2. CASE r.stops[i].job # "draft"
        BY <1>27, <2>1, <2>2 DEF Windowed
    <2>3. CASE r.stops[i].job = "draft"
        <3>1. r = route /\ i = k
            BY <1>13, <1>17, <2>3 DEF DaySound, RoutesOK, Once
        <3>2. r.stops[i] = stop /\ r.day = d
            BY <1>17, <1>12, <3>1
        <3>3. ~(stop.arrive < Clock(d, a.requested))
            BY <1>8, <1>10, <2>1, <2>3, <3>2 DEF Windowed
        <3>4. MatchesWindow(booked, stop, d, FALSE)
            <4>1. ToSet(booked.windows) = {win}
                BY <1>24 DEF ToSet
            <4>2. Clock(d, win.from) <= stop.arrive /\ stop.leave <= Clock(d, win.until)
                BY <1>22, <1>23
            <4> QED
                BY <4>1, <4>2 DEF MatchesWindow
        <3>5. u.jobs[r.stops[i].job] = booked /\ booked.requested = a.requested
            BY <1>8, <1>24, <1>27, <2>3
        <3>6. MatchesWindow(booked, stop, d, FALSE) /\ ~(stop.arrive < Clock(d, booked.requested))
            BY <3>3, <3>4, <3>5
        <3> QED
            BY <3>2, <3>5, <3>6 DEF Windowed
    <2> QED
        BY <2>2, <2>3
<1>29. ASSUME NEW r \in result.routes PROVE Sound(u, TRUE, r) /\ VanFree(u, r)
    <2>1. Sound(w, TRUE, r) /\ VanFree(w, r)
        BY <1>13 DEF DaySound
    <2>2. Sound(u, TRUE, r)
        BY <1>10, <1>14, <1>27, <1>28, <2>1, SoundElsewhere
    <2>3. VanFree(u, r)
        BY <1>27, <2>1 DEF VanFree
    <2> QED
        BY <2>2, <2>3
<1>30. Violations(result.routes, u, {}, TRUE) = {}
    BY <1>13, <1>29, CleanMeans DEF DaySound
<1> QED
    BY <1>3, <1>26, <1>30

\* Every step leaves what was priced of the day that is asked about.
LEMMA TrialPricedKept == ASSUME QuotesInv, TrialPriced, [Next]_vars PROVE TrialPriced'
<1>1. Asked /\ due \subseteq Horizon
    BY DEF QuotesInv
<1>2. UNCHANGED <<world, now, said>>
    BY DEF Next, vars, AskTheCaller, OpenTheSearch, SolveDay, NoSuchWindow, Cut, Relax, CutFlexible
<1>3. Horizon' = Horizon /\ Call' = Call /\ NotBefore' = NotBefore /\ \A d : Existing(d)' = Existing(d)
    BY <1>2, SameSearch
<1>4. Draft' = Draft
    BY <1>2, <1>3 DEF Draft
<1>5. \A job : With(job)' = With(job)
    BY <1>2 DEF With
<1>6. \A d, routes, before : Slot(d, routes, before)' = Slot(d, routes, before)
    BY <1>4, <1>5 DEF Slot
<1>7. ASSUME UNCHANGED relaxed
      PROVE  \A d : Opens(d)' = Opens(d) /\ Closes(d)' = Closes(d) /\ With(Wanted(d))' = With(Wanted(d))
    <2>1. EarliestHour' = EarliestHour /\ LatestHour' = LatestHour
        BY <1>3, <1>7 DEF EarliestHour, LatestHour
    <2>2. \A d : Floor(d)' = Floor(d)
        BY <1>3 DEF Floor
    <2>3. \A d : Opens(d)' = Opens(d) /\ Closes(d)' = Closes(d)
        BY <2>1, <2>2 DEF Opens, Closes
    <2>4. \A d : Wanted(d)' = Wanted(d)
        BY <1>4, <2>3 DEF Wanted
    <2> QED
        BY <1>2, <2>3, <2>4 DEF With
<1>8. ASSUME UNCHANGED <<relaxed, trial, slots, due>>
      PROVE  \A d, result, must : PricedOn(d, result, must) => PricedOn(d, result, must)'
    BY <1>3, <1>6, <1>7, <1>8 DEF PricedOn
<1>9. CASE AskTheCaller \/ NoSuchWindow \/ UNCHANGED vars
    <2>1. UNCHANGED <<relaxed, trial, slots, due>> /\ (phase' \in {"asked", "failed"} \/ phase' = phase)
        BY <1>9 DEF AskTheCaller, NoSuchWindow, vars
    <2>2. Tried' = Tried
        BY <2>1 DEF Tried
    <2>3. Tried' => \E result, must : PricedOn(trial.day, result, must)'
        BY <1>8, <2>1, <2>2 DEF TrialPriced
    <2> QED
        BY <2>1, <2>2, <2>3 DEF TrialPriced
<1>10. CASE OpenTheSearch
    <2>1. slots' = {} /\ phase' = "search" /\ ~Tried /\ UNCHANGED trial
        BY <1>10 DEF OpenTheSearch, TrialPriced
    <2>2. ~Tried'
        BY <2>1 DEF Tried
    <2> QED
        BY <2>1, <2>2 DEF TrialPriced
<1>11. CASE Cut \/ CutFlexible
    <2>1. trial' = NoTrial /\ UNCHANGED <<slots, due>> /\ phase' # "call"
        BY <1>11 DEF Cut, CutFlexible
    <2>2. ~Tried'
        BY <2>1 DEF Tried, NoTrial, Stopped
    <2> QED
        BY <2>1, <2>2 DEF TrialPriced
<1>12. CASE Relax
    <2>1. slots' = {} /\ phase' = "search" /\ ~Tried /\ UNCHANGED trial
        BY <1>12 DEF Relax, TrialPriced
    <2>2. ~Tried'
        BY <2>1 DEF Tried
    <2> QED
        BY <2>1, <2>2 DEF TrialPriced
<1>13. CASE SolveDay
    <2>1. PICK d : d = Min(due)
        OBVIOUS
    <2>2. /\ d \in due /\ d \in Horizon /\ phase = "search" /\ phase' = phase /\ UNCHANGED relaxed
          /\ due' = due \ {d} /\ Opens(d) < Closes(d) /\ Call.service \in Sold
        BY <1>1, <1>13, <2>1, DueDay DEF SolveDay, Asked
    <2>3. PICK before, result :
            /\ result \in PlanDay(With(Wanted(d)), d, Existing(d) \cup {"draft"}, Locked(before), TRUE)
            /\ trial' = [day |-> d, routes |-> result.routes, released |-> result.released,
                         before |-> before.served, promised |-> before.kept]
            /\ IF "draft" \in Stopped(result.routes)
               THEN slots' = slots \cup {Slot(d, result.routes, before)} /\ UNCHANGED refused
               ELSE refused' = Put(refused, d, result.unserved["draft"]) /\ UNCHANGED slots
        BY <1>13, <2>1 DEF SolveDay
    <2>4. trial'.day = d /\ trial'.routes = result.routes /\ trial'.released = result.released
        BY <2>3
    <2>5. \A s \in slots : s.day # d /\ s.day \notin due
        BY <2>2 DEF TrialPriced
    <2>6. ASSUME NEW s \in slots' PROVE s \in slots \/ s = Slot(d, result.routes, before)
        BY <2>3, <2>6
    <2>7. Slot(d, result.routes, before).day = d
        BY SlotMeans
    <2>8. \A s \in slots' : s.day \notin due'
        BY <2>2, <2>5, <2>6, <2>7
    <2>9. PICK must : must = Locked(before)
        OBVIOUS
    <2>10. PricedOn(d, result, must)'
        <3>1. /\ Opens(d)' = Opens(d) /\ Closes(d)' = Closes(d) /\ With(Wanted(d))' = With(Wanted(d))
              /\ Existing(d)' = Existing(d)
            BY <1>3, <1>7, <2>2
        <3>2. \A s \in slots' : s.day = d => \E b : s = Slot(d, result.routes, b)'
            BY <1>6, <2>5, <2>6
        <3>3. d \notin due'
            BY <2>2
        <3>4. result \in PlanDay(With(Wanted(d)), d, Existing(d) \cup {"draft"}, must, TRUE)
            BY <2>3, <2>9
        <3> QED
            BY <1>3, <2>2, <2>4, <3>1, <3>2, <3>3, <3>4 DEF PricedOn
    <2> QED
        BY <2>2, <2>4, <2>8, <2>10 DEF TrialPriced
<1> QED
    BY <1>9, <1>10, <1>11, <1>12, <1>13 DEF Next

\* The window that is promised from a quote is one that the priced day keeps,
\* with everybody else's (booking_slots, and the promise made of a slot in
\* api/main.py): for any call, fleet, week and roads on which planner and
\* checker see alike.
THEOREM QuotesAreKept == Spec => []QuotedSlotCanBeKept
<1>1. Init => TrialPriced
    BY DEF Init, TrialPriced, Tried, NoTrial, Stopped
<1>2. QuotesInv /\ TrialPriced /\ [Next]_vars => TrialPriced'
    BY TrialPricedKept
<1>3. QuotesInv /\ TrialPriced => QuotedSlotCanBeKept
    BY PromiseKept
<1> QED
    BY <1>1, <1>2, <1>3, QuotesAlways, PTL DEF Spec
=============================================================================
