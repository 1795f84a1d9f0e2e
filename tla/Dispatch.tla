------------------------------ MODULE Dispatch -------------------------------
(***************************************************************************)
(* The request handlers of krama (api/main.py and the CLI's commit), run   *)
(* by request threads, Lambda invocations or shells against one workspace: *)
(* the event log and the plan store.  A handler reads the world, appends   *)
(* what happened, plans, and commits; between any two of those accesses    *)
(* other handlers run, and the process may stop.                           *)
(*                                                                         *)
(* A plan version is [parent, content]; its content says which jobs it     *)
(* serves, with the minutes on site each was given, and which it leaves.   *)
(* Which of the admissible plans the solver returns is left open.          *)
(***************************************************************************)
EXTENDS PlanStore, Integers, Sequences, FiniteSets

CONSTANTS Fitters,      \* workers who may claim overtime
          Kinds,        \* which handlers run
          RoomForAll,   \* whether every plan serves everybody: a solver under no pressure
          Crashes,      \* whether a process may stop in the middle of a handler
          MaxRequests,  \* bound: requests served in a behaviour
          MaxBookings,  \* bound: only the first so many of them may be bookings
          MaxOverruns,  \* bound: how often a crew reports that a job overran
          Strategies    \* bound: the repair strategies told apart

AllKinds == {"book", "cancel", "claim", "commit", "crew", "repair", "outage",
             "started", "overran", "cli"}

ASSUME DispatchConstants ==
    /\ Kinds \subseteq AllKinds
    /\ RoomForAll \in BOOLEAN /\ Crashes \in BOOLEAN
    /\ Strategies \subseteq Nat
    /\ MaxRequests \in Nat /\ MaxBookings \in Nat /\ MaxOverruns \in Nat
    /\ None \notin Fitters

VARIABLES log,     \* events in the order they were appended
          clock,   \* stamps handed out so far: datetime.now
          served,  \* requests begun so far
          step,    \* writer -> its handler's next access
          req,     \* writer -> what it was asked, and the stamp it put on it
          view,    \* writer -> how long the log was when it read the world it plans
          base,    \* writer -> the head it plans against
          cand     \* writer -> the plan it is about to commit

handlerVars == <<log, clock, served, step, req, view, base, cand>>
vars == <<handlerVars, storeVars>>

NoReq == [kind |-> "none", job |-> 0, who |-> None, at |-> 0, force |-> FALSE]

Init ==
    /\ StoreInit
    /\ log = <<>> /\ clock = 0 /\ served = 0
    /\ step = [w \in Writers |-> "idle"]
    /\ req  = [w \in Writers |-> NoReq]
    /\ view = [w \in Writers |-> 0]
    /\ base = [w \in Writers |-> None]
    /\ cand = [w \in Writers |-> NoPlan]

-----------------------------------------------------------------------------
(* The world: the fold of the first n events appended, taken in the order  *)
(* of their stamps (recorded_at).                                          *)

Events(n) == {log[i] : i \in 1..n}
Now == Len(log)

About(n, j, kinds) == {e \in Events(n) : e.job = j /\ e.kind \in kinds}

\* The last of some events to have been recorded, or an event before them all.
Latest(events) == IF events = {} THEN [kind |-> "none", at |-> 0, job |-> 0, who |-> None]
                  ELSE CHOOSE e \in events : \A f \in events : f.at <= e.at

Jobs(n) == {e.job : e \in {f \in Events(n) : f.kind = "booked"}}

\* JobRequested+JobConfirmed, JobStarted and JobCancelled each set the state,
\* whatever it was; all but the first need the job to be there.
JobState(n, j) ==
    LET last == Latest(About(n, j, {"booked", "started", "cancelled"})).kind
    IN IF j \notin Jobs(n) THEN "unknown"
       ELSE IF last = "booked" THEN "confirmed"
       ELSE IF last = "started" THEN "dispatched" ELSE "cancelled"

Active(n)      == {j \in Jobs(n) : JobState(n, j) # "cancelled"}
Schedulable(n) == {j \in Jobs(n) : JobState(n, j) = "confirmed"}
Locked(n)      == {j \in Jobs(n) : JobState(n, j) = "dispatched"}

\* estimated_duration_min, in units of one overrun.  JobRequested replaces
\* the job, overruns and all.
Minutes(n, j) ==
    Cardinality({e \in About(n, j, {"overran"}) : e.at > Latest(About(n, j, {"booked"})).at})

\* An offer stands from OvertimeOffered until JobCancelled pops it.
OfferOf(n, j) ==
    LET offer == Latest(About(n, j, {"offered"}))
    IN IF offer.kind = "none" \/ Latest(About(n, j, {"cancelled"})).at > offer.at
       THEN Latest({}) ELSE offer
HasOffer(n, j) == OfferOf(n, j).kind = "offered"

\* First reply wins: the claim with the earliest stamp since the offer.
ClaimsOn(n, j) == {e \in About(n, j, {"claimed"}) : e.at > OfferOf(n, j).at}
ClaimedBy(n, j) ==
    IF ~HasOffer(n, j) \/ ClaimsOn(n, j) = {} THEN None
    ELSE (CHOOSE e \in ClaimsOn(n, j) : \A f \in ClaimsOn(n, j) : e.at <= f.at).who

-----------------------------------------------------------------------------
(* Planning.                                                               *)

Placed(id) == IF id = None THEN {} ELSE DOMAIN stored[id].content.minutes
Left(id)   == IF id = None THEN {} ELSE stored[id].content.left

\* cmd_commit carves nothing out.
CarryNothing(id, n) == {{}}

\* carve_out_locked: every route of the base is carried up to its last locked
\* stop.  Which stops come before that one on a route is left open.
Carried(id, n) ==
    LET fixed == Locked(n) \cap Placed(id)
    IN IF fixed = {} THEN {{}} ELSE {c \in SUBSET Placed(id) : fixed \subseteq c}

\* Mutant: what does not fit is not reported either.
SilentHorizon(id, n, carried, new) ==
    [minutes |-> [j \in carried \cup new |->
                    IF j \in carried THEN stored[id].content.minutes[j] ELSE Minutes(n, j)],
     left    |-> {}]

\* plan_horizon over what the carried stops leave: each schedulable job is
\* either routed, with the minutes it needs, or reported unserved.
Horizon(id, n, carried, new) ==
    [minutes |-> [j \in carried \cup new |->
                    IF j \in carried THEN stored[id].content.minutes[j] ELSE Minutes(n, j)],
     left    |-> (Schedulable(n) \ carried) \ new]

Solutions(id, n, carve) ==
    UNION {{Horizon(id, n, carried, new) :
              new \in IF RoomForAll THEN {Schedulable(n) \ carried}
                                    ELSE SUBSET (Schedulable(n) \ carried)} : carried \in carve}

\* What of validate_plan depends on the log: every stop is of a known job and
\* gives it the time it needs now.
Feasible(content, n) ==
    \A j \in DOMAIN content.minutes : j \in Jobs(n) /\ content.minutes[j] >= Minutes(n, j)

-----------------------------------------------------------------------------
(* Requests.                                                               *)

GoTo(w, s) == step' = [step EXCEPT ![w] = s]

Done(w) ==
    /\ GoTo(w, "idle")
    /\ req'  = [req EXCEPT ![w] = NoReq]
    /\ view' = [view EXCEPT ![w] = 0]
    /\ base' = [base EXCEPT ![w] = None]
    /\ cand' = [cand EXCEPT ![w] = NoPlan]

Ask(w, kind, j, who, s) ==
    /\ step[w] = "idle" /\ kind \in Kinds
    /\ served < MaxRequests /\ served' = served + 1
    /\ req' = [req EXCEPT ![w] = [NoReq EXCEPT !.kind = kind, !.job = j, !.who = who]]
    /\ GoTo(w, s)
    /\ UNCHANGED <<log, clock, view, base, cand, storeVars>>

\* As Ask, for a handler that stamps its event right after the read.
AskStamped(w, kind, j, who) ==
    /\ step[w] = "idle" /\ kind \in Kinds
    /\ served < MaxRequests /\ served' = served + 1
    /\ clock' = clock + 1
    /\ req' = [req EXCEPT ![w] = [NoReq EXCEPT !.kind = kind, !.job = j, !.who = who,
                                               !.at = clock']]
    /\ GoTo(w, "append")
    /\ UNCHANGED <<log, view, base, cand, storeVars>>

\* book_slot first looks for the caller among the active jobs; a caller who is
\* found is only warned about, so a booking can proceed from any world.
Book(w) == served < MaxBookings /\ Ask(w, "book", 0, None, "mint")

\* cancel_job: the job must be there and not cancelled already.
Cancel(w) == \E j \in Active(Now) : AskStamped(w, "cancel", j, None)

\* claim_overtime: there is an offer and nobody has taken it.
Claim(w) == \E j \in Jobs(Now), f \in Fitters :
              HasOffer(Now, j) /\ ClaimedBy(Now, j) = None /\ AskStamped(w, "claim", j, f)

\* commit_plan (and the MCP tool plan_week with commit), set_crew, apply_repair.
CommitPlan(w) == Ask(w, "commit", 0, None, "world")
SetCrew(w) == \E j \in Active(Now) : Ask(w, "crew", j, None, "world")
Repair(w) == Ask(w, "repair", 0, None, "base")

\* krama commit.
CommitFromCLI(w) == Ask(w, "cli", 0, None, "world")

\* record_event, for what a crew reports of a job on the board, and for a
\* worker or van that drops out.  Nothing is read first.
Record(w) ==
    \/ \E j \in Schedulable(Now) : AskStamped(w, "started", j, None)
    \/ \E j \in Active(Now) : Minutes(Now, j) < MaxOverruns /\ AskStamped(w, "overran", j, None)
Outage(w) == AskStamped(w, "outage", 0, None)

-----------------------------------------------------------------------------
(* Steps of a handler.                                                     *)

\* Job ids are minted as the highest so far plus one.
HighestJob == IF Jobs(Now) = {} THEN 0 ELSE CHOOSE j \in Jobs(Now) : \A k \in Jobs(Now) : k <= j

\* book_slot reads the world again and mints the job id from it.
MintJob(w) ==
    /\ step[w] = "mint"
    /\ clock' = clock + 1
    /\ req' = [req EXCEPT ![w].job = HighestJob + 1, ![w].at = clock']
    /\ GoTo(w, "append")
    /\ UNCHANGED <<log, served, view, base, cand, storeVars>>

EventKind(kind) == CASE kind = "book"   -> "booked"
                     [] kind = "cancel" -> "cancelled"
                     [] kind = "claim"  -> "claimed"
                     [] OTHER           -> kind

Event(w, kind) == [kind |-> kind, job |-> req[w].job, who |-> req[w].who, at |-> req[w].at]

\* Where a handler goes once its events are in the log.
AfterAppend(kind) == IF kind \in {"book", "cancel", "claim"} THEN "world"
                     ELSE IF kind = "outage" THEN "quiet" ELSE "idle"

AppendEvent(w) ==
    /\ step[w] = "append"
    /\ log' = Append(log, Event(w, EventKind(req[w].kind)))
    /\ IF AfterAppend(req[w].kind) = "idle" THEN Done(w)
       ELSE GoTo(w, AfterAppend(req[w].kind)) /\ UNCHANGED <<req, view, base, cand>>
    /\ UNCHANGED <<clock, served, storeVars>>

\* S3EventLog.append raises PlanConflict when another append got in between
\* its read and its write; no handler catches that.
AppendRefused(w) ==
    /\ step[w] \in {"append", "float"}
    /\ ConditionalWrites
    /\ \E v \in Writers \ {w} : step[v] # "idle"
    /\ Done(w)
    /\ UNCHANGED <<log, clock, served, storeVars>>

\* It raises the same when its write took effect, the response was lost and the
\* client repeated the request: the events are in the log, and the handler
\* stops.  (An offer is the last thing a booking does: there this is Float.)
AppendUnheard(w) ==
    /\ step[w] = "append"
    /\ ConditionalWrites
    /\ log' = Append(log, Event(w, EventKind(req[w].kind)))
    /\ Done(w)
    /\ UNCHANGED <<clock, served, storeVars>>

\* plan_week and repair: self.world().
ReadWorld(w) ==
    /\ step[w] = "world"
    /\ view' = [view EXCEPT ![w] = Now]
    /\ GoTo(w, IF req[w].kind = "repair" THEN "choose" ELSE "base")
    /\ UNCHANGED <<log, clock, served, req, base, cand, storeVars>>

\* Handlers that name the head they planned against when they commit; the
\* others read the head once more just before.
NamesItsBase(kind) == kind \in {"repair", "outage", "cli"}

\* self.head().  A repair needs one.
ReadBase(w) ==
    /\ step[w] = "base"
    /\ IF HeadUnreadable \/ (head = None /\ req[w].kind \in {"repair", "outage"})
       THEN Done(w) /\ UNCHANGED storeVars
       ELSE /\ base' = [base EXCEPT ![w] = head]
            /\ IF NamesItsBase(req[w].kind) THEN ReadHead(w) ELSE UNCHANGED storeVars
            /\ GoTo(w, CASE req[w].kind = "repair" -> "world"
                         [] req[w].kind = "outage" -> "reroute"
                         [] OTHER -> "mintplan")
            /\ UNCHANGED <<req, view, cand>>
    /\ UNCHANGED <<log, clock, served>>

HistoryReadable == \A id \in DOMAIN stored : stored[id] # Torn

\* Who looks at result.feasible or the violations before committing.
ChecksPlan(kind) == kind \notin {"book", "cancel", "claim"}

\* The checks of commit_plan, set_crew and cmd_commit on the plan they made.
Acceptable(w, content) ==
    /\ ChecksPlan(req[w].kind) => Feasible(content, view[w])
    /\ req[w].kind = "crew" => req[w].job \in DOMAIN content.minutes

\* plan_week, from _next_plan_id on: the id is the length of the history plus
\* one.  cmd_commit does the same without carving out what is under way.
Plan(w) ==
    /\ step[w] = "mintplan"
    /\ \/ /\ HistoryReadable
          /\ \E content \in Solutions(base[w], view[w],
                                      IF req[w].kind = "cli" THEN CarryNothing(base[w], view[w])
                                                             ELSE Carried(base[w], view[w])) :
                /\ Acceptable(w, content)
                /\ cand' = [cand EXCEPT ![w] =
                              [id |-> <<Cardinality(DOMAIN stored) + 1>>,
                               version |-> [parent |-> base[w], content |-> content]]]
          /\ GoTo(w, IF req[w].kind = "cli" THEN "commit" ELSE "head")
          /\ UNCHANGED <<req, view, base>>
       \/ /\ ChecksPlan(req[w].kind) \/ ~HistoryReadable
          /\ Done(w)
    /\ UNCHANGED <<log, clock, served, storeVars>>

\* head = svc.head(), once more.
RereadHead(w) ==
    /\ step[w] = "head"
    /\ IF HeadUnreadable
       THEN Done(w) /\ UNCHANGED storeVars
       ELSE ReadHead(w) /\ GoTo(w, "commit") /\ UNCHANGED <<req, view, base, cand>>
    /\ UNCHANGED <<log, clock, served>>

\* Mutant: the candidate is a sibling of the version it repairs.
Sibling(w, strategy, content) ==
    [id |-> Append(base[w], strategy),
     version |-> [parent |-> stored[base[w]].parent, content |-> content]]

Candidate(w, strategy, content) ==
    [id |-> Append(base[w], strategy), version |-> [parent |-> base[w], content |-> content]]

\* A promised job of the base that the candidate would not serve.
Drops(w, content, n) ==
    {j \in Placed(base[w]) : j \in Active(n) /\ j \notin DOMAIN content.minutes}

\* Mutant: the policy never escalates.
NeverForce(w, content) == FALSE

\* AutonomyPolicy: dropping a promised job always escalates, and so may other
\* changes; then only a dispatcher's force applies the candidate.
NeedsForce(w, content) == Drops(w, content, view[w]) # {}

\* apply_repair: the dispatcher names one of the candidates, which is checked
\* against the world as it is read now, and forces it when the policy asks for
\* a person.
Choose(w) ==
    /\ step[w] = "choose"
    /\ \/ \E content \in Solutions(base[w], view[w], Carried(base[w], view[w])),
             strategy \in Strategies :
            /\ Feasible(content, Now)
            /\ cand' = [cand EXCEPT ![w] = Candidate(w, strategy, content)]
            /\ req' = [req EXCEPT ![w].force = NeedsForce(w, content)]
            /\ GoTo(w, "commit")
            /\ UNCHANGED <<view, base>>
       \/ Done(w)
    /\ UNCHANGED <<log, clock, served, storeVars>>

\* _quiet_reroute: the world the candidate will be checked against is read
\* before the repair.  (The head it also reads only decides whether to go on.)
ReadForReroute(w) ==
    /\ step[w] = "quiet"
    /\ \/ /\ view' = [view EXCEPT ![w] = Now]
          /\ GoTo(w, "base") /\ UNCHANGED <<req, base, cand>>
       \/ Done(w)
    /\ UNCHANGED <<log, clock, served, storeVars>>

\* Mutant: as many are served as before.
ServesAsMany(w, content) == Cardinality(Placed(base[w])) <= Cardinality(DOMAIN content.minutes)

KeepsServing(w, content) == Placed(base[w]) \subseteq DOMAIN content.minutes

\* The repair's own read of the world, and the best candidate: it is applied
\* only when everybody served before is served after.
Reroute(w) ==
    /\ step[w] = "reroute"
    /\ \/ \E content \in Solutions(base[w], Now, Carried(base[w], Now)), strategy \in Strategies :
            /\ KeepsServing(w, content)
            /\ Feasible(content, view[w])
            /\ cand' = [cand EXCEPT ![w] = Candidate(w, strategy, content)]
            /\ GoTo(w, "commit")
            /\ UNCHANGED <<req, view, base>>
       \/ Done(w)
    /\ UNCHANGED <<log, clock, served, storeVars>>

\* What follows the commit.  book_slot floats an overtime offer whether or not
\* its plan was refused; any other exception ends it.
AfterCommit(w) ==
    IF pc'[w] # "idle" THEN UNCHANGED <<step, req, view, base, cand>>
    ELSE IF req[w].kind = "book" /\ reply'[w] # "error"
         THEN /\ GoTo(w, "place")
              /\ view' = [view EXCEPT ![w] = 0]
              /\ base' = [base EXCEPT ![w] = None]
              /\ cand' = [cand EXCEPT ![w] = NoPlan]
              /\ UNCHANGED req
         ELSE Done(w)

Commit(w) ==
    /\ step[w] = "commit"
    /\ \/ Begin(w, cand[w].id, cand[w].version)
       \/ CommitStep(w)
    /\ AfterCommit(w)
    /\ UNCHANGED <<log, clock, served>>

LoseReply(w) == LoseResponse(w) /\ UNCHANGED handlerVars

\* _float_overtime_offer: is the job on the board, and past somebody's shift?
ReadPlacement(w) ==
    /\ step[w] = "place"
    /\ \/ /\ ~HeadUnreadable /\ req[w].job \in Placed(head)
          /\ GoTo(w, "float") /\ UNCHANGED <<req, view, base, cand>>
       \/ Done(w)
    /\ UNCHANGED <<log, clock, served, storeVars>>

\* Mutant: the offer is stamped when it is appended.
StampLate(w) == clock + 1

\* The offer carries the booking's own stamp.
OfferStamp(w) == req[w].at

Float(w) ==
    /\ step[w] = "float"
    /\ log' = Append(log, [Event(w, "offered") EXCEPT !.at = OfferStamp(w)])
    /\ Done(w)
    /\ UNCHANGED <<clock, served, storeVars>>

\* The process stops between two accesses.
Die(w) ==
    /\ Crashes /\ step[w] # "idle"
    /\ Done(w)
    /\ IF pc[w] = "idle" THEN UNCHANGED storeVars ELSE Crash(w)
    /\ UNCHANGED <<log, clock, served>>

Request(w) == \/ Book(w) \/ Cancel(w) \/ Claim(w) \/ CommitPlan(w) \/ SetCrew(w)
              \/ Repair(w) \/ CommitFromCLI(w) \/ Record(w) \/ Outage(w)

HandlerStep(w) ==
    \/ MintJob(w) \/ AppendEvent(w) \/ AppendRefused(w) \/ AppendUnheard(w)
    \/ ReadWorld(w) \/ ReadBase(w) \/ Plan(w) \/ RereadHead(w)
    \/ Choose(w) \/ ReadForReroute(w) \/ Reroute(w)
    \/ Commit(w) \/ ReadPlacement(w) \/ Float(w)

Next == \E w \in Writers : Request(w) \/ HandlerStep(w) \/ LoseReply(w) \/ Die(w)

Spec == Init /\ [][Next]_vars

\* Requests need not come, but one that came is worked on.
FairSpec == Spec /\ \A w \in Writers : WF_vars(HandlerStep(w))

-----------------------------------------------------------------------------
(* Properties.                                                             *)

Mentioned(id) == Placed(id) \cup Left(id)

\* What the version at the head answers for: the active jobs on its routes and
\* the ones it reported unserved and that nobody has started since.
Owed(id) == (Placed(id) \cap Active(Now)) \cup (Left(id) \cap Schedulable(Now))

Moves(w, kinds) == head' # head /\ step[w] = "commit" /\ step'[w] # "commit" /\ req[w].kind \in kinds

\* service.commit refuses a stale plan because "a stale write silently discards
\* whatever another dispatcher just committed": a job the replaced version
\* answers for is on the new one, routed or reported unserved.
NoBookingDiscarded ==
    [][head' # head => Owed(head) \subseteq Mentioned(head)']_vars

\* The same, for the handlers that name the head they planned against.
RepairNeverDiscards ==
    [][\A w \in Writers : Moves(w, {"repair", "outage"}) => Owed(head) \subseteq Mentioned(head)']_vars

\* A promise is broken only by a person: without force, whatever was served
\* and is still wanted at the moment the head moves is served after it.
OnlyForceDropsPromises ==
    [][\A w \in Writers : Moves(w, {"repair", "outage"}) /\ ~req[w].force
         => Placed(head) \cap Active(Now) \subseteq Placed(head)']_vars

\* Plans are "immutable versions with a parent pointer": a repair or a reroute
\* is a child of the very version it takes off the board, also when another
\* handler has stored a version under the id it would have minted.
RepairsNameWhatTheyReplace ==
    [][\A w \in Writers : Moves(w, {"repair", "outage"}) => stored'[head'].parent = head]_vars

\* service.commit "refuses an infeasible plan": what it puts at the head fits
\* the world the plan was made from.
CommittedPlansAreFeasible ==
    [][\A w \in Writers : Moves(w, Kinds) => Feasible(stored'[head'].content, view[w])]_vars

\* Nobody is asked to stay late for a job that was cancelled, although the
\* offer may be appended after the cancellation.
OffersAreForActiveJobs == \A j \in Jobs(Now) : HasOffer(Now, j) => j \in Active(Now)

\* book_slot mints "highest existing suffix plus one", because otherwise "two
\* same-moment bookings would mint twins": every booking has an id of its own.
JobIdsAreUnique ==
    \A i, k \in DOMAIN log : log[i].kind = "booked" /\ log[k].kind = "booked"
                               /\ log[i].job = log[k].job => i = k

\* Work a crew has started stays on the board when the plan is replaced.
StartedWorkStays ==
    [][head' # head => Placed(head) \cap Locked(Now) \subseteq Placed(head)']_vars

\* A booking that heard that it was recorded goes on to re-plan, and the job is
\* then answered for by the head, routed or reported, or was cancelled.
RecordedBookingsReachTheBoard ==
    \A w \in Writers, j \in 1..MaxRequests :
        (step[w] = "world" /\ req[w].kind = "book" /\ req[w].job = j)
          ~> (j \in Mentioned(head) \/ j \notin Active(Now))

\* book_slot re-plans "so the job is on the calendar the moment it is booked":
\* so is every job in the log.
BookedJobsReachTheBoard ==
    \A j \in 1..MaxRequests :
        (j \in Jobs(Now)) ~> (j \in Mentioned(head) \/ j \notin Active(Now))
=============================================================================
