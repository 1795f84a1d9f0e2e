# krama (glass-guru): a verification development

krama plans the week of a glazing company: customers call, jobs are booked, a
CP-SAT solver routes crews and vans, crews report what happens, and plans are
repaired. Everything that happened is in an append-only event log; every plan
is an immutable version in a plan store whose HEAD names the current one. Both
live in one workspace, on local disk (JSONL and JSON files) or in S3, and any
number of request threads, Lambda invocations and shells work on it at once. A
language model helps with the words (calls, notes, messages); what it says is
held against rules before anything is made of it.

These modules model that system in TLA+: the two stores access by access, the
request handlers, the planner as the constraints it gives its solver, the
independent checker, quotes, and the agents. TLC checks them on small
instances; TLAPS proves for every instance what the stores, the log, the
handlers that plan, the handlers that record and the agents promise, what an
absence leaves of a day, and what a plan says of every job.

## 1. Inventory

| Component | State | Operations | Correct when |
|---|---|---|---|
| Event log: `persistence/log.py` (JSONL), `persistence/s3.py` | the log's lines | `append`, `read`, `Workspace.seed` | an acknowledged append is there for good, once and in order; the log only grows |
| Plan store: same files | versions, HEAD | `head`, `get`, `history`, `commit` | a stored version never changes; HEAD is readable; HEAD moves only from the version its writer named |
| World state: `domain/state.py`, `domain/events.py` | none: `fold(events, as_of)` | one `_apply` case per event | what was said last about something, in `recorded_at` order, counts |
| Service: `service.py` | the workspace, a leg cache, a quote cache | `world`, `apply_events`, `plan_week`, `commit`, `repair`, `booking_slots` | a plan accounts for every job; a stale or infeasible plan is not committed |
| Handlers: `api/main.py`, `cli/main.py`, `mcp_server/server.py` | none of their own | book, cancel, claim, commit, crew, repair, roster, fleet, asks, notes, calls, ... | what the caller is told is what the log and the board say |
| Day planner: `scheduler/day_planner.py`, `routing.py` | none | `plan_day`, replay, diagnosis | the day passes the checker; what is called impossible is |
| Horizon: `scheduler/horizon.py` | none | `assign_days`, `plan_horizon` | every job is answered exactly once |
| Repair: `scheduler/repair.py` | none | `carve_out_locked`, `repair_plan` | dispatched work stays; the base is the parent |
| Invariants: `domain/invariants.py` | none | `validate_plan` | an independent check that agrees with the fold |
| Autonomy and diff: `domain/autonomy.py`, `diff.py` | none | `decide`, `diff_plans` | a change a customer would notice is never applied without a person |
| Quotes: `scheduler/booking.py` | `BaselineCache`, per request | quote a call | a slot offered is one the booked day can keep, at the cost it really has |
| Costing: `scheduler/costing.py`, `pricing.py` | none | `cost_route`, `quote_for` | the price counts what the visit adds |
| Live updates: `Broadcaster` in `api/main.py` | bounded queue per subscriber | publish, stream | a slow board never blocks a handler, and none is fed with a gap |
| Intake: `agents/intake.py`, `domain/catalog.py` | none | correct, ground and complete a call | the caller's own words win over the model's |
| Agents: `agents/structured.py`, `triage.py`, `router.py`, `coordinator.py`, `comms.py` | an attempt counter | extract, triage, choose, draft | bounded attempts truly counted; nothing dropped, invented or sent unchecked |
| A2A: `agents/a2a/transport.py`, `registry.py` | none | send, handlers | an agent's answer reaches its asker or a person |
| Travel: `scheduler/travel/*`, `domain/travel.py` | leg cache, incident feed | a leg at a departure | one road for planner, replay and checker |
| Notifications, rendering, tracing, evals, fixtures, web board | none shared | | |

How they interact: a handler folds the log into a world, appends events, folds
again, reads HEAD, solves, checks, reads HEAD again or not, commits, and
publishes to the boards that listen. There is no lock and no transaction around
this. What keeps handlers apart is only S3's conditional writes (`If-Match` on
the log and on HEAD, `If-None-Match` on a version), and nothing at all on local
disk.

Hard here: the read-solve-commit window of every handler (a solve takes
seconds), ids minted from counts read earlier, stamps taken before the append
they order, processes stopped between two accesses, responses lost after the
write took effect, three readings of the same road (solver, replay, checker),
rounds of assigning and routing that must lose no job, answers of a model that
may say anything, and long legal sequences (start, overrun, book, re-plan).
`PROJECT.json` lists these as hazards at their lines.

## 2. Modules

| Module | Models | Uses |
|---|---|---|
| `OptimisticHead` | what the plan store promises: one atomic step per commit | |
| `PlanStore` | both backends of the plan store, one action per disk or S3 access | `OptimisticHead` as `Abstract` |
| `EventLog` | both backends of the log, `seed`, write buffers | |
| `EventLog_proofs` | its theorems | `EventLog`, TLAPS |
| `Dispatch` | the handlers that plan, access by access; planning and repair as relations | `PlanStore` |
| `Dispatch_proofs` | the theorems of `PlanStore` and `Dispatch` | `Dispatch`, `InductionLemmas` |
| `Hours` | a day's hours after its outages, as the planner and the checker see them | |
| `Availability` | outages in the fold, held against `Hours` | `Hours` |
| `Availability_proofs` | the theorems about its fold and the planner's hours | `Availability`, `DayPlan_proofs` |
| `Roads` | traffic bands, delays, the solver's worst leg | `Hours` |
| `DayPlan` | `plan_day`: constraints, replay, diagnosis; what a world is (`IsWorld`) | `Roads` |
| `Checker` | `validate_plan`, `validate_against_baseline` | `Roads` |
| `Agreement` | the days that planner and checker see alike (`SeenAlike`) | `DayPlan`, `Checker` |
| `DayPlan_proofs` | lemmas on hours, runs, solutions, replay and diagnosis; why a day's routes pass the checker | `Agreement`, `InductionLemmas` |
| `Planning` | `plan_week` and a repair of it: carve-out, assignment, rounds | `Agreement` |
| `Planning_proofs` | its theorems | `Planning`, `DayPlan_proofs` |
| `Office` | the handlers that only record, the fold of what they recorded, the broadcaster | |
| `Extraction` | what the agents may count on when they ask a model | |
| `Structured` | the attempt loop | `Extraction` as `Abstract` |
| `Review` | diff, autonomy, choice of a repair, grounding of messages | |
| `Agents` | notes, accepting, repair options and messages, as handlers | `Office`, `Structured`, `Review` |
| `Agents_proofs` | the theorems of `Structured`, `Office`, `Review` and `Agents` | `Agents`, `InductionLemmas` |
| `Intake` | from an extraction and the words to a draft job | |
| `Costing` | the cost of a route and the price of a job | `Checker` |
| `Quotes` | a call becomes priced slots | `Agreement`, `Costing`, `Intake` |
| `Quotes_proofs` | its theorems | `Quotes`, `DayPlan_proofs` |
| `InductionLemmas` | induction, greatest elements, the stages of a fold | TLAPS |
| `MCPlanStore`, `MCEventLog`, `MCDispatch`, `MCAvailability`, `MCPlanning`, `MCAgents`, `MCQuotes` | small instances | |

### PlanStore

`stored`, `head` are the files or objects; `seen[w]` is the `expected_parent` a
caller will give; `pc`, `plan`, `etag` are the local variables of a commit in
progress. `ConditionalWrites` chooses the backend.

* `Begin` is the entry of `commit` and its comparison of HEAD with
  `expected_parent`; `etag` is the ETag HEAD was read with. An ETag is the id
  HEAD held, since HEAD's body is the id.
* On S3, `PutVersion` is the `IfNoneMatch` put, with its idempotent case (the
  same content hash), and `MoveHead` the conditional put of HEAD.
* On disk, `write_text` opens, which empties, and then writes:
  `TruncateVersion`, `WriteVersion`. HEAD is replaced by an atomic rename, so
  `MoveHead` is one step with no condition.
* External: `LoseResponse` (the S3 client repeats a PUT whose response it did
  not get) and `Crash`.

`SameContent` compares routes and unserved jobs, as `content_hash` does; the
rest of a version is metadata.

### EventLog

`file` is the sequence of complete lines, by event; `tail` says who left a line
unfinished at the end of a JSONL file. S3: `LoadBody` then `PutBody` under
`If-Match`; the body read stands for its ETag. JSONL: a batch that fits the
write buffer arrives in one `write` (`FlushAll`). Of a longer one the text layer
sends whole lines ahead, in any number of pieces (`FlushSome`), and between two
of them others may write or the process may stop: the log can be read, with
another's lines inside the batch or with a part of a batch at its end. Only a
`write` that takes less than it was given may end in the middle of a line
(`WriteShort`). A line finished by another writer's bytes is `Garbled`, and
`read` validates every line, so a log with one, or with an unfinished line at its
end, cannot be read (`Readable`; a line that wants nothing but its newline is
taken for unfinished, though `read` would accept it). `StartSeed` is the check of
`Workspace.seed` and what it then appends.

### Dispatch

`log` is the sequence of events; each carries the stamp (`recorded_at`) its
handler took, from `clock`, when the code takes it: before the append. `view`
is how much of the log a handler had read; the world of that moment is computed
by `JobState`, `Minutes`, `OfferOf`, `ClaimedBy`, which fold by stamp as
`state.fold` does. `base` is the head planned against, `cand` the plan about
to be committed, with content `minutes` (routed jobs and the time given to
each) and `left` (reported unserved).

| Action | Code |
|---|---|
| `Book`, `MintJob`, `AppendEvent`, `ReadWorld`, `ReadBase`, `Plan`, `RereadHead`, `Commit`, `ReadPlacement`, `Float` | `book_slot`, access by access |
| `Cancel`, `Claim`, `CommitPlan`, `SetCrew`, then as above | `cancel_job`, `claim_overtime`, `commit_plan` and the MCP tool, `set_crew` |
| `Repair`, `ReadBase`, `ReadWorld`, `Choose`, `Commit` | `apply_repair` |
| `CommitFromCLI`, ... | `krama commit` |
| `Record`, `Outage`, `ReadForReroute`, `ReadBase`, `Reroute`, `Commit` | `record_event`, `_quiet_reroute` |

A commit is not atomic here either: `Dispatch` extends `PlanStore`, and `Begin`
and `CommitStep` are its accesses. `AppendEvent` is atomic: that an append
happens whole or not at all is what `EventLog` shows of the S3 log, and of the
JSONL log while batches fit the buffer. `AppendRefused` is the conflict an S3
append raises when somebody else was active; `AppendUnheard` the same conflict
after the append has taken effect, because its response was lost and the client
repeated it. No handler catches either, so the handler ends there.

The solver is a relation: `Solutions` are all plans that carry what
`carve_out_locked` carries and, of the other schedulable jobs, route some and
report the rest. What the optimiser prefers is not modelled, so every property
holds whatever it returns.

Abstractions, and why they are safe:

* The last read and the stamp that follows it are one step in `Cancel` and
  `Claim`. The window between the stamp and the append stays open, which is
  where the order of events is decided.
* The booking's check for a duplicate caller only warns, so it is left out.
* `_quiet_reroute` reads HEAD once before `repair` does, only to stop early:
  `ReadForReroute` may stop at will. The world read of the overtime offer only
  decides whether to offer, which `ReadPlacement` leaves open.
* Events about jobs are recorded only for jobs on the books (`Record`); the
  endpoint would also take an unknown id, or a time in the past. Every booking
  is confirmed at once, as `book_slot` does. Completion is not modelled.
* `req.force` is set exactly when the policy wants a person, i.e. a dispatcher
  who forces without need is not told apart.
* The policy is modelled by the part of it the properties are about: a
  candidate that drops a promised job escalates; `Review` has all of it.

### Hours and Availability

`LargestFree` is `_largest_free_interval` step by step (clip in whole minutes,
sort, merge, walk the gaps); `Covers` is what the checker asks of an outage. In
`Availability`, `log` is the events about one fitter or van in the order the fold
applies them; `Record` inserts an event by its stamp, which a request may
state, so the order is not the order of arrival. `Unavailable`, `Restored` are the
two kinds of `build_event`, `Removed` and `Registered` the configuration endpoints.
`World` is the fold, with `Carve` for `_carve_outages`, and `IsAvailable` what
`validate_plan` asks. Left out: the 404 of the removal endpoints (looked up in a
world read earlier), and days other than the one planned, whose outages are
clipped away.

### Roads, DayPlan, Checker

A moment is a minute; day `d` is `Minutes` of them. `Leg` is a leg leaving at a
clock time: its band's time, multiplied by every delay in force. `WorstLeg` is
the solver's matrix: the worst of one probe per band the day touches
(`ProbeTimes`).

`DayPlan` is one day. The CP-SAT model is the set of its solutions: `Runs` are the
ways one van can be crewed and ordered (`CrewHours`, `CanServe`, `Orders`,
`Timetable`, `WindowAllows`), `Solutions` the families of runs that share nobody
and no job. The objective is left out: `plan_day` returns whatever the solver
holds when its time is up, so any solution may come back, or none. Soft windows
and promises are therefore free in the model; locked jobs are served in every
solution, as the constraint says. `MaterializeRoute` replays a solution
against the road (`DepartAndArrive` is the bounded search for a
departure that `_depart_and_arrive` makes), and `Diagnose` gives the reason of each job left.
`PlanDay` composes them with the early returns (`NotToday`, `NothingPlanned`).

`Checker` shares only the outages and the road with it, as in the code. A
violation is a pair of its code and what it is about.

### Planning

`Depart` is a crew leaving and a trouble reported after a plan was committed;
`CarveOut` then takes the work under way out of the problem and makes its crew
and van unavailable for as long (`Consumed`). `AssignDays` is stage A, again as
any solution of its constraints (`DayCapacity`, `FitsDay`), `RouteDay` stage B
for one day, `NextRound` the feedback that tightens the days that spilled, and
`Finish` puts carried and new routes together with the unserved and asks the
checker.

### Office

A handler reads the world, takes a stamp, appends, and publishes; between any
two of those other threads run, and it may stop (`Die`). `log` is kept in the order
the fold applies: by stamp, then by id. An id is its prefix and something
random; `IdPrefixes` ranks the prefixes, and two ids of one prefix may come in
either order. `World` is the fold. The kinds of requests are in the table.

| Action | Code |
|---|---|
| `ConfigureWorker`, `RemoveWorker`, `ConfigureVan`, `RemoveVan`, `MoveDepot`, `SetPricing` | the roster, fleet, depot and price endpoints |
| `OpenAsk`, `ExtendForAsk`, `CloseAsk` | crew asks and the extension a crew agrees to |
| `BookSlot` then `Booking` | the part of `book_slot` before it plans: the job, its confirmation, closing the caller's asks |
| `RecordEvent` | `record_event`, with the time its form may state |
| `Publish`, `Connect`, `Receive`, `Leave` | `Broadcaster.publish` and the stream endpoint; a publish reaches one board at a time |

Only what others look at is kept of a record: a fitter's skills, a van's stock and
a customer's name are not in it.

### Extraction, Structured, Review, Agents

`Structured` is `extract`: `Attempt` is a call of the model and what came of it
(`Valid`, `Invalid`, `Unreachable`, `GiveUp`). `Extraction` is what its callers may
count on. `Review` has the pure rules. In `Agents` a note goes to the router and then to
triage, each an extraction that any other thread may overtake (`ReadNote`,
`Routed`, `Triaged`); an accepted triage is recorded (`AcceptTriage`,
`RecordAccepted`). `ChooseRepair` and `DraftMessages` are the coordinator and the
customer messages for a week and its candidates (`Weeks`, a constant). `inbox` is
what dispatchers have been answered. The model may answer any value of the schema.
A draft has the readings of clock and weekday that its words give (`says`) and, among
them, those that a pattern finds (`seen`): "see you at 3" and "around noon" say an
hour and match nothing. Only what is seen is looked up (`Unsupported`), as in
`verify_grounding`. One thing is stricter than the code: a report of traffic that
names somebody (`KnownTarget`) is put to a person, where the code builds it.

### Intake, Costing, Quotes

`Intake` takes an extraction and what the words say, i.e. what the patterns find
in them, and applies validators and corrections in the code's order. Of a pattern
of hours it is the first match that counts, and a match is one thing and an hour
another: `Unsaid` is no match, `Unparsed` one that `_hour_24` makes no hour of ("calling
from 45 Elm Street"). `FixTheDirection` and `CivilFloor` go by the match where the code
does. `Quotes` is
`run_intake` from there: `Horizon` is the days offered from `_booking_clock` on,
`SolveDay` solves one day without and with the caller's job (`Baselines`, `Draft`,
`Locked`), `Slot` is what is offered of it, `ByCost` decides what is shown (the order
it is read out in is left out), `Relax` and `CutFlexible` are the second search for
cheaper hours. `known` is the baseline cache. A day's baseline is any solution, and a
trial any that serves the locked jobs.

## 3. Runs

| Run | Instance | Shows |
|---|---|---|
| `plan_store_s3` | 2 writers, 2 ids (so they collide), 3 versions, two of equal content | types, HEAD readable, versions immutable, no commit discarded, refinement of `OptimisticHead`, under crashes and lost responses |
| `event_log` | both backends, 2 writers, batches of 1, 3 and 1 events, a seed of 2 | acknowledged batches survive, nothing twice, the log only grows |
| `dispatch_json` | one handler at a time, JSON, crashes; 4 requests, 2 of them bookings, 1 overrun | HEAD readable, nobody falls off the board, started work stays |
| `dispatch_s3_races` | 2 handlers, S3; 3 requests: bookings, cancellations, repairs, outages | a repair or reroute is a child of what it replaces, never discards what it did not see, and drops a promise only when forced; a late offer never stands for a cancelled job |
| `dispatch_s3_liveness` | 1 handler, S3, lost responses, fairness | a booking whose append was acknowledged reaches the board or is cancelled |
| `availability` | one resource, 3 events, two stamps, two ticks to the minute, a shift and a whole day | outages mean what was said last; the planner's hours are the longest there are, and pass the checker when nobody is kept late |
| `planning` | 2 jobs, 1 or 2 fitters, 1 or 2 vans, 2 days of ten minutes, 2 rounds, 2 plans; about forty worlds | every job answered once, the plan passes the checker, carried work stands, impossible is impossible, capacity only tightens |
| `agents` | 2 threads, 2 fitters, 2 places, 1 board with a queue of 1, 2 attempts; nine mixes of handlers | agreements, asks, boards, attempts, notes, promises, messages, the fleet; `Structured` implements `Extraction` in the composition |
| `quotes` | 21 calls, 4 diaries, 4 times of calling, 3 days of twelve minutes with the second off | slots that can be kept, on hours stated, nobody displaced, no invented receipt priced |
| `dispatch_s3_bookings`, `agents_cancelled`, `quotes_promise` | see section 5 | violations |

Bounds. Three events in `availability` are an outage, one that overlaps it and
a restore of a part, or an outage carved twice; the four moments include one in
the middle of a minute, and an outage may be open or end before it begins.
In `Dispatch` `MaxRequests` bounds a behaviour: three requests are one to make a
head and two to race on it; four are book, start, overrun, re-plan. `MaxBookings`
bounds the jobs; two are one to keep and one to lose. `MaxOverruns` is 1 because
only "too short" matters. `Strategies` tells repair strategies apart: two
candidates of one base have different ids. `RoomForAll = TRUE` (only in a
violation run) makes every plan serve everybody, so a job is never lost to a
full week. `S3Spec` is `StoreSpec` without the two accesses that only the disk
store makes; those are checked in `dispatch_json`, under the same
`HeadIsReadable`. `MCView` leaves out of a state the local variables that no further
step of a handler reads. `MaxLines` is above what all batches add up to; the
longest batch has three events, the fewest that arrive in more than two pieces.

A day of `planning` is ten minutes and its legs one or two, so that two jobs just
fit, and a window, an outage or a delay of two minutes decides something; `Bands`
ease during the day. `MaxPlans = 2` is a plan and its repair, and two rounds are one
that spills and one that is told. Only four of the worlds are followed
(`Followed`) past the first plan. `Worlds` are variations of one world, each with
one thing that is different, not all combinations. In `quotes` an hour is
two minutes, so that 12:00 is minute 6, and the calendar is shorter than a week,
so that a day is its own weekday. The calls are the ones the code's comments
describe (an upper limit heard as a lower one, a size heard as a count, receipts nobody
gave), each with words that do and do not bear them out, and some whose first match
is no hour. `CivilHour` is 2, which leaves an hour of the opening that the civil
floor takes away. In `agents` a `Mix` is
the handlers of one behaviour; those that touch the same records are in one mix,
and three requests are enough for two to race and a third to look.

Runs allow deadlock because requests, batches, events and plans run out. Two
writers suffice for the races modelled: each is between one read-commit window
and one other. Symmetry is over writers, threads and fitters, in safety runs only.
`dispatch_json` leaves out `krama commit`, which breaks `StartedWorkStays`
(section 5); its action is exercised in `dispatch_s3_liveness`. It has one writer,
since two bookings at once discard one (`dispatch_s3_bookings`) and the JSON store has
no guard against two (section 5): what it shows is that a sequence of requests with a
crash anywhere in it does not. `FleetStaysWhole` is about handlers nobody overtook, for
the same reason.

Preconditions. `PlanPassesTheChecker` and `QuotedSlotCanBeKept` are stated of days
that planner and checker see alike, `SeenAlike` of `Agreement`. Each of its parts is
there because without it the two differ, by a run of TLC or in the code as section 5
says:

* `RoadEases`: legs do not grow over the day, no delay begins during it, and a delay in
  force is so at the probe of its band. The solver samples a road once in each band,
  the checker drives every leg: a delay that begins at minute 4 makes a crew that
  waits for a window at minute 6 late, though the matrix had it on time.
* `NobodyIsKeptPastAnOutage`: who is kept past the hours is eligible, overtime is on,
  and no outage lies there.
* `OutagesEnd`: an outage that ends before it begins takes nothing off a shift, and
  the checker finds it in a route that spans its ends.
* `OnePromise`: the solver holds a confirmed job to one of its windows, the replay
  starts it in whichever opens sooner.
* `AskedBefore`: nobody was promised a window from before the call.

`PlanPassesTheChecker` (`SameEyes`) asks besides that no van has broken down under its
crew (`NobodyOutIsStranded`), that no route of the head is back after midnight, where
the checker's clock starts again (`BackByMidnight`), and that no promise was released;
`QuotedSlotCanBeKept` that the trial released none. `ImpossibleMeansImpossible` is about
`PlainJob`s. `FreeTimePassesTheChecker` needs outages on the minute that end after they
begin (`OnTheMinute`, `NoneInverted`), `NobodyIsOfferedThePast` a call not within the
lead of midnight (`LeadEndsToday`).

Fairness. `FairSpec` assumes weak fairness of `HandlerStep(w)`: a request thread
that has work keeps running. Requests themselves (`Request`) are users' and
unfair, lost responses are unfair, and the run has no crashes, since a stopped
process is never resumed and nothing else re-plans. `RecordedBookingsReachTheBoard`
begins where `book_slot` has heard that its events are recorded and reads the world to
plan from; a booking that never hears so leaves its job in the log and off the board
(section 5).

## 4. Proofs

Of `PlanStore` (in `Dispatch_proofs`), for any number of writers, ids and versions:

* `StoreTypeCorrect`: `StoreSpec => []StoreTypeOK`, both backends.
* With `ConditionalWrites` (S3): `HeadAlwaysReadable`,
  `StoredVersionsNeverChange`, `NoCommitIsEverDiscarded`, and `CommitsAreAtomic`
  (`StoreSpec => Abstract!Spec`).

They follow from one inductive invariant,
`StoreInv == StoreTypeOK /\ Underway /\ Conditional`. `Underway` says what a
writer in the middle of a commit holds: a plan, and an ETag equal to the
`expected_parent` it named. `Conditional` says that on S3 nothing is torn,
a writer about to move HEAD has its version stored already, and HEAD names a
stored version. None of the safety properties is inductive without them: that
HEAD is readable after `MoveHead` needs to know that the put came first, and that
the head left is the one named needs `etag = seen` through the
whole commit. The proof has one step per action; refinement maps `MoveHead` and
`LoseResponse` to `Accept`, `PutVersion` to `Keep`, and the rest to `ReadHead`,
`Refuse`, `Forget` or stuttering.

The assumptions are `StoreConstants` (no id is `None`, no version is `Torn`), and
`ConditionalWrites` where stated: for the JSON store with more than one thread
these statements are false.

Of `Structured` (in `Agents_proofs`), for any callers, answers and limit:

* `AttemptsAreBounded`: `StructuredSpec => []StructuredTypeOK`, no more attempts
  and errors than the limit allows.
* `AttemptsAccountedFor`: what is reported is what happened.
* `ExtractionImplemented`: `StructuredSpec => Abstract!AbstractSpec`.

The inductive invariant is `LoopInv == StructuredTypeOK /\ AttemptsAreAccountedFor`;
neither is inductive alone. That errors stay within the limit needs one error per
attempt, and counting on from an attempt needs the counts to be numbers within
it. An attempt that is not the last maps to stuttering. The assumption is
`StructuredConstants`: the limit is a natural number and no valid object is
`Nothing`. A limit of zero is allowed: then nothing is asked.

`EventLog_proofs`, for any writers, batches and backends: `BatchesSurvive`,
`NothingTwice`, `LogGrows`. The invariant is
`LogInv == LogTypeOK /\ Underway /\ Flushed /\ Kept /\ Once`. `Underway` says what a
writer holds: of its batch, what is left in the buffer is the end, and a body loaded
under `If-Match` is the log or shorter. By `Flushed` what is no longer in the buffer
lies in the log, in order and with others' lines between, unless something is garbled:
without it nothing is known when the last piece is written and the batch acknowledged.
`Kept` is the property for a log with an unfinished end too, which `Readable` leaves
out: the next writer may finish it. `NothingTwice` needs that nobody else holds the
same batch and that what is left of it is not in the log (`Once`). The assumption is
`LogConstants`: an event of an attempt has an id of its own, which
`new_event_id` makes so.

`Availability_proofs`: `OutagesAreWhatWasSaid`, for any moments and log.
`World` is a fold, and the property speaks of the log's last word, so the proof is
by induction along the stages of the fold: after k events the outages cover the
moments that the first k events say are out. `FoldExists` and `FoldStages` of
`InductionLemmas` turn a community fold over a sequence into a sequence of stages
and a step between each; `IntervalInduction` goes along them.

`FreeHoursAreLongest` and `FreeHoursPassTheChecker`, for any spans and any minute,
are inductions along the three loops of `_largest_free_interval` (in `DayPlan_proofs`, where
`plan_day`'s proofs use them too):

* Sorting (`SortedMeans`): what is blocked of a shift is finite, so it can be put in
  order, and the list has each of its stretches once.
* Merging (`MergingMeans`, from `Merged`): after k stretches, what has been merged
  lies apart, covers what the k cover, and begins no later than those to come;
  that last part is why merging with the last one suffices.
* Walking (`LargestFreeMeans`, from `Walked`): the cursor is behind what was passed
  and before what comes, `best` is clear, and no clear stretch that begins before
  the cursor is longer than `best`.

So the hours are clear of what is blocked and none are longer. By `BlocksMeans` a
minute is blocked if the end of it is under an outage, which gives the first
theorem. For the second, an outage that the checker finds in the hours, and whose
ends are whole minutes (`WorldKeepsTo`: those of the log are, and carving makes no
others), has a minute of the hours whose end is under it. The assumptions are
`HoursConstants` (a minute has ticks) and `AvailabilityConstants` (`Forever` is after
the day; a shift has a beginning before its end).

`Dispatch_proofs`, for any writers, fitters, strategies and numbers of requests:

| Theorem | Property | Under |
|---|---|---|
| `OffersAreForJobsThatStand` | `OffersAreForActiveJobs` | nothing |
| `HandlersUseTheStore` | `Spec => StoreSpec` | `Deployed` |
| `RepairsDiscardNothing`, `UnforcedRepairsKeepPromises` | `RepairNeverDiscards`, `OnlyForceDropsPromises` | `Quiet` |
| `RepairsAreChildren` | `RepairsNameWhatTheyReplace` | `InS3` |
| `FilesStayReadable` | `HeadIsReadable` | `OnFiles` |

* `Deployed`: plan ids are what the handlers mint (a number, or a base's id with a
  strategy after it), versions are any parent with any content, and either the store
  is the one in S3 or a single process writes. Nothing but that keeps the commits
  from colliding.
* `Quiet` is `Deployed` on S3 before any crew has set out. A crew that starts a job
  while its cancellation is being recorded revives it when the start has the later
  stamp: a repair that saw it cancelled then drops it. Three handlers at once and
  four requests are enough for that, and TLC finds it when "started" is added to
  `dispatch_s3_races`.
* `InS3` is `Deployed` on S3, for any handlers, racing as they may.
* `OnFiles` is `Deployed` with one process on local disk, the deployment of
  `dispatch_json`. With two, one may empty the version that the other has just made
  the head.

`StampInv` says who records what, that a stamp is on one event at most, and that an
offer carries the stamp of the booking it is about; a cancellation of that job is
younger, so whatever order they arrive in, the fold drops the offer. `WorkInv` adds
`StoreInv` and what each handler holds (`Good`): the base it read, a candidate
whose parent is that base, whose id is not that base's and not above the next number
to mint, and, while a version is being moved to, that the store has it under that id.
`StoreSpec` follows step by step. `RepairInv` adds that everything
still wanted of the base is in the view a repair chooses from, and then in the plan it
commits; since its commit names that base, it holds of the head. `LineInv` adds that
a version whose id says what it repairs has that for its parent (`Descent`), and so
has a repair about to be committed (`Descends`). That the commit goes from the base
it names is not enough: when two handlers mint one id, it is the other's version that
`IfNoneMatch` may find and keep. `FileInv` adds what one process knows: nobody else
moves the head between its reading and its replacing.

`Agents_proofs`, for any threads, places, boards, queues, mixes, answers and weeks:

| Theorem | Property | Inductive invariant |
|---|---|---|
| `BoardsMissNothing` | `SubscribersMissNothing` | `StreamInv` |
| `NothingIsLostInTriage` | `NothingDescribedIsLost` | `OfficeInv` |
| `AgreementsAreKept` | `AgreementsStand` | `OfficeInv`, then the stages of the fold |
| `AsksAreResolved` | `AnsweredAsksAreClosed` | `OfficeInv /\ AsksOK` |
| `NobodyIsLetDown`, `MessagesMeanWhatHappened` | `NobodyIsLetDownQuietly`, `MessagesReachTheAffected` | `ReviewInv` |
| `AgentsAskThroughTheLoop` | `AgentsSpec => StructuredSpec` | none: step by step |
| `AgentsGetExtractions`, `AgentsCountAttempts` | `ImplementsExtraction`, `AttemptsAreAccountedFor` | those of `Structured` |

* `StreamInv`: what was published while a board listened has come, waits in its
  queue, or is on its way from a handler that is publishing.
* `OfficeInv`: the log is sorted by stamp and id and all of its events are typed,
  the worlds that handlers hold are worlds, and what triage built of a note is one
  event per thing described.
* `AsksOK`: an ask is opened once, and the close of one is stamped after it. Without
  the stamps it would depend on the order of arrival.
* `ReviewInv`: every week and answer a handler is about to give is one that
  `Review` allows. A diff is finite and has one change per job, and `Better` is
  total and transitive, so that the recommendation falls on an option there is.

The assumption is `AgentsConstants`: the loop's callers are the threads, the
valid objects of triage are of its schema, plans are finite, and there is an option to
choose from (`OfficeConstants`, `StructuredConstants` besides).

`Planning_proofs`, for any worlds, days, rounds, roads, outages and numbers of plans:

| Theorem | Property | Inductive invariant |
|---|---|---|
| `EveryJobIsAnswered`, `CarriedWorkStays` | `EveryJobIsAnsweredOnce`, `CarriedWorkStands` | `PlanningInv` |
| `CapacityTightens` | `CapacityOnlyTightens` | `PlanningInv /\ TightOK` |
| `NothingPossibleIsRefused` | `ImpossibleMeansImpossible` | `PlanningInv /\ ResultsOK` |
| `PlansPass` | `PlanPassesTheChecker` | `SoundInv` |

`PlanningInv` has four parts:

* `HeadOK`: the head stops for no job twice, and for every job that is out. Without
  the second half a job could be out and yet not carried.
* `CarveOK`: from the carve-out on, `carried` is the head's routes up to their last
  stop under way, and the jobs of `left` are the others.
* `RoundOK`: the routes of a day are routes of that day, stop for no job twice, and
  only for jobs given to that day. No job is given two days, so the days of a
  round have none in common.
* `PlanOK`: a plan is what is carried and routes for some of `Schedulable`, and the
  rest of `Schedulable` is unserved.

What the solver may return (`Solutions`) is a fold over the vans of the day, so that
`SolutionsMean` is an induction over them (`SetFoldExists`, `SetFoldKeeps` of
`InductionLemmas`); what `MaterializeRoute` makes of a run is an induction over its
stops.

`CapacityTightens` needs that what stage A gives a day fits the day as it was last
seen, hours are never negative, and a sum over fewer jobs is no larger (`DemandMeans`).

`NothingPossibleIsRefused` goes through what `_diagnose_unserved` looked at. `ResultsOK`
says that what a day reports is a `PlanDay` of what was left to plan, so each reason comes
with the condition that gave it (`PlanDayExplains`). `RunsAlone` turns a run of the
job by itself into a certified fitter who works that day, a start within both his hours
and the window, and a van with room: each contradicts one of the reasons
(`ExplainedIsImpossible`). It holds for a `PlainJob` only. A job of two hands, two windows or
a promise is diagnosed by other rules than the solver's; skills that two hold
between them likewise; and a window opening after the shift is called out of reach
although overtime may reach it.

`PlansPass` is that two programs agree which share no code. The argument:

* `Sound` is the check of one route, `VanFree` that of its van, `Exclusive` that of two.
  Routes that are `Sound`, `VanFree` and `Exclusive` pass (`CleanMeans`), and routes
  that passed are `Sound` and `Exclusive` (`CleanTells`). So what passed can be taken
  apart and put together again.
* `PlanDaySound`: the routes of a day are sound on a `SeenAlike` day. For hours:
  `RunInTime`, along the stops, puts the replay no later than the solver's
  timetable (`MatrixIsWorst`: the solver's leg is no shorter than the road's at any minute
  the crew may leave; `HopInTime`: the search of `_depart_and_arrive` finds a departure that
  is in time); `RunWithinHours` and `RunWorks` then clear the checker's questions
  about the shift and about outages. Load, skills and windows come from the run's own
  constraints (`RunLoaded`, `RunSound`).
* `HeadSound`: every route of the head passed in its turn, in the world of that day, and
  what is kept of it passes still (`BeginsSound`, `CarriedSound`). This is why the
  invariant must know of the head and not only of the plan at hand.
* `LeftOK`: the world that is planned in is the real one with the carried crews and vans
  out for as long as their stops last. A new route that passes there, passes in the
  real one (`RoutedSound`), and does not meet a carried one (`CarriedApart`, by `OutWhileCarried`).
* `PlanIsRouted`: a plan is these two.

The assumptions are `PlanningConstants` and `NobodyOut`: in the worlds a behaviour starts
from, where there is no plan, no job is dispatched. The worlds of the run are such;
section 5 has what happens to others. `PlanningConstants` and `QuotesConstants` ask for
worlds as their records are validated (`IsWorld`): finite, a job of one or two people
and some minutes, windows and shifts that end after they begin, loads not negative. Two
things are simpler than in the code, which has fractions: a delay multiplies a leg by a
whole factor (so one below 1, which `TrafficDelay` admits, is left out), and everything
happens on the minute (`PerMinute = 1`; `Availability` has ticks).

`Quotes_proofs`, for any calls, answers of the model, diaries, moments and roads:

| Theorem | Property | Inductive invariant |
|---|---|---|
| `QuotesDisplaceNobody` | `NothingIsDisplaced` | `QuotesInv` |
| `OffersAreAhead` | `NobodyIsOfferedThePast` | `QuotesInv` |
| `OffersKeepTheHours` | `StatedHoursStand` | `QuotesInv` |
| `ReceiptsAreGrounded` | `InventedReceiptsAreNotPriced` | none: what `Intake` makes of a call |
| `QuotesAreKept` | `QuotedSlotCanBeKept` | `QuotesInv /\ TrialPriced` |

* `Asked`: the call, diary and moment are what they were, and a search is for
  something that is sold.
* `KnownOK`: what the cache says a day served are candidates of that day. So the locked jobs
  of the trial are among its candidates, and any solution serves them (`TrialOK`).
* `SlotsOK`: a slot, and what has been offered of them, lies after the lead and, unless the
  hours are relaxed, after the hour that was asked for: the stop is the draft's, and the
  replay starts no job with a window before it opens (`PricedStop`). That hour is the
  caller's by `HeardMeans`, which follows the corrections by cases of what the patterns
  match and of whether an hour comes of it.
* `TrialPriced`: the day that is tried is one that `PlanDay` returned for the draft's own
  window, and a slot of that day was read off its routes. With it `QuotesAreKept` follows
  from `PlanDaySound`: booking changes the window and the state of the draft alone
  (`BookedAlike`), every other part of a check asks nothing of those (`SoundElsewhere`), and
  the promised window, rounded down to the quarter hour and as long as the job and
  `QuotedWindow` with it, holds the visit (`PromiseHolds`; `Quarter <= QuotedWindow` is
  what makes it).

Model-checked only: liveness (`RecordedBookingsReachTheBoard`), which is beyond the proof
system; `NoBookingDiscarded`, `StartedWorkStays` and `FleetStaysWhole`, which hold of
handlers that nobody overtakes and say little for any number of them; what the violation
runs show; and that each precondition above is met often enough to matter, which the
mutants of the runs bear out.

## 5. What does not hold

Each is a run that TLC ends with a counterexample, and a finding in `PROJECT.json`.

* `dispatch_s3_bookings`. `book_slot` re-reads HEAD after solving and names it
  as the parent. The optimistic check passes, and the plan solved before
  the other booking replaces the plan with it. `RepairNeverDiscards`
  shows that handlers that name the head they solved against do not have this.
* `agents_cancelled`. A note typed right after a booking, "they cancelled", is
  stamped with the fold clock, i.e. the booking's own stamp; its id sorts before
  the booking's, so it folds first and does nothing. The dispatcher was told it
  is recorded.
* `quotes_promise`. A trial locks the jobs on the day but only prices their
  promised windows, and the price of a quote leaves that out: a day on which a
  confirmed customer's promise gives way looks cheap.

The next are claims of the code's comments that TLC refutes as well, without a run
of their own here: each is a property of the module, and a cfg like those of the
runs, with what is named, ends in a counterexample.

| Property | With | What happens |
|---|---|---|
| `JobIdsAreUnique` of `Dispatch` | 2 writers on S3, two bookings | both read the same world and mint the same job id (`api/main.py` 1254), though its comment is about "two same-moment bookings" and the twins they would mint: nothing conditions the append on what was read |
| `BookedJobsReachTheBoard` of `Dispatch` | `FairSpec`, 1 writer on S3, two bookings | the response of an append is lost, the client repeats it, and its own success makes it fail (`s3.py` 126-138): `PlanConflict`, which `book_slot` does not catch; the job is recorded and nothing re-plans it |
| `CommittedPlansAreFeasible` of `Dispatch` | 1 writer; bookings, "started", "overran"; 4 requests | `book_slot`, `cancel_job` and `claim_overtime` commit `plan_week`'s result without looking at its violations (`api/main.py` 1342), and `commit` does not look either (`service.py` 284-286 says it does); a carried stop of a job that overran has one |
| `StartedWorkStays` of `Dispatch` | 1 writer; a booking, "started", "cli" | `krama commit` plans without `carve_out_locked` (`cli/main.py` 474), so a started job leaves the board |
| `FleetIsNeverEmptied` of `Office` | `Mixes <- VanMixes` | two removals that read the same two vans empty the fleet, and with it the only record of the depot (`api/main.py` 1764-1768) |
| `EveryReadingIsSupported` of `Agents` | `Mixes <- CommsMixes` | "see you at 3" for a visit at 15:10, "half ten" and "around noon" match none of the patterns (`comms.py` 37-60), so a message with a wrong hour in such words is safe to send; `comms.py` 9-11 says that every time is extracted and matched |
| `EarlyHoursWereTyped` of `Quotes` | the constants of `quotes` | "calling from 45 Elm Street" matches `_AFTER`, so `_civil_floor` steps aside, though no hour can be made of it (`intake.py` 489): the early hour that the model guessed stands and is offered |

Met while modelling, by reading or in passing.

Dispatch and stores:

* Claims fold by a stamp taken before the append: of two handlers that both find
  an offer open, the one that appends second may fold first and take the hours
  from the fitter already told yes (`api/main.py` 2062).
* Two threads on the JSON store overwrite one another's version
  (`VersionsAreImmutable` fails with two writers and `ConditionalWrites = FALSE`).
* A lost response to the PUT of HEAD is reported as a conflict although the plan
  is the head (`LoseResponse`, then the refusing case of `MoveHead`).
* A version whose writer stopped before moving HEAD keeps its id
  `<base>-repair-<i>`: until HEAD moves, a different repair by that strategy is
  refused as a conflict.
* A booking whose commit is refused is not retried; with two handlers
  `RecordedBookingsReachTheBoard` fails.
* Two `krama init` may both seed. A JSONL batch larger than the write buffer is not
  one: another writer's lines may come to stand between its own, and a crash may leave
  its first lines in a log that reads without complaint (a job without its confirmation).
  A line torn by a crash makes the log unreadable.

Outages and hours:

* An outage stated as HH:MM on a Saturday is stamped on the next working day, and
  a restore sent without a time is stamped now: it folds before the outage and
  does nothing, although `_carve_outages` says that a restore "means the person is
  available for that stretch, full stop".
* An absence whose window is past ends before it begins. The planner ignores it;
  `covers` still finds it in every route that spans both its ends.
* An outage that ends in the middle of a minute is over for the planner when the
  minute begins, and for the checker when it ends.
* Overtime is added to the hours left after outages, so the solver may plan into
  one (`day_planner.py` 783), and the checker rejects the plan.

Planning (each is why `SeenAlike`, `SameEyes` or a property is as narrow as it is):

* A day is tightened to what it absorbed, whatever kept the rest off it, and when
  the solver of stage A finds nothing in time every job is left over: a job may be
  reported as one the week has no room for while a day is empty (`horizon.py`
  336-339, 483-485).
* `_certified_days` wants as many fitters with all the skills of a job as it takes
  hands, where the checker accepts one certified lead with an uncertified hand
  (`horizon.py` 208-210, `invariants.py` 224-227).
* A job reported dispatched that the committed plan does not stop for (`krama event
  job-dispatched` takes any) is not carried, and being dispatched it is not planned
  either (`state.py` 155-157): it is in neither list of the next plan.
* A carried prefix is cut before its drive home (`repair.py` 254): the next route of
  its crew leaves the depot the minute its last stop ends.
* When traffic thickens, the search of `_depart_and_arrive` need not settle
  (`routing.py` 70-72); a delay between two probes is not in the matrix.
* A van that breaks down under its crew leaves no plan that passes, since carried
  work may not move. A shift extension of a fitter who is not eligible for
  overtime is planned with and rejected. Same-day jobs may be placed before they
  were requested.
* All vans leave from the first van's depot (`day_planner.py` 702).
* The checker reads the hour of a route's end off the clock, which starts again at
  midnight: a crew back at midnight passes with overtime that nobody allowed, and when
  the rest of its day is carved out it does not.
* A confirmed job with two windows is solved for one of them and replayed into the
  other.

Office and boards:

* A van copied from one read before the shop moved stays at the old depot.
* A new van may take the id of a removed one; removing a fitter keeps the hours he
  agreed to.
* A confirmation's id sorts before that of the booking it confirms; only their
  different stamps keep them in order.
* A board's queue belongs to one process: a publish reaches the boards of the
  process that served the request. Publishing from worker threads is not
  thread-safe for an `asyncio` queue. A board dropped in the middle may still get
  what is in its queue.
* `recorded_at` is the stated time (`cli/events.py` 42-45), where
  `domain/events.py` 35-38 says it is when the event was recorded.

Agents:

* Accepting a triage looks nothing up again and may be repeated.
* The messages endpoint groups issues by drafted message, so that "no message
  drafted" for a customer is never shown; `verify_house_style` has no caller.
* Weekday and clock of a message are checked separately, so that a true hour and a
  true day that do not belong together pass, and a message that only repeats
  the old time does.
* `decide` is never given the overtime a repair adds. A dispatched job given to
  another crew counts as invisible.

Calls and quotes:

* Within the lead of midnight the minute that `_booking_clock` compares wraps, and
  a day that is over counts as open (`api/main.py` 843-845).
* Hours that contradict each other raise in `TimeWindow` instead of being asked about.
  They need not be the caller's: "by 30 Elm Street" matches `_BEFORE`, no hour comes of
  it, and the model's own limit is kept.
* Only the first match of a pattern counts: "from 45 Elm Street, after 3" has no
  hour to start from.
* "Come at seven" becomes eight by `_civil_floor`. Signals without any quote stay
  priced. A latest hour of 0 counts as no limit.
* `overtime_minutes` is a sum over fitters that `quote_for` multiplies by the crew
  again. Jobs without a window are not held to their hour in a quote.

## 6. Not modelled, and why

* Handlers: editing and rescheduling a booking, `krama repair`, and the suggestion
  of whom to ask to stay, which are compositions of steps modelled elsewhere
  (append, plan, commit) with more forms.
* The HTTP transport between agents (the API uses the one in the process),
  exceptions of a provider other than its own error, prompts, wording and style.
* The solver's objective and its time limit, except that any solution may be
  returned; geographic cohesion and utilisation preferences are part of it.
* Routing engines and their cache, the incident feed (a delay is given),
  notifications (I/O whose failure changes nothing), rendering, tracing, evals,
  fixtures and the web board (a view whose calls are the requests above).

What could come next: a rescheduling handler in `Dispatch`, delays below 1, and the
preconditions of `SeenAlike` one by one, as the code comes to meet them.
