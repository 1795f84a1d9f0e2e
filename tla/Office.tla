-------------------------------- MODULE Office --------------------------------
(***************************************************************************)
(* The handlers of api/main.py that only record what happened: the roster, *)
(* the fleet and its depot, crew asks, bookings, and the event form; the   *)
(* fold that makes a world of what they recorded (domain/state.py); and    *)
(* the stream that tells the open boards (Broadcaster).                    *)
(*                                                                         *)
(* A handler reads the world, takes a stamp, appends, and publishes;       *)
(* between any two of those other handlers run, and it may stop.           *)
(***************************************************************************)
EXTENDS Integers, SequencesExt

CONSTANTS Threads,      \* requests served at the same time
          Fitters, Places, Phones, Boards,
          Depot,        \* the place of the shop at the start
          HoursAgreed,  \* how late a crew can be asked to stay
          Stated,       \* moments the event form can name, by the wall clock's count
          MaxQueue,     \* max_queue
          Mixes         \* bounds: [kinds, requests], the handlers and words a behaviour is
                        \* made of, and how many requests

ASSUME OfficeConstants ==
    /\ Depot \in Places /\ MaxQueue \in Nat
    /\ HoursAgreed \subseteq 1..9 /\ Stated \subseteq Nat

VARIABLES mix,         \* the handlers served, and the requests
          log,         \* the events in the order fold applies them
          clock,       \* stamps handed out: datetime.now
          served,      \* requests begun
          step,        \* thread -> its handler's next access
          req,         \* thread -> its request, and the stamp it put on it
          read,        \* thread -> the world it read
          tell,        \* thread -> the boards its publish has yet to reach
          subscribers, \* boards in the broadcast
          queue,       \* board -> messages waiting for it
          got,         \* board -> messages it has been sent, since it connected
          due          \* board -> messages published while it was in the broadcast

recordVars == <<mix, log, clock, served, step, req, read>>
streamVars == <<tell, subscribers, queue, got, due>>
officeVars == <<recordVars, streamVars>>

-----------------------------------------------------------------------------
(* The fold.                                                               *)

Put(f, key, value) == [k \in DOMAIN f \cup {key} |-> IF k = key THEN value ELSE f[k]]
Without(f, keys) == Restrict(f, DOMAIN f \ keys)

\* Mutant: the later word replaces the earlier.
LastAgreed(standing, until) == until

\* "I can stay to seven" does not cancel "I can stay to eight".
LaterAgreed(standing, until) == IF until > standing THEN until ELSE standing

\* Words about a job the world does not hold are ignored.
Change(w, j, job) == IF j \in DOMAIN w.jobs THEN [w EXCEPT !.jobs[j] = job] ELSE w
State(w, j, state) == Change(w, j, [w.jobs[j] EXCEPT !.state = state])

Apply(w, e) ==
    CASE e.kind = "worker" -> [w EXCEPT !.fitters = Put(@, e.id, e.val)]
      [] e.kind = "dropworker" -> [w EXCEPT !.fitters = Without(@, {e.id}), !.out = @ \ {e.id}]
      [] e.kind = "van" -> [w EXCEPT !.vans = Put(@, e.id, e.val)]
      [] e.kind = "dropvan" -> [w EXCEPT !.vans = Without(@, {e.id}), !.out = @ \ {e.id}]
      [] e.kind = "depot" -> [w EXCEPT !.vans = [v \in DOMAIN @ |-> e.val]]
      [] e.kind = "ask" -> [w EXCEPT !.asks = Put(@, e.id, e.val)]
      [] e.kind = "close" -> [w EXCEPT !.asks = Without(@, {e.id})]
      [] e.kind = "extend" -> [w EXCEPT !.staying[e.id] = LaterAgreed(@, e.val)]
      [] e.kind = "price" -> [w EXCEPT !.rate = e.val]
      [] e.kind = "book" ->
           [w EXCEPT !.jobs = Put(@, e.id, [state |-> "confirmed", minutes |-> 1, caller |-> e.val])]
      [] e.kind = "confirmed" -> State(w, e.id, "confirmed")
      [] e.kind = "dispatched" -> State(w, e.id, "dispatched")
      [] e.kind = "cancelled" -> State(w, e.id, "cancelled")
      [] e.kind = "completed" -> Change(w, e.id, [w.jobs[e.id] EXCEPT !.state = "completed",
                                                                      !.minutes = e.val])
      [] e.kind = "overran" -> Change(w, e.id, [w.jobs[e.id] EXCEPT !.minutes = @ + e.val])
      [] e.kind = "out" -> [w EXCEPT !.out = @ \cup {e.id}]
      [] e.kind = "back" -> [w EXCEPT !.out = @ \ {e.id}]
      [] e.kind = "traffic" -> w   \* no handler here reads it

\* Two vans at the depot, one fitter, an ask for each hour, nothing booked.
Seed == [fitters |-> [f \in {CHOOSE f \in Fitters : TRUE} |-> Depot],
         vans |-> [v \in 1..2 |-> Depot],
         out |-> {}, staying |-> [f \in Fitters |-> 0],
         jobs |-> [j \in {} |-> 0],
         asks |-> [a \in HoursAgreed |->
                     [caller |-> CHOOSE c \in Phones : TRUE, until |-> a, who |-> Fitters]],
         rate |-> 1, as_of |-> 0]

\* The world's clock is the stamp of its last event.
Fold(events) ==
    [FoldLeft(Apply, Seed, events) EXCEPT !.as_of = IF events = <<>> THEN 0 ELSE Last(events).at]
World == Fold(log)

IsActive(w, j) == w.jobs[j].state \notin {"cancelled", "completed"}

-----------------------------------------------------------------------------
(* The log.                                                                *)

\* The prefixes of event ids, as strings sort them.
IdPrefixes == <<"askc", "depot", "e", "ev", "ext", "job", "rate", "vr", "vx", "wr", "wx">>
Rank(prefix) == CHOOSE i \in DOMAIN IdPrefixes : IdPrefixes[i] = prefix

Event(kind, prefix, at, id, val) ==
    [kind |-> kind, tag |-> Rank(prefix), at |-> at, id |-> id, val |-> val]

\* fold sorts by recorded_at, then by event_id: by its prefix, then at random.
NotAfter(d, e) == d.at < e.at \/ (d.at = e.at /\ d.tag <= e.tag)

Inserted(events, e) ==
    {InsertAt(events, i, e) :
       i \in {i \in 1..Len(events) + 1 : /\ \A k \in 1..i - 1 : NotAfter(events[k], e)
                                         /\ \A k \in i..Len(events) : NotAfter(e, events[k])}}

AllInserted(events, batch) ==
    FoldLeft(LAMBDA logs, e : UNION {Inserted(l, e) : l \in logs}, {events}, batch)

-----------------------------------------------------------------------------
(* The handlers.                                                           *)

NoReq == [kind |-> "none", id |-> 0, val |-> 0, at |-> 0, n |-> 0]

OfficeInit ==
    /\ mix \in Mixes
    /\ log = <<>> /\ clock = 0 /\ served = 0
    /\ step = [t \in Threads |-> "idle"]
    /\ req = [t \in Threads |-> NoReq]
    /\ read = [t \in Threads |-> Seed]
    /\ tell = [t \in Threads |-> {}]
    /\ subscribers = {}
    /\ queue = [b \in Boards |-> <<>>]
    /\ got = [b \in Boards |-> {}]
    /\ due = [b \in Boards |-> {}]

\* A request comes in and finds nothing to refuse in the world it reads.
Begin(t, kind, id, val) ==
    /\ step[t] = "idle" /\ served < mix.requests /\ kind \in mix.kinds
    /\ served' = served + 1
    /\ req' = [req EXCEPT ![t] = [kind |-> kind, id |-> id, val |-> val, at |-> 0, n |-> served']]
    /\ read' = [read EXCEPT ![t] = World]
    /\ step' = [step EXCEPT ![t] = "stamp"]
    /\ UNCHANGED <<mix, log, clock, streamVars>>

\* Somebody new starts from the depot, the first one found on a van; somebody
\* known keeps the home they have.
ConfigureWorker(t) ==
    \E f \in Fitters :
        \/ f \in DOMAIN World.fitters /\ Begin(t, "worker", f, World.fitters[f])
        \/ /\ f \notin DOMAIN World.fitters
           /\ \E v \in DOMAIN World.vans : Begin(t, "worker", f, World.vans[v])

RemoveWorker(t) == \E f \in DOMAIN World.fitters : Begin(t, "dropworker", f, 0)

NextVan(w) == Max({0} \cup DOMAIN w.vans) + 1

\* An edited van keeps its depot, a new one takes it from a van there is.
ConfigureVan(t) ==
    \/ \E v \in DOMAIN World.vans : Begin(t, "van", v, World.vans[v])
    \/ \E v \in DOMAIN World.vans : Begin(t, "van", NextVan(World), World.vans[v])

\* Mutant: the last van may go too.
RemoveAnyVan(t) == \E v \in DOMAIN World.vans : Begin(t, "dropvan", v, 0)

\* The last van carries the only record of the depot.
RemoveVan(t) ==
    \E v \in DOMAIN World.vans : Cardinality(DOMAIN World.vans) > 1 /\ Begin(t, "dropvan", v, 0)

MoveDepot(t) == \E p \in Places : Begin(t, "depot", 0, p)

SetPricing(t) == \E rate \in 1..2 : Begin(t, "price", 0, rate)

\* The candidates are whom the quote found on the roster.
OpenAsk(t) ==
    \E c \in Phones, until \in HoursAgreed :
        Begin(t, "ask", 10 + served, [caller |-> c, until |-> until,
                                      who |-> DOMAIN World.fitters])

\* Only a fitter the ask was about can agree to it.
ExtendForAsk(t) ==
    \E a \in DOMAIN World.asks : \E f \in World.asks[a].who :
        Begin(t, "extend", f, World.asks[a].until)

CloseAsk(t) == \E a \in DOMAIN World.asks : Begin(t, "close", a, 0)

\* A caller who has a booking is asked whether this is a second job (allow_duplicate).
BookSlot(t) ==
    \E c \in Phones, again \in BOOLEAN :
        /\ again \/ \A j \in DOMAIN World.jobs : IsActive(World, j) => World.jobs[j].caller # c
        /\ Begin(t, "book", 0, c)

\* What the event form can say of a job, a fitter or a van; it looks no id up.
JobWords == {"confirmed", "dispatched", "cancelled", "completed", "overran"}
Words == JobWords \cup {"out", "back", "traffic"}

Named(w, word) == IF word \in JobWords THEN DOMAIN w.jobs
                  ELSE IF word = "traffic" THEN {0} ELSE DOMAIN w.fitters \cup DOMAIN w.vans

\* A moment stated in the form is the stamp of the event, too.
RecordEvent(t) ==
    \E word \in Words \cap mix.kinds, at \in Stated \cup {0} : \E id \in Named(World, word) :
        /\ Begin(t, "said", id, [word |-> word, at |-> at])

\* datetime.now.  A booking reads the world again first: its check for
\* duplicates had a reading of its own.
Stamp(t) ==
    /\ step[t] = "stamp"
    /\ clock' = clock + 1
    /\ read' = [read EXCEPT ![t] = IF req[t].kind = "book" THEN World ELSE @]
    /\ req' = [req EXCEPT ![t].at = clock']
    /\ step' = [step EXCEPT ![t] = "append"]
    /\ UNCHANGED <<mix, log, served, streamVars>>

NextJob(w) == Max({500} \cup DOMAIN w.jobs) + 1

\* Mutant: new events are stamped with the world's clock.
StampAsOf(r, w) == w.as_of

StampNow(r, w) == r.at

\* Booking is the resolution of the asks of the same phone.
Booking(r, w) ==
    LET at == StampNow(r, w)
        asks == SetToSeq({a \in DOMAIN w.asks : w.asks[a].caller = r.val})
    IN [i \in DOMAIN asks |-> Event("close", "askc", at, asks[i], 0)]
       \o <<Event("book", "job", at, NextJob(w), r.val)>>

\* What the handler appends, in one batch.
Batch(r, w) ==
    CASE r.kind = "book" -> Booking(r, w)
      [] r.kind = "said" -> <<Event(r.val.word, "e", IF r.val.at = 0 THEN r.at ELSE r.val.at,
                                    r.id, 1)>>
      [] r.kind = "worker" -> <<Event("worker", "wr", r.at, r.id, r.val)>>
      [] r.kind = "dropworker" -> <<Event("dropworker", "wx", r.at, r.id, r.val)>>
      [] r.kind = "van" -> <<Event("van", "vr", r.at, r.id, r.val)>>
      [] r.kind = "dropvan" -> <<Event("dropvan", "vx", r.at, r.id, r.val)>>
      [] r.kind = "depot" -> <<Event("depot", "depot", r.at, r.id, r.val)>>
      [] r.kind = "price" -> <<Event("price", "rate", r.at, r.id, r.val)>>
      [] r.kind = "extend" -> <<Event("extend", "ext", r.at, r.id, r.val)>>
      [] r.kind \in {"ask", "close"} -> <<Event(r.kind, "ev", r.at, r.id, r.val)>>

\* apply_events
AppendBatch(t, batch) ==
    /\ step[t] = "append"
    /\ log' \in AllInserted(log, batch)
    /\ step' = [step EXCEPT ![t] = "publish"]
    /\ read' = [read EXCEPT ![t] = Seed]   \* not looked at again
    /\ UNCHANGED <<mix, clock, served, req, streamVars>>

Record(t) == req[t].kind # "accept" /\ AppendBatch(t, Batch(req[t], read[t]))

-----------------------------------------------------------------------------
(* The stream.                                                             *)

\* publish: the message goes to the boards that are in the broadcast now.
Publish(t) ==
    /\ step[t] = "publish"
    /\ step' = [step EXCEPT ![t] = "telling"]
    /\ tell' = [tell EXCEPT ![t] = subscribers]
    /\ due' = [b \in Boards |-> IF b \in subscribers THEN due[b] \cup {req[t].n} ELSE due[b]]
    /\ UNCHANGED <<mix, log, clock, served, req, read, subscribers, queue, got>>

\* Mutant of Tell: a message that finds no room is lost, and the board stays.
TellOrForget(t, b) ==
    /\ b \in tell[t]
    /\ tell' = [tell EXCEPT ![t] = @ \ {b}]
    /\ queue' = [queue EXCEPT ![b] = IF Len(@) < MaxQueue THEN Append(@, req[t].n) ELSE @]
    /\ UNCHANGED <<recordVars, subscribers, got, due>>

\* put_nowait, or the slow subscriber is dropped.
Tell(t, b) ==
    /\ b \in tell[t]
    /\ tell' = [tell EXCEPT ![t] = @ \ {b}]
    /\ IF Len(queue[b]) < MaxQueue
       THEN queue' = [queue EXCEPT ![b] = Append(@, req[t].n)] /\ UNCHANGED subscribers
       ELSE subscribers' = subscribers \ {b} /\ UNCHANGED queue
    /\ UNCHANGED <<recordVars, got, due>>

EndRequest(t) ==
    /\ step' = [step EXCEPT ![t] = "idle"]
    /\ req' = [req EXCEPT ![t] = NoReq]
    /\ read' = [read EXCEPT ![t] = Seed]
    /\ UNCHANGED <<mix, log, clock, served, streamVars>>

\* The handler answers.
Answer(t) == step[t] = "telling" /\ tell[t] = {} /\ EndRequest(t)

\* The request is cut off wherever it stands: a store that fails, a function out of time.
Die(t) == step[t] \in {"stamp", "append", "publish"} /\ EndRequest(t)

\* A board opens the stream, with a queue of its own.
Connect(b) ==
    /\ "board" \in mix.kinds /\ b \notin subscribers /\ due[b] = {}
    /\ subscribers' = subscribers \cup {b}
    /\ UNCHANGED <<recordVars, tell, queue, got, due>>

Receive(b) ==
    /\ queue[b] # <<>>
    /\ got' = [got EXCEPT ![b] = @ \cup {Head(queue[b])}]
    /\ queue' = [queue EXCEPT ![b] = Tail(@)]
    /\ UNCHANGED <<recordVars, tell, subscribers, due>>

\* The connection is closed: the queue is nobody's any more.
Leave(b) ==
    /\ b \in subscribers \/ due[b] # {}
    /\ subscribers' = subscribers \ {b}
    /\ tell' = [t \in Threads |-> tell[t] \ {b}]
    /\ queue' = [queue EXCEPT ![b] = <<>>]
    /\ got' = [got EXCEPT ![b] = {}]
    /\ due' = [due EXCEPT ![b] = {}]
    /\ UNCHANGED recordVars

Handler(t) ==
    \/ ConfigureWorker(t) \/ RemoveWorker(t) \/ ConfigureVan(t) \/ RemoveVan(t)
    \/ MoveDepot(t) \/ SetPricing(t)
    \/ OpenAsk(t) \/ ExtendForAsk(t) \/ CloseAsk(t) \/ BookSlot(t) \/ RecordEvent(t)
    \/ Stamp(t) \/ Record(t) \/ Publish(t) \/ (\E b \in Boards : Tell(t, b))
    \/ Answer(t) \/ Die(t)

OfficeNext ==
    \/ \E t \in Threads : Handler(t)
    \/ \E b \in Boards : Connect(b) \/ Receive(b) \/ Leave(b)

OfficeSpec == OfficeInit /\ [][OfficeNext]_officeVars

-----------------------------------------------------------------------------
(* Properties.                                                             *)

\* A fleet a new van or fitter can be added to: there is a van, and all vans
\* agree where the shop is.
Whole(w) == DOMAIN w.vans # {} /\ Cardinality({w.vans[v] : v \in DOMAIN w.vans}) = 1

\* remove_van and move_depot keep the one record of the depot: a handler that
\* nobody overtook, whose reading is still the world when it appends, leaves the
\* fleet whole.  (Two removals that read the same two vans empty it, and a van
\* copied from one read before the shop moved stays behind: see the README.)
Overtaken(t) == read[t] # World \/ \E e \in ToSet(log) : e.at > req[t].at
FleetStaysWhole ==
    [][\A t \in Threads :
         step[t] = "append" /\ step'[t] = "publish" /\ ~Overtaken(t) /\ Whole(World)
            => Whole(World')]_officeVars

\* What remove_van says of its guard: the last van "cannot be removed", for a
\* fleet without one cannot be filled again.
FleetIsNeverEmptied == DOMAIN World.vans # {}

\* An agreement to stay late that a dispatcher was told of stands, whoever else
\* agreed to less, and in whatever order the words were recorded; as long as
\* nobody agreed to more, no later hour is made of it.
AgreementsStand ==
    \A f \in Fitters :
        World.staying[f] = Max({0} \cup {e.val : e \in {d \in ToSet(log) : d.kind = "extend" /\ d.id = f}})

\* "Booking IS the resolution of a crew ask": no ask stays lit that the handler
\* of its caller's booking saw open, nor one whose Resolve button was pressed.
AnsweredAsksAreClosed ==
    \A e \in ToSet(log) : e.kind = "close" => e.id \notin DOMAIN World.asks

\* A board that is still in the broadcast has missed nothing that was published
\* since it connected: a slow one is dropped rather than fed with a gap.
SubscribersMissNothing ==
    \A b \in subscribers :
        (\A t \in Threads : b \notin tell[t]) => ToSet(queue[b]) \cup got[b] = due[b]
=============================================================================
