-------------------------------- MODULE Agents --------------------------------
(***************************************************************************)
(* The agents between a dispatcher and the engine: a note is routed and    *)
(* triaged into events (agents/router.py, triage.py, registry.py), which   *)
(* the dispatcher may record; a repair is chosen (coordinator.py) and the  *)
(* customers it touches are written to (comms.py).  Each asks a model,     *)
(* through Structured; what it says is checked, never taken on trust.      *)
(***************************************************************************)
EXTENDS Office, Structured, Review

CONSTANTS Weeks   \* what a repair can find: [jobs, plan, options, limits]

\* TriagedEvent.kind is an event of the form; the engine repairs a plan in one
\* way at least.
ASSUME AgentsConstants ==
    /\ Callers = Threads
    /\ \A v \in Values : v.schema = "TriageOutcome" =>
         /\ v.items \in Seq(ToSet(v.items))
         /\ \A item \in ToSet(v.items) : item.word \in Words /\ item.at \in Nat
    /\ \A week \in Weeks :
         /\ IsFiniteSet(DOMAIN week.plan)
         /\ week.options # <<>> /\ week.options \in Seq(ToSet(week.options))
         /\ \A option \in ToSet(week.options) : IsFiniteSet(DOMAIN option.plan)

VARIABLE inbox    \* the answers dispatchers have been given

agentsVars == <<officeVars, callVars, inbox>>

AgentsInit == OfficeInit /\ StructuredInit /\ inbox = {}

\* The thread asks the model for an object of a schema, and remembers why.
Ask(t, schema, why) ==
    /\ Extract(t)
    /\ step' = [step EXCEPT ![t] = schema]
    /\ read' = [read EXCEPT ![t] = World]
    /\ req' = [req EXCEPT ![t].kind = schema, ![t].val = why]
    /\ UNCHANGED <<mix, log, clock, streamVars, inbox>>

Take(t, kind) ==
    /\ step[t] = "idle" /\ served < mix.requests /\ kind \in mix.kinds
    /\ served' = served + 1

\* The client has its answer.
Reply(t, answers) ==
    /\ inbox' = inbox \cup answers
    /\ EndRequest(t)

Said(t, schema) == step[t] = schema /\ t \notin asking

-----------------------------------------------------------------------------
(* Notes.                                                                  *)

\* read_note: the kind of the note is routed by the model, or was given.
ReadNote(t) ==
    /\ Take(t, "note")
    /\ \E schema \in {"NoteRouting", "TriageOutcome"} : Ask(t, schema, 0)

\* No answer is assumed to be a booking, which is another agent's.
Routed(t) ==
    /\ Said(t, "NoteRouting")
    /\ IF result[t].value # Nothing /\ result[t].value.kind = "disruption"
       THEN Ask(t, "TriageOutcome", 0) /\ UNCHANGED served
       ELSE Reply(t, {}) /\ UNCHANGED callVars

\* _known_target; an item with no target is not looked up.
KnownTarget(w, item) == item.id = 0 \/ item.id \in Named(w, item.word)

\* build_event: all words but traffic need a target, some need a number.
Buildable(item) == item.complete /\ (item.id # 0 \/ item.word = "traffic")

\* A stated time, or the world's clock: run_triage passes no other.
EventOf(w, item) ==
    Event(item.word, "e", IF item.at = 0 THEN w.as_of ELSE item.at, item.id, 1)

\* triage goes through the items once: each names somebody who is not there, or
\* is built, or is rejected.
Unknown(w, items)  == {i \in DOMAIN items : ~KnownTarget(w, items[i])}
Rejected(w, items) == {i \in DOMAIN items : KnownTarget(w, items[i]) /\ ~Buildable(items[i])}
Built(w, items) ==
    FoldLeft(LAMBDA built, i : IF KnownTarget(w, i) /\ Buildable(i) THEN Append(built, EventOf(w, i))
                               ELSE built, <<>>, items)

\* Mutant: a rejected event needs nobody.
OnlyQuestions(w, outcome) == outcome.question \/ Unknown(w, outcome.items) # {}

NeedsDispatcher(w, outcome) ==
    \/ outcome.question
    \/ Unknown(w, outcome.items) # {} \/ Rejected(w, outcome.items) # {}

\* What the note panel is shown: the events that could be built, and whether the
\* note is dealt with by them.  An empty extraction is a question.
Triaged(t) ==
    /\ Said(t, "TriageOutcome")
    /\ LET w == read[t]  outcome == result[t].value
       IN IF outcome = Nothing THEN Reply(t, {})
          ELSE Reply(t, {[kind |-> "note", done |-> ~NeedsDispatcher(w, outcome),
                          described |-> Len(outcome.items),
                          events |-> Built(w, outcome.items)]})
    /\ UNCHANGED callVars

\* accept_triage: the reviewed events come back from the client as they are, once
\* or again; nothing is looked up a second time.
AcceptTriage(t) ==
    \E r \in {x \in inbox : x.kind = "note"} :
        /\ r.events # <<>>
        /\ Take(t, "note")
        /\ req' = [req EXCEPT ![t] = [kind |-> "accept", id |-> 0, val |-> r.events, at |-> 0,
                                      n |-> served']]
        /\ step' = [step EXCEPT ![t] = "append"]
        /\ UNCHANGED <<mix, log, clock, read, streamVars, callVars, inbox>>

RecordAccepted(t) ==
    /\ req[t].kind = "accept" /\ AppendBatch(t, req[t].val)
    /\ UNCHANGED <<callVars, inbox>>

-----------------------------------------------------------------------------
(* Repairs.  Which options the engine has is left open.                    *)

Option(week, o) == [name |-> o.name, cost |-> o.cost, served |-> Cardinality(DOMAIN o.plan),
                    diff |-> Diff(week.plan, o.plan, week.jobs), plan |-> o.plan]

OptionsOf(week) == [i \in DOMAIN week.options |-> Option(week, week.options[i])]

\* choose_repair, sent through the transport.
ChooseRepair(t) ==
    /\ Take(t, "repair")
    /\ \E week \in Weeks : Ask(t, "CoordinatorChoice", week)

Chose(t) ==
    /\ Said(t, "CoordinatorChoice")
    /\ LET week == req[t].val  choice == result[t].value
           name == IF choice = Nothing THEN "" ELSE choice.strategy
           review == choice # Nothing /\ choice.review
           chosen == Chosen(OptionsOf(week), name)
       IN Reply(t, {[kind |-> "repair", done |-> ~NeedsHuman(chosen, review, week.limits),
                     plan |-> chosen.plan, week |-> week]})
    /\ UNCHANGED callVars

\* draft_messages, of one option.
DraftMessages(t) ==
    /\ Take(t, "comms")
    /\ \E week \in Weeks : \E i \in DOMAIN week.options :
         /\ Visible(OptionsOf(week)[i].diff) # {}
         /\ Ask(t, "CommsOutput", OptionsOf(week)[i].diff)

Wrote(t) ==
    /\ Said(t, "CommsOutput")
    /\ LET diff == req[t].val  output == result[t].value
       IN Reply(t, IF output = Nothing THEN {}
                   ELSE {[kind |-> "comms", safe |-> SafeToSend(output.drafts, diff),
                          drafts |-> output.drafts, diff |-> diff]})
    /\ UNCHANGED callVars

-----------------------------------------------------------------------------

ModelStep(t) ==
    /\ \/ \E v \in {x \in Values : x.schema = step[t]} : Valid(t, v)
       \/ Invalid(t) \/ Unreachable(t) \/ GiveUp(t)
    /\ UNCHANGED <<officeVars, inbox>>

OfficeStep == OfficeNext /\ UNCHANGED <<callVars, inbox>>

AgentStep(t) ==
    \/ ReadNote(t) \/ Routed(t) \/ Triaged(t) \/ AcceptTriage(t) \/ RecordAccepted(t)
    \/ ChooseRepair(t) \/ Chose(t) \/ DraftMessages(t) \/ Wrote(t)

AgentsNext == OfficeStep \/ \E t \in Threads : AgentStep(t) \/ ModelStep(t)

AgentsSpec == AgentsInit /\ [][AgentsNext]_agentsVars

-----------------------------------------------------------------------------
(* Properties.                                                             *)

\* A note the panel calls dealt with became as many events as it described;
\* "silently dropping it would lose the very information the dispatcher took
\* the trouble to type".
NothingDescribedIsLost ==
    \A r \in inbox : r.kind = "note" /\ r.done => Len(r.events) = r.described

\* A repair nobody is asked about keeps every promise of the plan it replaces:
\* a promised visit stays on its day, and is over within its window if its
\* hour moved, whatever the model chose.
NobodyIsLetDownQuietly ==
    \A r \in inbox : r.kind = "repair" /\ r.done =>
        \A j \in DOMAIN r.week.plan \cap DOMAIN r.week.jobs :
            LET job == r.week.jobs[j]  was == r.week.plan[j] IN
            job.state \in Promised =>
                /\ j \in DOMAIN r.plan /\ r.plan[j].day = was.day
                /\ r.plan[j].arrival # was.arrival =>
                     /\ job.state = "confirmed"
                     /\ job.opens <= r.plan[j].arrival /\ r.plan[j].departure <= job.closes

\* A reading of the clock is an arrival of the change, old or new, or an end of
\* the window that was promised.
Supported(c, reading) ==
    \/ \E v \in c.before \cup c.after : v.arrival = reading[2]
    \/ \E p \in c.promise : reading[2] \in {p[1], p[2]}

\* Messages that may be sent reach everybody who has to be told and nobody else,
\* and no reading of the clock that the patterns find in them is one the change
\* does not support, however often the model was asked before it answered.
MessagesReachTheAffected ==
    \A r \in inbox : r.kind = "comms" /\ r.safe =>
        /\ {d.job : d \in r.drafts} = {c.job : c \in {x \in r.diff : CustomerVisible(x)}}
        /\ \A d \in r.drafts, c \in r.diff : d.job = c.job =>
             \A w \in d.seen : w[1] = "clock" => Supported(c, w)

\* What comms.py says of its check: "every time, date and day-name in a draft is
\* extracted and matched against the plan diff", so no reading of the clock in a
\* message that may be sent is one the change does not support.
EveryReadingIsSupported ==
    \A r \in inbox : r.kind = "comms" /\ r.safe =>
        \A d \in r.drafts, c \in r.diff : d.job = c.job =>
            \A w \in d.says : w[1] = "clock" => Supported(c, w)

\* What a dispatcher accepted from a note counts: a job whose cancellation was
\* recorded is cancelled.
AcceptedCancellationsCount ==
    [][\A t \in Threads :
         step[t] = "append" /\ step'[t] = "publish" /\ req[t].kind = "accept" =>
            \A i \in DOMAIN req[t].val :
               req[t].val[i].kind = "cancelled"
                 => World'.jobs[req[t].val[i].id].state = "cancelled"]_agentsVars
=============================================================================
