----------------------------- MODULE Agents_proofs -----------------------------
(***************************************************************************)
(* What the run of Agents checks on two requests at a time and three in    *)
(* all, for any number of them: of the office, of the agents, and of the   *)
(* stream.                                                                 *)
(***************************************************************************)
EXTENDS Agents, SequenceTheorems, FiniteSetTheorems, InductionLemmas, TLAPS

-----------------------------------------------------------------------------
(* The extraction loop.                                                    *)

\* The inductive invariant: the counters have their types, and they agree with
\* each other and with what was returned.  A caller's own counters say nothing
\* about the result without the types that bound them.
LoopInv == StructuredTypeOK /\ AttemptsAreAccountedFor

LEMMA LoopStarts == StructuredInit => LoopInv
<1> SUFFICES ASSUME StructuredInit PROVE LoopInv
    OBVIOUS
<1>1. StructuredTypeOK
    BY StructuredConstants DEF StructuredInit, StructuredTypeOK, NoResult
<1>2. AttemptsAreAccountedFor
    BY DEF StructuredInit, AttemptsAreAccountedFor, NoResult
<1> QED
    BY <1>1, <1>2 DEF LoopInv

LEMMA LoopContinues == LoopInv /\ [StructuredNext]_callVars => LoopInv'
<1> SUFFICES ASSUME LoopInv, [StructuredNext]_callVars PROVE LoopInv'
    OBVIOUS
<1> USE StructuredConstants DEF LoopInv, StructuredTypeOK, AttemptsAreAccountedFor
<1>1. CASE UNCHANGED callVars
    BY <1>1 DEF callVars
<1>2. ASSUME NEW c \in Callers, Extract(c) PROVE LoopInv'
    <2>1. NoResult \in [value : Values \cup {Nothing}, attempts : 0..MaxAttempts, failed : BOOLEAN]
        BY DEF NoResult
    <2>2. StructuredTypeOK'
        BY <1>2, <2>1 DEF Extract
    <2>3. AttemptsAreAccountedFor'
        BY <1>2, <2>1 DEF Extract
    <2> QED
        BY <2>2, <2>3
<1>3. ASSUME NEW c \in Callers, NEW v \in Values, Valid(c, v) PROVE LoopInv'
    <2>1. c \in asking /\ attempted[c] \in 0..MaxAttempts /\ attempted[c] < MaxAttempts
        BY <1>3 DEF Valid, MayAttempt
    <2>2. attempted[c] + 1 \in 0..MaxAttempts
        BY <2>1
    <2>3. StructuredTypeOK'
        BY <1>3, <2>1, <2>2 DEF Valid, Attempt, Return
    <2>4. AttemptsAreAccountedFor'
        BY <1>3, <2>1, <2>2 DEF Valid, Attempt, Return
    <2> QED
        BY <2>3, <2>4
<1>4. ASSUME NEW c \in Callers, Invalid(c) PROVE LoopInv'
    <2>1. /\ c \in asking /\ attempted[c] \in 0..MaxAttempts /\ attempted[c] < MaxAttempts
          /\ errors[c] = attempted[c] /\ messages[c] = 1 + 2 * attempted[c]
        BY <1>4 DEF Invalid, MayAttempt
    <2>2. attempted[c] + 1 \in 0..MaxAttempts /\ messages[c] + 2 \in Nat
        BY <2>1
    <2>3. StructuredTypeOK'
        BY <1>4, <2>1, <2>2 DEF Invalid, Attempt
    <2>4. AttemptsAreAccountedFor'
        BY <1>4, <2>1, <2>2 DEF Invalid, Attempt
    <2> QED
        BY <2>3, <2>4
<1>5. ASSUME NEW c \in Callers, Unreachable(c) PROVE LoopInv'
    <2>1. /\ c \in asking /\ attempted[c] \in 0..MaxAttempts /\ attempted[c] < MaxAttempts
          /\ errors[c] = attempted[c]
        BY <1>5 DEF Unreachable, MayAttempt
    <2>2. attempted[c] + 1 \in 0..MaxAttempts
        BY <2>1
    <2>3. StructuredTypeOK'
        BY <1>5, <2>1, <2>2 DEF Unreachable, Attempt, Return
    <2>4. AttemptsAreAccountedFor'
        BY <1>5, <2>1, <2>2 DEF Unreachable, Attempt, Return
    <2> QED
        BY <2>3, <2>4
<1>6. ASSUME NEW c \in Callers, GiveUp(c) PROVE LoopInv'
    <2>1. c \in asking /\ attempted[c] \in 0..MaxAttempts /\ errors[c] = attempted[c]
        BY <1>6 DEF GiveUp
    <2>2. StructuredTypeOK'
        BY <1>6, <2>1 DEF GiveUp, Return
    <2>3. AttemptsAreAccountedFor'
        BY <1>6, <2>1 DEF GiveUp, Return
    <2> QED
        BY <2>2, <2>3
<1> QED
    BY <1>1, <1>2, <1>3, <1>4, <1>5, <1>6 DEF StructuredNext, ModelReplies

LEMMA LoopInvariance == StructuredSpec => []LoopInv
BY LoopStarts, LoopContinues, PTL DEF StructuredSpec

\* Every counter keeps its type: in particular no extraction makes more than
\* max_attempts attempts.
THEOREM AttemptsAreBounded == StructuredSpec => []StructuredTypeOK
<1>1. LoopInv => StructuredTypeOK
    BY DEF LoopInv
<1> QED
    BY <1>1, LoopInvariance, PTL

\* The attempts, errors and messages of an extraction agree, while it runs and
\* in what it returns.
THEOREM AttemptsAccountedFor == StructuredSpec => []AttemptsAreAccountedFor
<1>1. LoopInv => AttemptsAreAccountedFor
    BY DEF LoopInv
<1> QED
    BY <1>1, LoopInvariance, PTL

-----------------------------------------------------------------------------
(* The refinement: asking, repairing and giving up, for everybody outside   *)
(* the loop, are one answer.                                                *)

LEMMA StartsAsPromised == StructuredInit => Abstract!AbstractInit
BY DEF StructuredInit, Abstract!AbstractInit, NoResult, Abstract!NoResult

\* Every step of the loop is a question, an answer, or nothing anybody sees.
LEMMA StepsAsPromised ==
    LoopInv /\ [StructuredNext]_callVars => [Abstract!AbstractNext]_(Abstract!extractionVars)
<1> SUFFICES ASSUME LoopInv, [StructuredNext]_callVars
             PROVE  [Abstract!AbstractNext]_(Abstract!extractionVars)
    OBVIOUS
<1> USE StructuredConstants DEF LoopInv, StructuredTypeOK, AttemptsAreAccountedFor,
        Abstract!AbstractNext, Abstract!extractionVars
<1>1. CASE UNCHANGED callVars
    BY <1>1 DEF callVars
<1>2. ASSUME NEW c \in Callers, Extract(c) PROVE Abstract!Question(c)
    BY <1>2 DEF Extract, Abstract!Question, NoResult, Abstract!NoResult
<1>3. ASSUME NEW c \in Callers, NEW v \in Values, Valid(c, v) PROVE Abstract!Answer(c)
    <2> DEFINE x == [value |-> v, attempts |-> attempted[c] + 1, failed |-> FALSE]
    <2>1. attempted[c] + 1 \in 1..MaxAttempts
        BY <1>3 DEF Valid, MayAttempt
    <2>2. x \in Abstract!Extractions
        BY <2>1 DEF Abstract!Extractions, Abstract!Answered
    <2>3. c \in asking /\ asking' = asking \ {c} /\ result' = [result EXCEPT ![c] = x]
        BY <1>3 DEF Valid, MayAttempt, Return
    <2> QED
        BY <2>2, <2>3 DEF Abstract!Answer
<1>4. ASSUME NEW c \in Callers, Invalid(c) PROVE UNCHANGED <<asking, result>>
    BY <1>4 DEF Invalid
<1>5. ASSUME NEW c \in Callers, Unreachable(c) PROVE Abstract!Answer(c)
    <2> DEFINE x == [value |-> Nothing, attempts |-> attempted[c] + 1, failed |-> TRUE]
    <2>1. attempted[c] + 1 \in 1..MaxAttempts
        BY <1>5 DEF Unreachable, MayAttempt
    <2>2. x \in Abstract!Extractions
        BY <2>1 DEF Abstract!Extractions, Abstract!CutOff
    <2>3. c \in asking /\ asking' = asking \ {c} /\ result' = [result EXCEPT ![c] = x]
        BY <1>5 DEF Unreachable, MayAttempt, Return
    <2> QED
        BY <2>2, <2>3 DEF Abstract!Answer
<1>6. ASSUME NEW c \in Callers, GiveUp(c) PROVE Abstract!Answer(c)
    <2> DEFINE x == [value |-> Nothing, attempts |-> attempted[c], failed |-> FALSE]
    <2>1. x \in Abstract!Extractions
        BY <1>6 DEF GiveUp, Abstract!Extractions, Abstract!Exhausted
    <2>2. c \in asking /\ asking' = asking \ {c} /\ result' = [result EXCEPT ![c] = x]
        BY <1>6 DEF GiveUp, Return
    <2> QED
        BY <2>1, <2>2 DEF Abstract!Answer
<1> QED
    BY <1>1, <1>2, <1>3, <1>4, <1>5, <1>6 DEF StructuredNext, ModelReplies

\* Whoever asks a model gets one answer to one question: a valid object, or
\* none after the whole budget, or none because the model was not there.
THEOREM ExtractionImplemented == StructuredSpec => ImplementsExtraction
<1>1. StructuredInit => Abstract!AbstractInit
    BY StartsAsPromised
<1>2. StructuredSpec => []LoopInv
    BY LoopInvariance
<1> QED
    BY <1>1, <1>2, StepsAsPromised, PTL
    DEF StructuredSpec, ImplementsExtraction, Abstract!AbstractSpec

-----------------------------------------------------------------------------
\* What the handlers record under their own stamp, and all that is recorded.
Handled == {"worker", "dropworker", "van", "dropvan", "depot", "ask", "close", "extend",
            "price", "book"}
Recorded == Handled \cup Words

-----------------------------------------------------------------------------
(* The fold.                                                               *)

\* A world is a record of these parts.
IsWorld(w) ==
    w = [fitters |-> w.fitters, vans |-> w.vans, out |-> w.out, staying |-> w.staying,
         jobs |-> w.jobs, asks |-> w.asks, rate |-> w.rate, as_of |-> w.as_of]

LEMMA SeedIsWorld == IsWorld(Seed)
BY DEF Seed, IsWorld

\* What an event makes of the parts the proofs are about.
VansAfter(vans, e) ==
    IF e.kind = "van" THEN Put(vans, e.id, e.val)
    ELSE IF e.kind = "dropvan" THEN Without(vans, {e.id})
    ELSE IF e.kind = "depot" THEN [v \in DOMAIN vans |-> e.val] ELSE vans

AsksAfter(asks, e) ==
    IF e.kind = "ask" THEN Put(asks, e.id, e.val)
    ELSE IF e.kind = "close" THEN Without(asks, {e.id}) ELSE asks

StayingAfter(staying, e) ==
    IF e.kind = "extend" THEN [staying EXCEPT ![e.id] = LaterAgreed(@, e.val)] ELSE staying

LEMMA ApplyMeans ==
    ASSUME NEW w, IsWorld(w), NEW e, e.kind \in Recorded
    PROVE  /\ IsWorld(Apply(w, e)) /\ Apply(w, e).vans = VansAfter(w.vans, e)
           /\ Apply(w, e).asks = AsksAfter(w.asks, e)
           /\ Apply(w, e).staying = StayingAfter(w.staying, e)
           /\ Apply(w, e).as_of = w.as_of
<1> USE DEF VansAfter, AsksAfter, StayingAfter
<1> DEFINE Holds(x) == /\ IsWorld(x) /\ x.vans = VansAfter(w.vans, e)
                       /\ x.asks = AsksAfter(w.asks, e)
                       /\ x.staying = StayingAfter(w.staying, e) /\ x.as_of = w.as_of
<1>1. CASE e.kind \in {"worker", "dropworker", "price", "out", "back", "traffic"}
    BY <1>1 DEF Apply, IsWorld
<1>2. CASE e.kind \in {"van", "dropvan", "depot"}
    BY <1>2 DEF Apply, IsWorld
<1>3. CASE e.kind \in {"ask", "close"}
    BY <1>3 DEF Apply, IsWorld
<1>4. CASE e.kind = "extend"
    BY <1>4 DEF Apply, IsWorld
<1>5. CASE e.kind = "book"
    BY <1>5 DEF Apply, IsWorld
<1>6. CASE e.kind \in JobWords
    <2>1. ASSUME NEW job PROVE Holds(Change(w, e.id, job))
        BY <1>6 DEF Change, IsWorld, JobWords
    <2>2. ASSUME NEW state PROVE Holds(State(w, e.id, state))
        BY <2>1 DEF State
    <2> HIDE DEF Holds
    <2>3. Holds(Apply(w, e))
        BY <1>6, <2>1, <2>2 DEF Apply, JobWords
    <2> QED
        BY <2>3 DEF Holds
<1> QED
    BY <1>1, <1>2, <1>3, <1>4, <1>5, <1>6 DEF Recorded, Handled, Words

-----------------------------------------------------------------------------
(* Who moves.                                                              *)

Shape ==
    /\ step = [t \in Threads |-> step[t]] /\ req = [t \in Threads |-> req[t]]
    /\ read = [t \in Threads |-> read[t]]

\* Only this thread's handler moves.
Alone(t) ==
    /\ Shape' /\ read'[t] \in {read[t], World, Seed}
    /\ \A o \in Threads \ {t} : step'[o] = step[o] /\ req'[o] = req[o] /\ read'[o] = read[o]

\* What the handlers begin with.
Warranted(kind, id, val) ==
    /\ kind \in Handled \cup {"said"}
    /\ kind = "extend" => \E a \in DOMAIN World.asks : val = World.asks[a].until
    /\ kind = "ask" => id = 10 + served /\ val.until \in HoursAgreed
    /\ kind = "close" => id \in DOMAIN World.asks
    /\ kind = "van" => \E v \in DOMAIN World.vans : val = World.vans[v]
    /\ kind = "dropvan" => id \in DOMAIN World.vans /\ Cardinality(DOMAIN World.vans) > 1
    /\ kind = "said" => val.word \in Words /\ val.at \in Nat

Begins(t) == \E kind, id, val : Warranted(kind, id, val) /\ Begin(t, kind, id, val)

Records(t) == Record(t) \/ RecordAccepted(t)

\* A step that neither asks for a stamp nor readies a batch.
Otherwise(t) ==
    /\ step'[t] \notin {"stamp", "append"}
    /\ UNCHANGED <<mix, log, clock>> /\ (served' = served \/ served' = served + 1)

Quiet(t) == UNCHANGED streamVars /\ (step[t] # "telling" \/ tell[t] = {})

\* What a step can be, seen from the log and the stream.
StepKinds ==
    \/ \E t \in Threads :
         /\ Alone(t)
         /\ \/ Quiet(t) /\ (Begins(t) \/ Stamp(t) \/ Records(t) \/ AcceptTriage(t) \/ Otherwise(t))
            \/ Publish(t) /\ Otherwise(t)
    \/ (\E t \in Threads, b \in Boards : Tell(t, b)) /\ UNCHANGED recordVars
    \/ (\E b \in Boards : Connect(b) \/ Receive(b) \/ Leave(b)) /\ UNCHANGED recordVars
    \/ UNCHANGED officeVars

LEMMA HandlersBegin ==
    ASSUME NEW t \in Threads,
           \/ ConfigureWorker(t) \/ RemoveWorker(t) \/ ConfigureVan(t) \/ RemoveVan(t)
           \/ MoveDepot(t) \/ SetPricing(t)
           \/ OpenAsk(t) \/ ExtendForAsk(t) \/ CloseAsk(t) \/ BookSlot(t) \/ RecordEvent(t)
    PROVE  Begins(t)
<1> USE DEF Begins
<1>1. CASE ConfigureWorker(t)
    BY <1>1 DEF ConfigureWorker, Warranted, Handled
<1>2. CASE RemoveWorker(t)
    BY <1>2 DEF RemoveWorker, Warranted, Handled
<1>3. CASE ConfigureVan(t)
    BY <1>3 DEF ConfigureVan, Warranted, Handled
<1>4. CASE RemoveVan(t)
    BY <1>4 DEF RemoveVan, Warranted, Handled
<1>5. CASE MoveDepot(t)
    BY <1>5 DEF MoveDepot, Warranted, Handled
<1>6. CASE SetPricing(t)
    BY <1>6 DEF SetPricing, Warranted, Handled
<1>7. CASE OpenAsk(t)
    <2>1. PICK c \in Phones, until \in HoursAgreed :
              Begin(t, "ask", 10 + served, [caller |-> c, until |-> until,
                                            who |-> DOMAIN World.fitters])
        BY <1>7 DEF OpenAsk
    <2>2. PICK val : val = [caller |-> c, until |-> until, who |-> DOMAIN World.fitters]
        OBVIOUS
    <2>3. Warranted("ask", 10 + served, val)
        BY <2>2 DEF Warranted, Handled
    <2> QED
        BY <2>1, <2>2, <2>3
<1>8. CASE ExtendForAsk(t)
    <2>1. PICK a, f :
              a \in DOMAIN World.asks /\ Begin(t, "extend", f, World.asks[a].until)
        BY <1>8 DEF ExtendForAsk
    <2>2. Warranted("extend", f, World.asks[a].until)
        BY <2>1 DEF Warranted, Handled
    <2> QED
        BY <2>1, <2>2
<1>9. CASE CloseAsk(t)
    BY <1>9 DEF CloseAsk, Warranted, Handled
<1>10. CASE BookSlot(t)
    BY <1>10 DEF BookSlot, Warranted, Handled
<1>11. CASE RecordEvent(t)
    <2>1. PICK word, at, id :
              /\ word \in Words \cap mix.kinds /\ at \in Stated \cup {0}
              /\ Begin(t, "said", id, [word |-> word, at |-> at])
        BY <1>11 DEF RecordEvent
    <2>2. PICK val : val = [word |-> word, at |-> at]
        OBVIOUS
    <2>3. val.word \in Words /\ val.at \in Nat
        <3>1. Stated \cup {0} \subseteq Nat
            BY OfficeConstants
        <3>2. word \in Words
            BY <2>1
        <3>3. at \in Stated \cup {0}
            BY <2>1
        <3>4. val.word = word /\ val.at = at
            BY <2>2
        <3> QED
            BY <3>1, <3>2, <3>3, <3>4
    <2>4. Warranted("said", id, val)
        BY <2>3 DEF Warranted
    <2> QED
        BY <2>1, <2>2, <2>4
<1> QED
    BY <1>1, <1>2, <1>3, <1>4, <1>5, <1>6, <1>7, <1>8, <1>9, <1>10, <1>11

LEMMA OfficeStepKinds == Shape /\ OfficeNext => StepKinds
<1> SUFFICES ASSUME Shape, OfficeNext PROVE StepKinds
    OBVIOUS
<1>1. CASE \E b \in Boards : Connect(b) \/ Receive(b) \/ Leave(b)
    BY <1>1 DEF StepKinds, Connect, Receive, Leave
<1>2. CASE \E t \in Threads : Handler(t)
    <2>1. PICK t \in Threads : Handler(t)
        BY <1>2
    <2>2. CASE Begins(t)
        <3>1. Quiet(t)
            BY <2>2 DEF Begins, Begin, Quiet
        <3>2. Alone(t)
            BY <2>2 DEF Begins, Begin, Alone, Shape
        <3> QED
            BY <2>2, <3>1, <3>2 DEF StepKinds
    <2>3. CASE Stamp(t)
        <3>1. Quiet(t)
            BY <2>3 DEF Stamp, Quiet
        <3>2. Alone(t)
            BY <2>3 DEF Stamp, Alone, Shape
        <3> QED
            BY <2>3, <3>1, <3>2 DEF StepKinds
    <2>4. CASE Record(t)
        <3>1. Quiet(t)
            BY <2>4 DEF Record, AppendBatch, Quiet
        <3>2. Alone(t)
            BY <2>4 DEF Record, AppendBatch, Alone, Shape
        <3> QED
            BY <2>4, <3>1, <3>2 DEF StepKinds, Records
    <2>5. CASE Publish(t)
        <3>1. Otherwise(t)
            BY <2>5 DEF Publish, Otherwise, Shape
        <3>2. Alone(t)
            BY <2>5 DEF Publish, Alone, Shape
        <3> QED
            BY <2>5, <3>1, <3>2 DEF StepKinds
    <2>6. CASE \E b \in Boards : Tell(t, b)
        <3>1. UNCHANGED recordVars
            BY <2>6 DEF Tell
        <3> QED
            BY <2>6, <3>1 DEF StepKinds
    <2>7. CASE Answer(t) \/ Die(t)
        <3>1. Otherwise(t)
            BY <2>7 DEF Answer, Die, EndRequest, Otherwise, Shape
        <3>2. Alone(t)
            BY <2>7 DEF Answer, Die, EndRequest, Alone, Shape
        <3>3. Quiet(t)
            BY <2>7 DEF Answer, Die, EndRequest, Quiet
        <3> QED
            BY <3>1, <3>2, <3>3 DEF StepKinds
    <2> QED
        BY <2>1, <2>2, <2>3, <2>4, <2>5, <2>6, <2>7, HandlersBegin DEF Handler
<1> QED
    BY <1>1, <1>2 DEF OfficeNext

\* Of the agents' steps only the recording of an accepted note is more than a
\* conversation.
LEMMA AgentStepKinds ==
    ASSUME Shape, NEW t \in Threads, AgentStep(t) PROVE StepKinds
<1>1. ASSUME NEW schema \in {"NoteRouting", "TriageOutcome", "CoordinatorChoice", "CommsOutput"},
             NEW why, Ask(t, schema, why), served' = served \/ served' = served + 1,
             step[t] # "telling"
      PROVE  StepKinds
    <2>1. Otherwise(t)
        BY <1>1 DEF Ask, Otherwise, Shape
    <2>2. Alone(t)
        BY <1>1 DEF Ask, Alone, Shape
    <2>3. Quiet(t)
        BY <1>1 DEF Ask, Quiet
    <2> QED
        BY <2>1, <2>2, <2>3 DEF StepKinds
<1>2. ASSUME NEW answers, Reply(t, answers), step[t] # "telling" PROVE StepKinds
    <2>1. Otherwise(t)
        BY <1>2 DEF Reply, EndRequest, Otherwise, Shape
    <2>2. Alone(t)
        BY <1>2 DEF Reply, EndRequest, Alone, Shape
    <2>3. Quiet(t)
        BY <1>2 DEF Reply, EndRequest, Quiet
    <2> QED
        BY <2>1, <2>2, <2>3 DEF StepKinds
<1>3. CASE ReadNote(t)
    BY <1>1, <1>3 DEF ReadNote, Take
<1>4. CASE Routed(t)
    BY <1>1, <1>2, <1>4 DEF Routed, Said
<1>5. CASE Triaged(t)
    BY <1>2, <1>5 DEF Triaged, Said
<1>6. CASE AcceptTriage(t)
    <2>1. Quiet(t)
        BY <1>6 DEF AcceptTriage, Take, Quiet
    <2>2. Alone(t)
        BY <1>6 DEF AcceptTriage, Take, Alone, Shape
    <2> QED
        BY <1>6, <2>1, <2>2 DEF StepKinds
<1>7. CASE RecordAccepted(t)
    <2>1. Quiet(t)
        BY <1>7 DEF RecordAccepted, AppendBatch, Quiet
    <2>2. Alone(t)
        BY <1>7 DEF RecordAccepted, AppendBatch, Alone, Shape
    <2> QED
        BY <1>7, <2>1, <2>2 DEF StepKinds, Records
<1>8. CASE ChooseRepair(t)
    BY <1>1, <1>8 DEF ChooseRepair, Take
<1>9. CASE Chose(t)
    BY <1>2, <1>9 DEF Chose, Said
<1>10. CASE DraftMessages(t)
    <2>1. PICK week, i :
              Ask(t, "CommsOutput", OptionsOf(week)[i].diff)
        BY <1>10 DEF DraftMessages
    <2> QED
        BY <1>1, <1>10, <2>1 DEF DraftMessages, Take
<1>11. CASE Wrote(t)
    BY <1>2, <1>11 DEF Wrote, Said
<1> QED
    BY <1>3, <1>4, <1>5, <1>6, <1>7, <1>8, <1>9, <1>10, <1>11 DEF AgentStep

LEMMA StepsAreOfAKind == Shape /\ [AgentsNext]_agentsVars => StepKinds
<1> SUFFICES ASSUME Shape, [AgentsNext]_agentsVars PROVE StepKinds
    OBVIOUS
<1>1. CASE UNCHANGED agentsVars
    BY <1>1 DEF agentsVars, StepKinds
<1>2. CASE OfficeStep
    BY <1>2, OfficeStepKinds DEF OfficeStep
<1>3. CASE \E t \in Threads : AgentStep(t)
    BY <1>3, AgentStepKinds
<1>4. CASE \E t \in Threads : ModelStep(t)
    BY <1>4 DEF ModelStep, StepKinds
<1> QED
    BY <1>1, <1>2, <1>3, <1>4 DEF AgentsNext

LEMMA ShapeHolds == AgentsSpec => []Shape
<1>1. AgentsInit => Shape
    BY DEF AgentsInit, OfficeInit, Shape
<1>2. Shape /\ [AgentsNext]_agentsVars => Shape'
    <2> SUFFICES ASSUME Shape, [AgentsNext]_agentsVars PROVE Shape'
        OBVIOUS
    <2>1. StepKinds
        BY StepsAreOfAKind
    <2>2. CASE \E t \in Threads : Alone(t)
        BY <2>2 DEF Alone
    <2>3. CASE UNCHANGED recordVars \/ UNCHANGED officeVars
        BY <2>3 DEF officeVars, recordVars, Shape
    <2> QED
        BY <2>1, <2>2, <2>3 DEF StepKinds
<1> QED
    BY <1>1, <1>2, PTL DEF AgentsSpec

-----------------------------------------------------------------------------
(* The stream.                                                             *)

\* What publishes under way have yet to put into a board's queue.
Coming(b) == {req[t].n : t \in {t \in Threads : b \in tell[t]}}

StreamTypeOK ==
    /\ tell \in [Threads -> SUBSET Boards] /\ subscribers \subseteq Boards
    /\ queue = [b \in Boards |-> queue[b]] /\ got = [b \in Boards |-> got[b]]
    /\ due = [b \in Boards |-> due[b]]
    /\ \A b \in Boards : queue[b] \in Seq(due[b])

\* Only a handler that is publishing has boards to tell.
Telling == \A t \in Threads : step[t] # "telling" => tell[t] = {}

\* A board is sent nothing that was not published while it listened, and as long
\* as it is in the broadcast all of that has come, waits in its queue, or is on
\* its way there.
NothingElse == \A b \in Boards : got[b] \cup ToSet(queue[b]) \cup Coming(b) \subseteq due[b]
NothingLost ==
    \A b \in subscribers : due[b] \subseteq got[b] \cup ToSet(queue[b]) \cup Coming(b)

StreamInv == StreamTypeOK /\ Telling /\ NothingElse /\ NothingLost

LEMMA QueueElements ==
    ASSUME NEW S, NEW q \in Seq(S)
    PROVE  /\ ToSet(q) \subseteq S /\ q \in Seq(ToSet(q))
           /\ \A n \in S : Append(q, n) \in Seq(S) /\ ToSet(Append(q, n)) = ToSet(q) \cup {n}
           /\ q # <<>> => /\ Head(q) \in S /\ Tail(q) \in Seq(S)
                          /\ ToSet(q) = ToSet(Tail(q)) \cup {Head(q)}
<1>1. PICK len \in Nat : len = Len(q) /\ DOMAIN q = 1..len /\ \A i \in 1..len : q[i] \in S
    BY ElementOfSeq, LenProperties
<1>2. ToSet(q) \subseteq S
    BY <1>1 DEF ToSet
<1>3. q \in Seq(ToSet(q))
    <2>1. \A i \in 1..Len(q) : q[i] \in ToSet(q)
        BY <1>1 DEF ToSet
    <2> QED
        BY <1>1, <2>1
<1>4. ASSUME NEW n \in S
      PROVE  Append(q, n) \in Seq(S) /\ ToSet(Append(q, n)) = ToSet(q) \cup {n}
    <2>1. PICK r : r = Append(q, n)
        OBVIOUS
    <2>2. /\ r \in Seq(S) /\ DOMAIN r = 1..len + 1 /\ r[len + 1] = n
          /\ \A i \in 1..len : r[i] = q[i]
        BY <1>1, <2>1, AppendProperties
    <2>3. ToSet(r) = ToSet(q) \cup {n}
        <3>1. \A i \in 1..len + 1 : i \in 1..len \/ i = len + 1
            BY <1>1
        <3>2. len + 1 \in 1..len + 1 /\ \A i \in 1..len : i \in 1..len + 1
            BY <1>1
        <3> QED
            BY <1>1, <2>2, <3>1, <3>2 DEF ToSet
    <2> QED
        BY <2>1, <2>2, <2>3
<1>5. ASSUME q # <<>>
      PROVE  /\ Head(q) \in S /\ Tail(q) \in Seq(S)
             /\ ToSet(q) = ToSet(Tail(q)) \cup {Head(q)}
    <2>1. PICK r : r = Tail(q)
        OBVIOUS
    <2>2. /\ r \in Seq(S) /\ Len(r) = len - 1 /\ Head(q) = q[1] /\ 1 <= len
          /\ \A i \in 1..len - 1 : r[i] = q[i + 1]
        BY <1>1, <1>5, <2>1, HeadTailProperties, EmptySeq
    <2>3. DOMAIN r = 1..len - 1 /\ q[1] \in S
        BY <1>1, <2>2, LenProperties
    <2>4. ToSet(q) = ToSet(r) \cup {q[1]}
        <3>1. \A i \in 1..len : i = 1 \/ (i - 1 \in 1..len - 1 /\ (i - 1) + 1 = i)
            BY <1>1
        <3>2. 1 \in 1..len /\ \A i \in 1..len - 1 : i + 1 \in 1..len
            BY <1>1, <2>2
        <3>3. \A i \in 1..len : q[i] \in {r[k] : k \in 1..len - 1} \cup {q[1]}
            <4> TAKE i \in 1..len
            <4>1. CASE i = 1
                BY <4>1
            <4>2. CASE i - 1 \in 1..len - 1 /\ (i - 1) + 1 = i
                <5>1. q[(i - 1) + 1] = r[i - 1]
                    BY <2>2, <4>2
                <5> QED
                    BY <4>2, <5>1
            <4> QED
                BY <3>1, <4>1, <4>2
        <3>4. \A i \in 1..len - 1 : r[i] \in {q[k] : k \in 1..len}
            BY <2>2, <3>2
        <3>5. ToSet(q) = {q[k] : k \in 1..len} /\ ToSet(r) = {r[k] : k \in 1..len - 1}
            BY <1>1, <2>3 DEF ToSet
        <3> QED
            BY <3>2, <3>3, <3>4, <3>5
    <2> QED
        BY <2>1, <2>2, <2>3, <2>4
<1> QED
    BY <1>2, <1>3, <1>4, <1>5

LEMMA StreamStarts == AgentsInit => StreamInv
<1> SUFFICES ASSUME AgentsInit PROVE StreamInv
    OBVIOUS
<1> USE DEF AgentsInit, OfficeInit
<1>1. \A b \in Boards : queue[b] = <<>> /\ due[b] = {} /\ got[b] = {} /\ Coming(b) = {}
    BY DEF Coming
<1>2. StreamTypeOK
    <2>1. \A b \in Boards : queue[b] \in Seq(due[b])
        BY <1>1, EmptySeq
    <2> QED
        BY <2>1 DEF StreamTypeOK
<1>3. \A b \in Boards : ToSet(queue[b]) = {}
    BY <1>1 DEF ToSet
<1> QED
    BY <1>1, <1>2, <1>3 DEF StreamInv, Telling, NothingElse, NothingLost

\* A step of a handler that publishes nothing.
LEMMA QuietStream ==
    ASSUME StreamInv, Shape, NEW t \in Threads, Alone(t), Quiet(t)
    PROVE  StreamInv'
<1>1. UNCHANGED streamVars
    BY DEF Quiet
<1>2. tell[t] = {}
    BY DEF Quiet, StreamInv, Telling
<1>3. \A b \in Boards : Coming(b)' = Coming(b)
    <2> TAKE b \in Boards
    <2>1. \A o \in Threads : b \in tell[o] => o \in Threads \ {t} /\ req'[o] = req[o]
        BY <1>2 DEF Alone
    <2> QED
        BY <1>1, <2>1 DEF Coming, streamVars
<1>4. StreamTypeOK'
    BY <1>1 DEF StreamInv, StreamTypeOK, streamVars
<1>5. Telling'
    BY <1>1, <1>2 DEF StreamInv, Telling, Alone, streamVars
<1>6. NothingElse' /\ NothingLost'
    BY <1>1, <1>3 DEF StreamInv, StreamTypeOK, NothingElse, NothingLost, streamVars
<1> QED
    BY <1>4, <1>5, <1>6 DEF StreamInv

LEMMA PublishedStream ==
    ASSUME StreamInv, Shape, NEW t \in Threads, Publish(t)
    PROVE  StreamInv'
<1> USE DEF Publish
<1>1. tell[t] = {} /\ tell' = [tell EXCEPT ![t] = subscribers]
    BY DEF StreamInv, Telling
<1>2. ASSUME NEW b \in Boards
      PROVE  Coming(b)' = IF b \in subscribers THEN Coming(b) \cup {req[t].n} ELSE Coming(b)
    <2>1. \A o \in Threads : b \in tell'[o] <=> b \in tell[o] \/ (o = t /\ b \in subscribers)
        BY <1>1 DEF StreamInv, StreamTypeOK
    <2> QED
        BY <2>1 DEF Coming
<1>3. \A b \in Boards : due'[b] = IF b \in subscribers THEN due[b] \cup {req[t].n} ELSE due[b]
    OBVIOUS
<1>4. StreamTypeOK'
    <2>1. ASSUME NEW b \in Boards PROVE queue'[b] \in Seq(due'[b])
        <3>1. queue[b] \in Seq(due[b]) /\ due[b] \subseteq due'[b]
            BY <1>3 DEF StreamInv, StreamTypeOK
        <3> QED
            BY <3>1, SeqMonotonic
    <2> QED
        BY <2>1 DEF StreamInv, StreamTypeOK
<1>5. Telling'
    BY <1>1 DEF StreamInv, StreamTypeOK, Telling, Shape
<1>6. NothingElse'
    BY <1>2, <1>3 DEF StreamInv, NothingElse
<1>7. NothingLost'
    <2>1. ASSUME NEW b \in subscribers
          PROVE  due'[b] \subseteq got[b] \cup ToSet(queue[b]) \cup Coming(b)'
        <3>1. b \in Boards /\ due[b] \subseteq got[b] \cup ToSet(queue[b]) \cup Coming(b)
            BY DEF StreamInv, StreamTypeOK, NothingLost
        <3>2. due'[b] = due[b] \cup {req[t].n} /\ Coming(b)' = Coming(b) \cup {req[t].n}
            BY <1>2, <1>3, <3>1
        <3> QED
            BY <3>1, <3>2
    <2> QED
        BY <2>1 DEF NothingLost
<1> QED
    BY <1>4, <1>5, <1>6, <1>7 DEF StreamInv

LEMMA ToldStream ==
    ASSUME StreamInv, NEW t \in Threads, NEW b \in Boards, Tell(t, b)
    PROVE  StreamInv'
<1> USE DEF Tell, recordVars
<1>1. /\ b \in tell[t] /\ req[t].n \in Coming(b) /\ req[t].n \in due[b]
      /\ queue[b] \in Seq(due[b])
    BY DEF Coming, StreamInv, StreamTypeOK, NothingElse
<1>2. tell' = [tell EXCEPT ![t] = @ \ {b}] /\ due' = due /\ got' = got
      /\ step' = step /\ req' = req
    OBVIOUS
<1>3. \A c \in Boards \ {b} : Coming(c)' = Coming(c)
    BY <1>2 DEF Coming, StreamInv, StreamTypeOK
<1>4. Coming(b)' \subseteq Coming(b) /\ Coming(b) \subseteq Coming(b)' \cup {req[t].n}
    BY <1>2 DEF Coming, StreamInv, StreamTypeOK
<1>5. Telling'
    BY <1>2 DEF StreamInv, StreamTypeOK, Telling
<1>6. CASE Len(queue[b]) < MaxQueue
    <2>1. queue' = [queue EXCEPT ![b] = Append(queue[b], req[t].n)] /\ subscribers' = subscribers
        BY <1>6
    <2>2. queue'[b] = Append(queue[b], req[t].n) /\ \A c \in Boards \ {b} : queue'[c] = queue[c]
        BY <2>1 DEF StreamInv, StreamTypeOK
    <2>3. queue'[b] \in Seq(due[b]) /\ ToSet(queue'[b]) = ToSet(queue[b]) \cup {req[t].n}
        <3>1. PICK S, q, n : S = due[b] /\ q = queue[b] /\ n = req[t].n
            OBVIOUS
        <3>2. q \in Seq(S) /\ n \in S
            BY <1>1, <3>1
        <3>3. Append(q, n) \in Seq(S) /\ ToSet(Append(q, n)) = ToSet(q) \cup {n}
            BY <3>2, QueueElements
        <3> QED
            BY <2>2, <3>1, <3>3
    <2>4. StreamTypeOK'
        BY <1>2, <2>1, <2>2, <2>3, ZenonT(40) DEF StreamInv, StreamTypeOK
    <2>5. NothingElse'
        BY <1>1, <1>2, <1>3, <1>4, <2>2, <2>3 DEF StreamInv, NothingElse
    <2>6. NothingLost'
        BY <1>2, <1>3, <1>4, <2>1, <2>2, <2>3 DEF StreamInv, StreamTypeOK, NothingLost
    <2> QED
        BY <1>5, <2>4, <2>5, <2>6 DEF StreamInv
<1>7. CASE ~(Len(queue[b]) < MaxQueue)
    <2>1. queue' = queue /\ subscribers' = subscribers \ {b}
        BY <1>7
    <2>2. StreamTypeOK'
        BY <1>2, <2>1 DEF StreamInv, StreamTypeOK
    <2>3. NothingElse'
        BY <1>2, <1>3, <1>4, <2>1 DEF StreamInv, NothingElse
    <2>4. NothingLost'
        BY <1>2, <1>3, <2>1 DEF StreamInv, StreamTypeOK, NothingLost
    <2> QED
        BY <1>5, <2>2, <2>3, <2>4 DEF StreamInv
<1> QED
    BY <1>6, <1>7

LEMMA BoardsStream ==
    ASSUME StreamInv, NEW b \in Boards, Connect(b) \/ Receive(b) \/ Leave(b)
    PROVE  StreamInv'
<1> USE DEF recordVars
<1>1. CASE Connect(b)
    <2> USE <1>1 DEF Connect
    <2>1. \A c \in Boards : Coming(c)' = Coming(c)
        BY DEF Coming
    <2>2. StreamTypeOK' /\ Telling'
        BY DEF StreamInv, StreamTypeOK, Telling
    <2>3. NothingElse' /\ NothingLost'
        BY <2>1 DEF StreamInv, StreamTypeOK, NothingElse, NothingLost
    <2> QED
        BY <2>2, <2>3 DEF StreamInv
<1>2. CASE Receive(b)
    <2> USE <1>2 DEF Receive
    <2>1. \A c \in Boards : Coming(c)' = Coming(c)
        BY DEF Coming
    <2>2. /\ queue'[b] = Tail(queue[b]) /\ got'[b] = got[b] \cup {Head(queue[b])}
          /\ \A c \in Boards \ {b} : queue'[c] = queue[c] /\ got'[c] = got[c]
        BY DEF StreamInv, StreamTypeOK
    <2>3. queue'[b] \in Seq(due[b]) /\ ToSet(queue[b]) = ToSet(queue'[b]) \cup {Head(queue[b])}
        BY <2>2, QueueElements DEF StreamInv, StreamTypeOK
    <2>4. \A c \in Boards : got'[c] \cup ToSet(queue'[c]) = got[c] \cup ToSet(queue[c])
        BY <2>2, <2>3
    <2>5. StreamTypeOK' /\ Telling'
        BY <2>2, <2>3 DEF StreamInv, StreamTypeOK, Telling
    <2>6. NothingElse'
        BY <2>1, <2>4 DEF StreamInv, NothingElse
    <2>7. NothingLost'
        BY <2>1, <2>4 DEF StreamInv, StreamTypeOK, NothingLost
    <2> QED
        BY <2>5, <2>6, <2>7 DEF StreamInv
<1>3. CASE Leave(b)
    <2> USE <1>3 DEF Leave
    <2>1. \A t \in Threads : tell'[t] = tell[t] \ {b}
        OBVIOUS
    <2>2. \A c \in Boards \ {b} : Coming(c)' = Coming(c)
        BY <2>1 DEF Coming
    <2>3. Coming(b)' = {}
        BY <2>1 DEF Coming
    <2>4. /\ queue'[b] = <<>> /\ got'[b] = {} /\ due'[b] = {} /\ subscribers' = subscribers \ {b}
          /\ \A c \in Boards \ {b} : queue'[c] = queue[c] /\ got'[c] = got[c] /\ due'[c] = due[c]
        BY DEF StreamInv, StreamTypeOK
    <2>5. queue'[b] \in Seq(due'[b]) /\ ToSet(queue'[b]) = {}
        <3>1. <<>> \in Seq({}) /\ ToSet(<<>>) = {}
            BY EmptySeq DEF ToSet
        <3> QED
            BY <2>4, <3>1
    <2>6. StreamTypeOK'
        BY <2>1, <2>4, <2>5 DEF StreamInv, StreamTypeOK
    <2>7. Telling'
        BY <2>1 DEF StreamInv, Telling
    <2>8. NothingElse'
        BY <2>2, <2>3, <2>4, <2>5 DEF StreamInv, NothingElse
    <2>9. NothingLost'
        BY <2>2, <2>4 DEF StreamInv, StreamTypeOK, NothingLost
    <2> QED
        BY <2>6, <2>7, <2>8, <2>9 DEF StreamInv
<1> QED
    BY <1>1, <1>2, <1>3

\* A board that is still in the broadcast has missed nothing that was published
\* since it connected (Broadcaster.publish), for any number of boards and
\* requests, and queues of any size.
THEOREM BoardsMissNothing == AgentsSpec => []SubscribersMissNothing
<1>1. AgentsInit => StreamInv
    BY StreamStarts
<1>2. StreamInv /\ Shape /\ [AgentsNext]_agentsVars => StreamInv'
    <2> SUFFICES ASSUME StreamInv, Shape, [AgentsNext]_agentsVars PROVE StreamInv'
        OBVIOUS
    <2>1. CASE UNCHANGED officeVars
        <3> USE <2>1 DEF officeVars, recordVars, streamVars
        <3>1. StreamTypeOK' /\ Telling'
            BY DEF StreamInv, StreamTypeOK, Telling
        <3>2. \A b \in Boards : Coming(b)' = Coming(b)
            BY DEF Coming
        <3>3. NothingElse' /\ NothingLost'
            BY <3>2 DEF StreamInv, StreamTypeOK, NothingElse, NothingLost
        <3> QED
            BY <3>1, <3>3 DEF StreamInv
    <2>2. StepKinds
        BY StepsAreOfAKind
    <2> QED
        BY <2>1, <2>2, QuietStream, PublishedStream, ToldStream, BoardsStream DEF StepKinds
<1>3. StreamInv => SubscribersMissNothing
    <2> SUFFICES ASSUME StreamInv, NEW b \in subscribers, \A t \in Threads : b \notin tell[t]
                 PROVE  ToSet(queue[b]) \cup got[b] = due[b]
        BY DEF SubscribersMissNothing
    <2>1. Coming(b) = {} /\ b \in Boards
        BY DEF Coming, StreamInv, StreamTypeOK
    <2> QED
        BY <2>1 DEF StreamInv, NothingElse, NothingLost
<1> QED
    BY <1>1, <1>2, <1>3, ShapeHolds, PTL DEF AgentsSpec

-----------------------------------------------------------------------------
(* The worlds the fold goes through.                                       *)

StagesOf(events, stage) ==
    stage[0] = Seed /\ \A k \in 1..Len(events) : stage[k] = Apply(stage[k - 1], events[k])

\* There is a function such as the fold is defined by.
LEMMA ApplyFoldExists ==
    ASSUME NEW n \in Nat, NEW events
    PROVE  \E iter : iter = [s \in SUBSET (1..n) |->
                               IF s = {} THEN Seed
                               ELSE Apply(iter[s \ {Max(s)}], events[Max(s)])]
<1> DEFINE Good(k, iter) ==
        iter = [s \in SUBSET (1..k) |->
                  IF s = {} THEN Seed ELSE Apply(iter[s \ {Max(s)}], events[Max(s)])]
<1> DEFINE S == {k \in 0..n : \E iter : Good(k, iter)}
<1>1. 0 \in S
    <2> DEFINE iter == [s \in SUBSET (1..0) |-> Seed]
    <2>1. SUBSET (1..0) = {{}}
        OBVIOUS
    <2>2. Good(0, iter)
        BY <2>1
    <2>3. 0 \in 0..n
        OBVIOUS
    <2> HIDE DEF iter, Good
    <2>4. \E it : Good(0, it)
        BY <2>2
    <2> QED
        BY <2>3, <2>4
<1>2. ASSUME NEW k \in 0..n - 1, k \in S PROVE k + 1 \in S
    <2>1. PICK iter : Good(k, iter)
        BY <1>2
    <2> DEFINE next == [s \in SUBSET (1..k + 1) |->
                            IF k + 1 \in s THEN Apply(iter[s \ {k + 1}], events[k + 1]) ELSE iter[s]]
    <2>2. ASSUME NEW s \in SUBSET (1..k + 1)
          PROVE  /\ k + 1 \notin s => s \in SUBSET (1..k)
                 /\ s \ {k + 1} \in SUBSET (1..k) /\ s \ {k + 1} \in SUBSET (1..k + 1)
        OBVIOUS
    <2>3. ASSUME NEW s \in SUBSET (1..k + 1)
          PROVE  next[s] = IF s = {} THEN Seed ELSE Apply(next[s \ {Max(s)}], events[Max(s)])
        <3>1. CASE k + 1 \in s
            <4>1. Max(s) = k + 1 /\ s # {}
                BY <3>1, MaxOfUpper
            <4>2. next[s \ {k + 1}] = iter[s \ {k + 1}]
                BY <2>2
            <4> QED
                BY <3>1, <4>1, <4>2
        <3>2. CASE k + 1 \notin s
            <4>1. s \in SUBSET (1..k) /\ next[s] = iter[s]
                BY <2>2, <3>2
            <4>2. CASE s = {}
                BY <2>1, <4>1, <4>2
            <4>3. CASE s # {}
                <5>1. s \ {Max(s)} \in SUBSET (1..k) /\ s \ {Max(s)} \in SUBSET (1..k + 1)
                      /\ k + 1 \notin s \ {Max(s)}
                    BY <3>2, <4>1
                <5>2. next[s \ {Max(s)}] = iter[s \ {Max(s)}]
                    BY <5>1
                <5>3. iter[s] = Apply(iter[s \ {Max(s)}], events[Max(s)])
                    BY <2>1, <4>1, <4>3
                <5> HIDE DEF next
                <5> QED
                    BY <4>1, <4>3, <5>2, <5>3
            <4> QED
                BY <4>2, <4>3
        <3> QED
            BY <3>1, <3>2
    <2>4. Good(k + 1, next)
        BY <2>3
    <2>5. k + 1 \in 0..n
        OBVIOUS
    <2> HIDE DEF next, Good
    <2> QED
        BY <2>4, <2>5
<1>3. n \in S
    <2> HIDE DEF S
    <2>1. \A k \in 0..n : k \in S
        BY <1>1, <1>2, IntervalInduction
    <2> QED
        BY <2>1
<1> QED
    BY <1>3

LEMMA WorldUnfolds ==
    ASSUME NEW S, NEW events \in Seq(S)
    PROVE  \E stage :
               /\ StagesOf(events, stage)
               /\ Fold(events) = [stage[Len(events)] EXCEPT
                                    !.as_of = IF events = <<>> THEN 0 ELSE Last(events).at]
<1>1. PICK n \in Nat : n = Len(events) /\ DOMAIN events = 1..n
    BY LenProperties
<1> DEFINE Folds(iter) ==
        iter = [s \in SUBSET (1..n) |->
                  IF s = {} THEN Seed ELSE Apply(iter[s \ {Max(s)}], events[Max(s)])]
<1>2. \E iter : Folds(iter)
    BY ApplyFoldExists
<1> DEFINE fold == CHOOSE iter : Folds(iter)
<1>3. Folds(fold)
    <2> HIDE DEF Folds
    <2> QED
        BY <1>2
<1>4. FoldLeft(Apply, Seed, events) = fold[1..n]
    BY <1>1 DEF FoldLeft, MapThenFoldSet
<1> HIDE DEF fold
<1> DEFINE stage == [k \in 0..n |-> fold[1..k]]
<1>5. stage[0] = Seed
    <2>1. 1..0 = {} /\ {} \in SUBSET (1..n) /\ 0 \in 0..n
        OBVIOUS
    <2> QED
        BY <1>3, <2>1
<1>6. ASSUME NEW k \in 1..n PROVE stage[k] = Apply(stage[k - 1], events[k])
    <2>1. (1..k) \in SUBSET (1..n) /\ 1..k # {} /\ (1..k) \ {k} = 1..k - 1
        <3>1. k \in 1..k /\ \A i \in 1..k : i \in 1..n /\ (i = k \/ i \in 1..k - 1)
            OBVIOUS
        <3>2. \A i \in 1..k - 1 : i \in 1..k /\ i # k
            OBVIOUS
        <3> QED
            BY <3>1, <3>2
    <2>2. Max(1..k) = k
        BY MaxOfInterval
    <2>3. fold[1..k] = Apply(fold[1..k - 1], events[k])
        BY <1>3, <2>1, <2>2
    <2>4. k \in 0..n /\ k - 1 \in 0..n
        OBVIOUS
    <2> QED
        BY <2>3, <2>4
<1>7. stage[n] = fold[1..n]
    OBVIOUS
<1> HIDE DEF stage
<1>8. StagesOf(events, stage)
    BY <1>1, <1>5, <1>6 DEF StagesOf
<1> QED
    BY <1>1, <1>4, <1>7, <1>8 DEF Fold

\* What is recorded, as far as the fold minds.
IsEvent(e) ==
    /\ e.kind \in Recorded /\ e.at \in Nat /\ e.tag \in Nat
    /\ e.kind = "extend" => e.val \in Nat
    /\ e.kind = "ask" => e.val.until \in Nat

WorldOK(w) ==
    /\ IsWorld(w) /\ w.as_of \in Nat
    /\ IsFiniteSet(DOMAIN w.vans) /\ IsFiniteSet(DOMAIN w.asks)
    /\ \A a \in DOMAIN w.asks : w.asks[a].until \in Nat

LEMMA SeedOK == WorldOK(Seed)
<1>1. IsWorld(Seed) /\ Seed.as_of = 0 /\ DOMAIN Seed.vans = 1..2 /\ DOMAIN Seed.asks = HoursAgreed
    BY SeedIsWorld DEF Seed
<1>2. \A a \in HoursAgreed : Seed.asks[a].until = a
    BY DEF Seed
<1>3. \A n \in Int : IsFiniteSet(1..n)
    <2> TAKE n \in Int
    <2>1. 1 \in Int
        OBVIOUS
    <2> QED
        BY <2>1, FS_Interval
<1>4. IsFiniteSet(HoursAgreed) /\ HoursAgreed \subseteq Nat
    <2>1. HoursAgreed \subseteq 1..9
        BY OfficeConstants
    <2>2. PICK n \in Int : n = 9
        OBVIOUS
    <2>3. IsFiniteSet(1..n) /\ HoursAgreed \subseteq 1..n
        BY <1>3, <2>1, <2>2
    <2>4. IsFiniteSet(HoursAgreed)
        BY <2>3, FS_Subset
    <2> QED
        BY <2>1, <2>4
<1>5. IsFiniteSet(DOMAIN Seed.vans) /\ IsFiniteSet(DOMAIN Seed.asks)
    <2>1. PICK n \in Int : n = 2
        OBVIOUS
    <2>2. IsFiniteSet(1..n) /\ DOMAIN Seed.vans = 1..n
        BY <1>1, <1>3, <2>1
    <2> QED
        BY <1>1, <1>4, <2>2
<1>6. \A a \in DOMAIN Seed.asks : Seed.asks[a].until \in Nat
    BY <1>1, <1>2, <1>4
<1> QED
    BY <1>1, <1>5, <1>6 DEF WorldOK

LEMMA ApplyOK ==
    ASSUME NEW w, WorldOK(w), NEW e, IsEvent(e)
    PROVE  WorldOK(Apply(w, e))
<1>1. PICK x : x = Apply(w, e)
    OBVIOUS
<1>2. /\ IsWorld(x) /\ x.vans = VansAfter(w.vans, e) /\ x.asks = AsksAfter(w.asks, e)
      /\ x.as_of = w.as_of
    BY <1>1, ApplyMeans DEF WorldOK, IsEvent
<1>3. DOMAIN x.vans \subseteq DOMAIN w.vans \cup {e.id}
    BY <1>2 DEF VansAfter, Put, Without, Restrict
<1>4. DOMAIN x.asks \subseteq DOMAIN w.asks \cup {e.id}
    BY <1>2 DEF AsksAfter, Put, Without, Restrict
<1>5. IsFiniteSet(DOMAIN x.vans) /\ IsFiniteSet(DOMAIN x.asks)
    <2>1. IsFiniteSet(DOMAIN w.vans \cup {e.id}) /\ IsFiniteSet(DOMAIN w.asks \cup {e.id})
        BY FS_AddElement DEF WorldOK
    <2> QED
        BY <1>3, <1>4, <2>1, FS_Subset
<1>6. \A a \in DOMAIN x.asks : x.asks[a].until \in Nat
    BY <1>2 DEF AsksAfter, Put, Without, Restrict, WorldOK, IsEvent
<1> QED
    BY <1>1, <1>2, <1>5, <1>6 DEF WorldOK

LEMMA WorldStages ==
    ASSUME NEW S, \A e \in S : IsEvent(e), NEW events \in Seq(S)
    PROVE  \E stage :
               /\ StagesOf(events, stage)
               /\ \A k \in 0..Len(events) : WorldOK(stage[k])
               /\ WorldOK(Fold(events))
               /\ Fold(events).vans = stage[Len(events)].vans
               /\ Fold(events).asks = stage[Len(events)].asks
               /\ Fold(events).staying = stage[Len(events)].staying
<1>1. PICK stage :
          /\ StagesOf(events, stage)
          /\ Fold(events) = [stage[Len(events)] EXCEPT
                               !.as_of = IF events = <<>> THEN 0 ELSE Last(events).at]
    BY WorldUnfolds
<1>2. PICK n \in Nat : n = Len(events) /\ \A k \in 1..n : events[k] \in S
    BY LenProperties, ElementOfSeq
<1> DEFINE T == {k \in 0..n : WorldOK(stage[k])}
<1>3. 0 \in T
    BY <1>1, SeedOK DEF StagesOf
<1>4. ASSUME NEW k \in 0..n - 1, k \in T PROVE k + 1 \in T
    <2>1. k + 1 \in 0..n /\ k + 1 \in 1..n /\ (k + 1) - 1 = k
        OBVIOUS
    <2>2. stage[k + 1] = Apply(stage[k], events[k + 1])
        BY <1>1, <1>2, <2>1 DEF StagesOf
    <2>3. WorldOK(stage[k + 1])
        BY <1>2, <1>4, <2>1, <2>2, ApplyOK
    <2> QED
        BY <2>1, <2>3
<1>5. \A k \in 0..n : k \in T
    <2> HIDE DEF T
    <2> QED
        BY <1>3, <1>4, IntervalInduction
<1>6. PICK at \in Nat : at = IF events = <<>> THEN 0 ELSE Last(events).at
    <2>1. CASE events = <<>>
        BY <2>1
    <2>2. CASE events # <<>>
        <3>1. n \in 1..n
            BY <1>2, <2>2, EmptySeq
        <3> QED
            BY <1>2, <2>2, <3>1 DEF Last, IsEvent
    <2> QED
        BY <2>1, <2>2
<1>7. PICK w : w = stage[n] /\ WorldOK(w)
    BY <1>2, <1>5
<1>8. PICK x : x = [w EXCEPT !.as_of = at]
    OBVIOUS
<1>9. /\ IsWorld(x) /\ x.as_of = at /\ x.vans = w.vans /\ x.asks = w.asks
      /\ x.staying = w.staying
    BY <1>7, <1>8 DEF WorldOK, IsWorld
<1>10. WorldOK(x)
    BY <1>6, <1>7, <1>9 DEF WorldOK
<1>11. Fold(events) = x
    BY <1>1, <1>2, <1>6, <1>7, <1>8
<1> QED
    BY <1>1, <1>2, <1>5, <1>7, <1>9, <1>10, <1>11

-----------------------------------------------------------------------------
(* The order of the log.                                                   *)

LEMMA InsertAtMeans ==
    ASSUME NEW S, NEW q \in Seq(S), NEW e \in S, NEW i \in 1..Len(q) + 1
    PROVE  /\ InsertAt(q, i, e) \in Seq(S) /\ Len(InsertAt(q, i, e)) = Len(q) + 1
           /\ InsertAt(q, i, e)[i] = e
           /\ \A k \in 1..i - 1 : InsertAt(q, i, e)[k] = q[k]
           /\ \A k \in i..Len(q) : InsertAt(q, i, e)[k + 1] = q[k]
           /\ ToSet(InsertAt(q, i, e)) = ToSet(q) \cup {e}
<1>1. PICK n \in Nat : n = Len(q) /\ DOMAIN q = 1..n /\ \A k \in 1..n : q[k] \in S
    BY LenProperties, ElementOfSeq
<1>2. PICK front : front = SubSeq(q, 1, i - 1)
    OBVIOUS
<1>3. /\ front \in Seq(S) /\ Len(front) = i - 1
      /\ \A k \in 1..i - 1 : front[k] = q[k]
    <2>1. \A k \in 1..i - 1 : k \in 1..n
        BY <1>1
    <2> QED
        BY <1>1, <1>2, <2>1, SubSeqProperties
<1>4. PICK back : back = SubSeq(q, i, n)
    OBVIOUS
<1>5. /\ back \in Seq(S) /\ Len(back) = n + 1 - i
      /\ \A k \in 1..n + 1 - i : back[k] = q[i + k - 1]
    <2>1. \A k \in i..n : k \in 1..n
        BY <1>1
    <2> QED
        BY <1>1, <1>4, <2>1, SubSeqProperties
<1>6. PICK head : head = front \o <<e>>
    OBVIOUS
<1>7. /\ head \in Seq(S) /\ Len(head) = i /\ head[i] = e
      /\ \A k \in 1..i - 1 : head[k] = q[k]
    <2>1. <<e>> \in Seq(S) /\ Len(<<e>>) = 1 /\ <<e>>[1] = e
        OBVIOUS
    <2>2. head \in Seq(S) /\ Len(head) = (i - 1) + 1
        BY <1>3, <1>6, <2>1, ConcatProperties
    <2>3. \A k \in 1..i : head[k] = IF k <= i - 1 THEN front[k] ELSE <<e>>[k - (i - 1)]
        BY <1>3, <1>6, <2>1, ConcatProperties
    <2> QED
        BY <1>3, <2>1, <2>2, <2>3
<1>8. PICK r : r = InsertAt(q, i, e)
    OBVIOUS
<1>9. r = head \o back
    BY <1>1, <1>2, <1>4, <1>6, <1>8 DEF InsertAt
<1>10. /\ r \in Seq(S) /\ Len(r) = n + 1
       /\ \A k \in 1..n + 1 : r[k] = IF k <= i THEN head[k] ELSE back[k - i]
    <2>1. r \in Seq(S) /\ Len(r) = i + (n + 1 - i)
        BY <1>5, <1>7, <1>9, ConcatProperties
    <2>2. \A k \in 1..i + (n + 1 - i) : r[k] = IF k <= i THEN head[k] ELSE back[k - i]
        BY <1>5, <1>7, <1>9, ConcatProperties
    <2> QED
        BY <1>1, <2>1, <2>2
<1>11. r[i] = e /\ \A k \in 1..i - 1 : r[k] = q[k]
    BY <1>1, <1>7, <1>10
<1>12. \A k \in i..n : r[k + 1] = q[k]
    <2> TAKE k \in i..n
    <2>1. k + 1 \in 1..n + 1 /\ ~(k + 1 <= i) /\ (k + 1) - i \in 1..n + 1 - i
          /\ i + ((k + 1) - i) - 1 = k
        BY <1>1
    <2> QED
        BY <1>5, <1>10, <2>1
<1>13. ToSet(r) = ToSet(q) \cup {e}
    <2>1. DOMAIN r = 1..n + 1
        BY <1>10, LenProperties
    <2>2. \A k \in 1..n + 1 : r[k] \in {q[l] : l \in 1..n} \cup {e}
        <3> TAKE k \in 1..n + 1
        <3>1. CASE k \in 1..i - 1
            BY <1>1, <1>11, <3>1
        <3>2. CASE k = i
            BY <1>11, <3>2
        <3>3. CASE k \in i + 1..n + 1
            <4>1. k - 1 \in i..n /\ k - 1 \in 1..n /\ (k - 1) + 1 = k
                BY <1>1, <3>3
            <4>2. r[(k - 1) + 1] = q[k - 1]
                BY <1>12, <4>1
            <4> QED
                BY <4>1, <4>2
        <3> QED
            BY <1>1, <3>1, <3>2, <3>3
    <2>3. \A l \in 1..n : q[l] \in {r[k] : k \in 1..n + 1}
        <3> TAKE l \in 1..n
        <3>1. CASE l \in 1..i - 1
            BY <1>1, <1>11, <3>1
        <3>2. CASE l \in i..n
            <4>1. l + 1 \in 1..n + 1 /\ r[l + 1] = q[l]
                BY <1>1, <1>12, <3>2
            <4> QED
                BY <4>1
        <3> QED
            BY <1>1, <3>1, <3>2
    <2>4. e \in {r[k] : k \in 1..n + 1}
        BY <1>1, <1>11
    <2> QED
        BY <1>1, <2>1, <2>2, <2>3, <2>4 DEF ToSet
<1> QED
    BY <1>1, <1>8, <1>10, <1>11, <1>12, <1>13

Sorted(q) == \A j, k \in 1..Len(q) : j < k => NotAfter(q[j], q[k])

LEMMA InsertedSorted ==
    ASSUME NEW S, NEW q \in Seq(S), NEW e \in S, Sorted(q), NEW r \in Inserted(q, e)
    PROVE  /\ r \in Seq(S) /\ Sorted(r) /\ ToSet(r) = ToSet(q) \cup {e}
           /\ \E i \in 1..Len(q) + 1 :
                 /\ Len(r) = Len(q) + 1 /\ r[i] = e
                 /\ \A k \in 1..i - 1 : r[k] = q[k]
                 /\ \A k \in i..Len(q) : r[k + 1] = q[k] /\ NotAfter(e, q[k])
<1>1. PICK i \in 1..Len(q) + 1 :
          /\ r = InsertAt(q, i, e)
          /\ \A k \in 1..i - 1 : NotAfter(q[k], e)
          /\ \A l \in i..Len(q) : NotAfter(e, q[l])
    BY DEF Inserted
<1>2. PICK n \in Nat : n = Len(q)
    BY LenProperties
<1>3. /\ r \in Seq(S) /\ Len(r) = n + 1 /\ r[i] = e /\ ToSet(r) = ToSet(q) \cup {e}
      /\ \A k \in 1..i - 1 : r[k] = q[k]
      /\ \A k \in i..n : r[k + 1] = q[k]
    <2>1. /\ InsertAt(q, i, e) \in Seq(S) /\ Len(InsertAt(q, i, e)) = Len(q) + 1
          /\ InsertAt(q, i, e)[i] = e
          /\ \A k \in 1..i - 1 : InsertAt(q, i, e)[k] = q[k]
          /\ \A k \in i..Len(q) : InsertAt(q, i, e)[k + 1] = q[k]
          /\ ToSet(InsertAt(q, i, e)) = ToSet(q) \cup {e}
        BY InsertAtMeans
    <2> QED
        BY <1>1, <1>2, <2>1
<1>4. \A k \in i + 1..n + 1 : k - 1 \in i..n /\ r[k] = q[k - 1]
    <2> TAKE k \in i + 1..n + 1
    <2>1. k - 1 \in i..n /\ (k - 1) + 1 = k
        BY <1>2
    <2>2. r[(k - 1) + 1] = q[k - 1]
        BY <1>3, <2>1
    <2> QED
        BY <2>1, <2>2
<1>5. Sorted(r)
    <2> SUFFICES ASSUME NEW j \in 1..n + 1, NEW k \in 1..n + 1, j < k
                 PROVE  NotAfter(r[j], r[k])
        BY <1>3 DEF Sorted
    <2> DEFINE Old(x, y) == x \in 1..n /\ y \in 1..n /\ x < y
    <2>1. \A x, y \in Nat : Old(x, y) => NotAfter(q[x], q[y])
        BY <1>2 DEF Sorted
    <2>2. CASE k < i
        <3>1. j \in 1..i - 1 /\ k \in 1..i - 1 /\ Old(j, k)
            BY <1>2, <2>2
        <3> QED
            BY <1>3, <2>1, <3>1
    <2>3. CASE k = i
        <3>1. j \in 1..i - 1
            BY <2>3
        <3> QED
            BY <1>1, <1>3, <2>3, <3>1
    <2>4. CASE k > i /\ j < i
        <3>1. j \in 1..i - 1 /\ k \in i + 1..n + 1 /\ Old(j, k - 1)
            BY <1>2, <2>4
        <3>2. NotAfter(q[j], q[k - 1])
            BY <2>1, <3>1
        <3> QED
            BY <1>3, <1>4, <3>1, <3>2
    <2>5. CASE k > i /\ j = i
        <3>1. k \in i + 1..n + 1
            BY <2>5
        <3> QED
            BY <1>1, <1>2, <1>3, <1>4, <2>5, <3>1
    <2>6. CASE k > i /\ j > i
        <3>1. j \in i + 1..n + 1 /\ k \in i + 1..n + 1 /\ Old(j - 1, k - 1)
            BY <1>2, <2>6
        <3>2. NotAfter(q[j - 1], q[k - 1])
            BY <2>1, <3>1
        <3> QED
            BY <1>4, <3>1, <3>2
    <2> QED
        BY <1>2, <2>2, <2>3, <2>4, <2>5, <2>6
<1> QED
    BY <1>1, <1>2, <1>3, <1>5

InsertionStages(stage, events, batch) ==
    /\ stage[0] = {events} /\ stage[Len(batch)] = AllInserted(events, batch)
    /\ \A k \in 1..Len(batch) : stage[k] = UNION {Inserted(l, batch[k]) : l \in stage[k - 1]}

\* A batch is inserted event by event.
LEMMA AllInsertedStages ==
    ASSUME NEW S, NEW events \in Seq(S), NEW batch \in Seq(S)
    PROVE  \E stage : InsertionStages(stage, events, batch)
<1> USE DEF InsertionStages
<1>1. PICK n \in Nat : n = Len(batch) /\ DOMAIN batch = 1..n /\ \A k \in 1..n : batch[k] \in S
    BY LenProperties, ElementOfSeq
<1> DEFINE States == SUBSET Seq(S)
<1> DEFINE base == {events}
<1> DEFINE step1 == [k \in 1..n |-> [s \in States |-> UNION {Inserted(l, batch[k]) : l \in s}]]
<1>2. base \in States
    OBVIOUS
<1>3. step1 \in [1..n -> [States -> States]]
    <2>1. ASSUME NEW k \in 1..n, NEW s \in States
          PROVE  UNION {Inserted(l, batch[k]) : l \in s} \in States
        <3>1. ASSUME NEW l \in s PROVE Inserted(l, batch[k]) \subseteq Seq(S)
            <4>1. l \in Seq(S) /\ batch[k] \in S
                BY <1>1
            <4>2. \A i \in 1..Len(l) + 1 : InsertAt(l, i, batch[k]) \in Seq(S)
                BY <4>1, InsertAtMeans
            <4> QED
                BY <4>2 DEF Inserted
        <3> QED
            BY <3>1
    <2> QED
        BY <2>1
<1> DEFINE Folds(iter) == iter = [s \in SUBSET (1..n) |->
                              IF s = {} THEN {events}
                              ELSE UNION {Inserted(l, batch[Max(s)]) : l \in iter[s \ {Max(s)}]}]
<1>4. \A s \in SUBSET (1..n) : s # {} => Max(s) \in 1..n
    BY MaxIsIn
<1>5. \E iter : Folds(iter)
    <2>1. PICK iter \in [SUBSET (1..n) -> States] : IsFold(iter, n, base, step1)
        <3> HIDE DEF step1, base, States
        <3> QED
            BY <1>2, <1>3, FoldExists, Zenon
    <2>2. \A s \in SUBSET (1..n) :
              iter[s] = IF s = {} THEN {events}
                        ELSE UNION {Inserted(l, batch[Max(s)]) : l \in iter[s \ {Max(s)}]}
        <3> TAKE s \in SUBSET (1..n)
        <3>1. CASE s = {}
            BY <2>1, <3>1 DEF IsFold
        <3>2. CASE s # {}
            <4>1. iter[s] = step1[Max(s)][iter[s \ {Max(s)}]]
                <5> HIDE DEF step1
                <5> QED
                    BY <2>1, <3>2 DEF IsFold
            <4>2. PICK m \in 1..n : m = Max(s)
                BY <1>4, <3>2
            <4>3. iter[s \ {m}] \in States
                BY <2>1
            <4> QED
                BY <3>2, <4>1, <4>2, <4>3
        <3> QED
            BY <3>1, <3>2
    <2> QED
        BY <2>1, <2>2
<1> DEFINE fold == CHOOSE iter : Folds(iter)
<1>6. Folds(fold)
    <2> HIDE DEF Folds
    <2> QED
        BY <1>5
<1>7. AllInserted(events, batch) = fold[1..n]
    BY <1>1 DEF AllInserted, FoldLeft, MapThenFoldSet
<1> HIDE DEF fold
<1>8. FoldsStages(fold, n, States, base, step1)
    <2>1. fold[{}] = base
        BY <1>6
    <2>2. ASSUME NEW s \in SUBSET (1..n), s # {}, fold[s \ {Max(s)}] \in States
          PROVE  fold[s] = step1[Max(s)][fold[s \ {Max(s)}]]
        <3>1. fold[s] = UNION {Inserted(l, batch[Max(s)]) : l \in fold[s \ {Max(s)}]}
            BY <1>6, <2>2
        <3>2. PICK m \in 1..n : m = Max(s)
            BY <1>4, <2>2
        <3> QED
            BY <2>2, <3>1, <3>2
    <2> HIDE DEF step1, base, States
    <2> QED
        BY <2>1, <2>2 DEF FoldsStages
<1>9. PICK stage \in [0..n -> States] : AreStages(stage, fold, n, base, step1)
    <2> HIDE DEF step1, base, States
    <2> QED
        BY <1>2, <1>3, <1>8, FoldStages, Zenon
<1>10. ASSUME NEW k \in 1..n
       PROVE  stage[k] = UNION {Inserted(l, batch[k]) : l \in stage[k - 1]}
    <2>1. stage[k - 1] \in States /\ stage[k] = step1[k][stage[k - 1]]
        <3>1. k - 1 \in 0..n
            OBVIOUS
        <3> HIDE DEF step1, States
        <3> QED
            BY <1>9, <3>1 DEF AreStages
    <2> QED
        BY <2>1
<1>11. stage[0] = {events} /\ stage[n] = fold[1..n]
    BY <1>9 DEF AreStages
<1> QED
    BY <1>1, <1>7, <1>10, <1>11

\* What each insertion keeps, all of them keep.
LEMMA AllInsertedKeep ==
    ASSUME NEW S, NEW events \in Seq(S), NEW batch \in Seq(S), NEW Fine, events \in Fine,
           \A l \in Fine : \A i \in 1..Len(batch) : Inserted(l, batch[i]) \subseteq Fine
    PROVE  AllInserted(events, batch) \subseteq Fine
<1>1. PICK stage : InsertionStages(stage, events, batch)
    BY AllInsertedStages
<1> USE DEF InsertionStages
<1>2. PICK n \in Nat : n = Len(batch)
    BY LenProperties
<1> DEFINE T == {k \in 0..n : stage[k] \subseteq Fine}
<1>3. 0 \in T
    BY <1>1
<1>4. ASSUME NEW k \in 0..n - 1, k \in T PROVE k + 1 \in T
    <2>1. k + 1 \in 1..n /\ (k + 1) - 1 = k
        OBVIOUS
    <2>2. stage[k + 1] = UNION {Inserted(l, batch[k + 1]) : l \in stage[k]}
        BY <1>1, <1>2, <2>1
    <2>3. \A l \in stage[k] : Inserted(l, batch[k + 1]) \subseteq Fine
        BY <1>2, <1>4, <2>1
    <2>4. stage[k + 1] \subseteq Fine
        BY <2>2, <2>3
    <2> QED
        BY <2>1, <2>4
<1>5. \A k \in 0..n : k \in T
    <2> HIDE DEF T
    <2> QED
        BY <1>3, <1>4, IntervalInduction
<1>6. n \in 0..n
    BY <1>2
<1> QED
    BY <1>1, <1>2, <1>5, <1>6

LEMMA OneInserted ==
    ASSUME NEW S, NEW events \in Seq(S), NEW e \in S
    PROVE  AllInserted(events, <<e>>) = Inserted(events, e)
<1>1. PICK batch : batch = <<e>>
    OBVIOUS
<1>2. batch \in Seq(S) /\ Len(batch) = 1 /\ batch[1] = e
    BY <1>1
<1>3. PICK stage : InsertionStages(stage, events, batch)
    BY <1>2, AllInsertedStages
<1> USE DEF InsertionStages
<1>4. stage[1] = UNION {Inserted(l, e) : l \in {events}}
    <2>1. 1 \in 1..Len(batch) /\ 1 - 1 = 0
        BY <1>2
    <2>2. stage[1] = UNION {Inserted(l, batch[1]) : l \in stage[1 - 1]}
        BY <1>3, <2>1
    <2> QED
        BY <1>2, <1>3, <2>1, <2>2
<1>5. UNION {Inserted(l, e) : l \in {events}} = Inserted(events, e)
    OBVIOUS
<1> QED
    BY <1>1, <1>2, <1>3, <1>4, <1>5

-----------------------------------------------------------------------------
(* What is appended.                                                       *)

LEMMA RanksAreNumbers ==
    ASSUME NEW p, \E i \in DOMAIN IdPrefixes : IdPrefixes[i] = p
    PROVE  Rank(p) \in Nat
<1>1. DOMAIN IdPrefixes = 1..11
    BY DEF IdPrefixes
<1>2. Rank(p) \in DOMAIN IdPrefixes
    BY DEF Rank
<1> QED
    BY <1>1, <1>2

LEMMA PrefixesRank ==
    /\ Rank("askc") \in Nat /\ Rank("depot") \in Nat /\ Rank("e") \in Nat /\ Rank("ev") \in Nat
    /\ Rank("ext") \in Nat /\ Rank("job") \in Nat /\ Rank("rate") \in Nat /\ Rank("vr") \in Nat
    /\ Rank("vx") \in Nat /\ Rank("wr") \in Nat /\ Rank("wx") \in Nat
<1>1. /\ DOMAIN IdPrefixes = 1..11
      /\ IdPrefixes[1] = "askc" /\ IdPrefixes[2] = "depot" /\ IdPrefixes[3] = "e"
      /\ IdPrefixes[4] = "ev" /\ IdPrefixes[5] = "ext" /\ IdPrefixes[6] = "job"
      /\ IdPrefixes[7] = "rate" /\ IdPrefixes[8] = "vr" /\ IdPrefixes[9] = "vx"
      /\ IdPrefixes[10] = "wr" /\ IdPrefixes[11] = "wx"
    BY DEF IdPrefixes
<1>2. \A i \in 1..11 : Rank(IdPrefixes[i]) \in Nat
    BY <1>1, RanksAreNumbers
<1>3. /\ 1 \in 1..11 /\ 2 \in 1..11 /\ 3 \in 1..11 /\ 4 \in 1..11 /\ 5 \in 1..11 /\ 6 \in 1..11
      /\ 7 \in 1..11 /\ 8 \in 1..11 /\ 9 \in 1..11 /\ 10 \in 1..11 /\ 11 \in 1..11
    OBVIOUS
<1> QED
    BY <1>1, <1>2, <1>3

\* What a note can be made into, and a dispatcher can record of it.
Reviewed(events) ==
    events \in Seq(ToSet(events)) /\ \A e \in ToSet(events) : IsEvent(e) /\ e.kind \in Words

LEMMA WordsAreNotHandled == Words \cap Handled = {} /\ Words \subseteq Recorded
BY DEF Words, JobWords, Handled, Recorded

\* Nothing a note describes is lost on the way to its events, unless there is
\* something a dispatcher has to look at.
LEMMA BuiltMeans ==
    ASSUME NEW w, w.as_of \in Nat, NEW items, items \in Seq(ToSet(items)),
           \A item \in ToSet(items) : item.word \in Words /\ item.at \in Nat
    PROVE  /\ Reviewed(Built(w, items))
           /\ Unknown(w, items) = {} /\ Rejected(w, items) = {}
                => Len(Built(w, items)) = Len(items)
<1>1. PICK n \in Nat : n = Len(items) /\ DOMAIN items = 1..n
                       /\ \A k \in 1..n : items[k] \in ToSet(items)
    BY LenProperties, ElementOfSeq
<1> DEFINE E == {EventOf(w, item) : item \in ToSet(items)}
<1>2. ASSUME NEW e \in E PROVE IsEvent(e) /\ e.kind \in Words
    <2>1. PICK item \in ToSet(items) : e = EventOf(w, item)
        OBVIOUS
    <2>2. PICK at \in Nat : at = IF item.at = 0 THEN w.as_of ELSE item.at
        OBVIOUS
    <2>3. e = [kind |-> item.word, tag |-> Rank("e"), at |-> at, id |-> item.id, val |-> 1]
        BY <2>1, <2>2 DEF EventOf, Event
    <2>4. e.kind \in Words /\ e.at \in Nat /\ e.tag \in Nat /\ e.val = 1
        BY <2>3, PrefixesRank
    <2>5. e.kind # "ask"
        BY <2>4, WordsAreNotHandled DEF Handled
    <2> QED
        BY <2>4, <2>5, WordsAreNotHandled DEF IsEvent
<1> DEFINE States == Seq(E)
<1> DEFINE Fits(k) == KnownTarget(w, items[k]) /\ Buildable(items[k])
<1> DEFINE step1 == [k \in 1..n |-> [s \in States |->
                        IF Fits(k) THEN Append(s, EventOf(w, items[k])) ELSE s]]
<1>3. <<>> \in States
    BY EmptySeq
<1>4. ASSUME NEW k \in 1..n, NEW s \in States
      PROVE  Append(s, EventOf(w, items[k])) \in States
    <2>1. PICK e \in E : e = EventOf(w, items[k])
        BY <1>1
    <2> HIDE DEF E
    <2>2. Append(s, e) \in Seq(E)
        BY AppendProperties
    <2> QED
        BY <2>1, <2>2
<1>5. step1 \in [1..n -> [States -> States]]
    <2> HIDE DEF States
    <2> QED
        BY <1>4
<1> DEFINE Folds(iter) == iter = [s \in SUBSET (1..n) |->
                IF s = {} THEN <<>>
                ELSE IF KnownTarget(w, items[Max(s)]) /\ Buildable(items[Max(s)])
                     THEN Append(iter[s \ {Max(s)}], EventOf(w, items[Max(s)]))
                     ELSE iter[s \ {Max(s)}]]
<1>6. \A s \in SUBSET (1..n) : s # {} => Max(s) \in 1..n
    BY MaxIsIn
<1>7. \E iter : Folds(iter)
    <2>1. PICK iter \in [SUBSET (1..n) -> States] : IsFold(iter, n, <<>>, step1)
        <3> HIDE DEF step1, States
        <3> QED
            BY <1>3, <1>5, FoldExists, Zenon
    <2>2. ASSUME NEW s \in SUBSET (1..n)
          PROVE  iter[s] = IF s = {} THEN <<>>
                           ELSE IF KnownTarget(w, items[Max(s)]) /\ Buildable(items[Max(s)])
                                THEN Append(iter[s \ {Max(s)}], EventOf(w, items[Max(s)]))
                                ELSE iter[s \ {Max(s)}]
        <3>1. CASE s = {}
            BY <2>1, <3>1 DEF IsFold
        <3>2. CASE s # {}
            <4>1. iter[s] = step1[Max(s)][iter[s \ {Max(s)}]]
                <5> HIDE DEF step1, States
                <5> QED
                    BY <2>1, <3>2 DEF IsFold
            <4>2. PICK m \in 1..n : m = Max(s)
                BY <1>6, <3>2
            <4>3. iter[s \ {m}] \in States
                <5> HIDE DEF States
                <5> QED
                    BY <2>1
            <4> HIDE DEF States
            <4> QED
                BY <3>2, <4>1, <4>2, <4>3
        <3> QED
            BY <3>1, <3>2
    <2> HIDE DEF States
    <2> QED
        BY <2>1, <2>2
<1> DEFINE fold == CHOOSE iter : Folds(iter)
<1>8. Folds(fold)
    <2> HIDE DEF Folds
    <2> QED
        BY <1>7
<1>9. Built(w, items) = fold[1..n]
    BY <1>1 DEF Built, FoldLeft, MapThenFoldSet
<1> HIDE DEF fold, States
<1>10. FoldsStages(fold, n, States, <<>>, step1)
    <2>1. fold[{}] = <<>>
        BY <1>8
    <2>2. ASSUME NEW s \in SUBSET (1..n), s # {}, fold[s \ {Max(s)}] \in States
          PROVE  fold[s] = step1[Max(s)][fold[s \ {Max(s)}]]
        <3>1. fold[s] = IF KnownTarget(w, items[Max(s)]) /\ Buildable(items[Max(s)])
                        THEN Append(fold[s \ {Max(s)}], EventOf(w, items[Max(s)]))
                        ELSE fold[s \ {Max(s)}]
            BY <1>8, <2>2
        <3>2. PICK m \in 1..n : m = Max(s)
            BY <1>6, <2>2
        <3> QED
            BY <2>2, <3>1, <3>2
    <2> HIDE DEF step1
    <2> QED
        BY <2>1, <2>2 DEF FoldsStages
<1>11. PICK stage \in [0..n -> States] : AreStages(stage, fold, n, <<>>, step1)
    <2> HIDE DEF step1
    <2> QED
        BY <1>3, <1>5, <1>10, FoldStages, Zenon
<1>12. ASSUME NEW k \in 1..n
       PROVE  stage[k] = IF Fits(k) THEN Append(stage[k - 1], EventOf(w, items[k]))
                         ELSE stage[k - 1]
    <2>1. stage[k - 1] \in States /\ stage[k] = step1[k][stage[k - 1]]
        <3>1. k - 1 \in 0..n
            OBVIOUS
        <3> HIDE DEF step1
        <3> QED
            BY <1>11, <3>1 DEF AreStages
    <2> QED
        BY <2>1
<1>13. stage[0] = <<>> /\ stage[n] = fold[1..n] /\ stage[n] \in States
    BY <1>11 DEF AreStages
<1>14. Reviewed(Built(w, items))
    <2>1. PICK b : b = Built(w, items)
        OBVIOUS
    <2>2. b \in Seq(E)
        BY <1>9, <1>13, <2>1 DEF States
    <2>3. ToSet(b) \subseteq E /\ b \in Seq(ToSet(b))
        <3> HIDE DEF E
        <3> QED
            BY <2>2, QueueElements
    <2> QED
        BY <1>2, <2>1, <2>3 DEF Reviewed
<1>15. ASSUME Unknown(w, items) = {}, Rejected(w, items) = {}
       PROVE  Len(Built(w, items)) = n
    <2>1. \A k \in 1..n : Fits(k)
        BY <1>1, <1>15 DEF Unknown, Rejected
    <2> DEFINE T == {k \in 0..n : Len(stage[k]) = k}
    <2>2. 0 \in T
        BY <1>13, EmptySeq
    <2>3. ASSUME NEW k \in 0..n - 1, k \in T PROVE k + 1 \in T
        <3>1. k + 1 \in 1..n /\ (k + 1) - 1 = k /\ k + 1 \in 0..n /\ k \in 0..n
            OBVIOUS
        <3>2. stage[k + 1] = Append(stage[k], EventOf(w, items[k + 1]))
            BY <1>12, <2>1, <3>1
        <3>3. PICK s, e : s = stage[k] /\ e = EventOf(w, items[k + 1])
            OBVIOUS
        <3>4. s \in Seq(E) /\ e \in E
            BY <1>1, <1>11, <3>1, <3>3 DEF States
        <3>5. Len(Append(s, e)) = Len(s) + 1
            <4> HIDE DEF E
            <4> QED
                BY <3>4, AppendProperties
        <3>6. Len(stage[k + 1]) = k + 1
            BY <2>3, <3>2, <3>3, <3>5
        <3> QED
            BY <3>1, <3>6
    <2>4. \A k \in 0..n : k \in T
        <3> HIDE DEF T
        <3> QED
            BY <2>2, <2>3, IntervalInduction
    <2>5. n \in 0..n
        OBVIOUS
    <2> QED
        BY <1>9, <1>13, <2>4, <2>5
<1> QED
    BY <1>1, <1>14, <1>15

\* What the requests of the handlers are made of, and the batches they become.
RequestOK(r) ==
    /\ r = [kind |-> r.kind, id |-> r.id, val |-> r.val, at |-> r.at, n |-> r.n]
    /\ r.kind \in Handled \cup {"said"}
    /\ r.kind = "extend" => r.val \in Nat
    /\ r.kind = "ask" => r.val.until \in Nat
    /\ r.kind = "said" => r.val.word \in Words /\ r.val.at \in Nat

LEMMA BookingMeans ==
    ASSUME NEW r, NEW w, WorldOK(w), r.at \in Nat
    PROVE  /\ Booking(r, w) \in Seq(ToSet(Booking(r, w)))
           /\ \A e \in ToSet(Booking(r, w)) :
                 /\ IsEvent(e) /\ e.at = r.at
                 /\ e.kind = "book" \/ (e.kind = "close" /\ e.id \in DOMAIN w.asks)
<1> DEFINE A == {a \in DOMAIN w.asks : w.asks[a].caller = r.val}
<1> DEFINE asks == SetToSeq(A)
<1>1. IsFiniteSet(A) /\ A \subseteq DOMAIN w.asks
    BY FS_Subset DEF WorldOK
<1>2. PICK c \in Nat : c = Cardinality(A) /\ ExistsBijection(1..c, A)
    <2> HIDE DEF A
    <2> QED
        BY <1>1, FS_CardinalityType
<1>3. asks \in [1..c -> A]
    <2>1. \E f \in [1..c -> A] : IsInjective(f)
        <3> HIDE DEF A
        <3> QED
            BY <1>2 DEF ExistsBijection, Bijection, Injection
    <2> HIDE DEF A
    <2> QED
        BY <1>2, <2>1 DEF SetToSeq
<1> HIDE DEF asks
<1> DEFINE Fine(e) == /\ IsEvent(e) /\ e.at = r.at
                      /\ e.kind = "book" \/ (e.kind = "close" /\ e.id \in DOMAIN w.asks)
<1> DEFINE front == [i \in DOMAIN asks |-> Event("close", "askc", r.at, asks[i], 0)]
<1> DEFINE last == Event("book", "job", r.at, NextJob(w), r.val)
<1>4. Booking(r, w) = front \o <<last>>
    BY DEF Booking, StampNow, asks
<1>5. Fine(last)
    <2>1. last.kind = "book" /\ last.at = r.at /\ last.tag = Rank("job")
        BY DEF Event
    <2> QED
        BY <2>1, PrefixesRank DEF IsEvent, Recorded, Handled
<1>6. ASSUME NEW i \in 1..c PROVE Fine(Event("close", "askc", r.at, asks[i], 0))
    <2>1. PICK e : e = Event("close", "askc", r.at, asks[i], 0)
        OBVIOUS
    <2>2. e.kind = "close" /\ e.at = r.at /\ e.tag = Rank("askc") /\ e.id = asks[i]
        BY <2>1 DEF Event
    <2>3. asks[i] \in DOMAIN w.asks
        BY <1>1, <1>3
    <2>4. Fine(e)
        BY <2>2, <2>3, PrefixesRank DEF IsEvent, Recorded, Handled
    <2> QED
        BY <2>1, <2>4
<1>7. PICK E : E = {front[i] : i \in 1..c} \cup {last}
    OBVIOUS
<1>8. \A e \in E : Fine(e)
    <2>1. \A i \in 1..c : front[i] = Event("close", "askc", r.at, asks[i], 0)
        BY <1>3
    <2> HIDE DEF front, last, Fine
    <2> QED
        BY <1>5, <1>6, <1>7, <2>1
<1>9. DOMAIN front = 1..c
    BY <1>3
<1> HIDE DEF last
<1>10. front \in Seq(E)
    <2>1. \A i \in 1..c : front[i] \in E
        BY <1>7
    <2>2. front = [i \in 1..c |-> front[i]]
        BY <1>3
    <2> HIDE DEF front
    <2>3. front \in [1..c -> E]
        BY <2>1, <2>2
    <2> QED
        BY <1>2, <2>3, SeqDef
<1>11. <<last>> \in Seq(E)
    <2>1. last \in E
        BY <1>7
    <2> QED
        BY <2>1
<1>12. Booking(r, w) \in Seq(E)
    <2> HIDE DEF front, last
    <2> QED
        BY <1>4, <1>10, <1>11, ConcatProperties
<1>13. ToSet(Booking(r, w)) \subseteq E /\ Booking(r, w) \in Seq(ToSet(Booking(r, w)))
    BY <1>12, QueueElements
<1> QED
    BY <1>8, <1>13

LEMMA BatchMeans ==
    ASSUME NEW r, RequestOK(r), r.at \in Nat, NEW w, WorldOK(w)
    PROVE  /\ Batch(r, w) \in Seq(ToSet(Batch(r, w)))
           /\ \A e \in ToSet(Batch(r, w)) :
                 /\ IsEvent(e)
                 /\ r.kind = "said" => e.kind \in Words
                 /\ r.kind # "said" => e.at = r.at
                 /\ r.kind = "book" =>
                       e.kind = "book" \/ (e.kind = "close" /\ e.id \in DOMAIN w.asks)
                 /\ r.kind \notin {"book", "said"} => e.kind = r.kind /\ e.id = r.id /\ e.val = r.val
           /\ r.kind # "book" => \E e : Batch(r, w) = <<e>>
<1> DEFINE Fine(e) ==
        /\ IsEvent(e)
        /\ r.kind = "said" => e.kind \in Words
        /\ r.kind # "said" => e.at = r.at
        /\ r.kind = "book" => e.kind = "book" \/ (e.kind = "close" /\ e.id \in DOMAIN w.asks)
        /\ r.kind \notin {"book", "said"} => e.kind = r.kind /\ e.id = r.id /\ e.val = r.val
<1>1. ASSUME NEW e, Batch(r, w) = <<e>>, Fine(e)
      PROVE  /\ Batch(r, w) \in Seq(ToSet(Batch(r, w)))
             /\ \A d \in ToSet(Batch(r, w)) : Fine(d)
    <2>1. <<e>> \in Seq({e}) /\ ToSet(<<e>>) = {e}
        BY DEF ToSet
    <2> HIDE DEF Fine
    <2> QED
        BY <1>1, <2>1
<1>2. CASE r.kind = "book"
    <2>1. Batch(r, w) = Booking(r, w)
        BY <1>2 DEF Batch
    <2> QED
        BY <1>2, <2>1, BookingMeans
<1>3. ASSUME NEW prefix, Rank(prefix) \in Nat, r.kind \in Handled \ {"book"},
             Batch(r, w) = <<Event(r.kind, prefix, r.at, r.id, r.val)>>
      PROVE  \E e : Batch(r, w) = <<e>> /\ Fine(e)
    <2>1. PICK e : e = Event(r.kind, prefix, r.at, r.id, r.val)
        OBVIOUS
    <2>2. /\ e.kind = r.kind /\ e.tag = Rank(prefix) /\ e.at = r.at /\ e.id = r.id
          /\ e.val = r.val
        BY <2>1 DEF Event
    <2>3. r.kind # "said"
        BY <1>3 DEF Handled
    <2>4. Fine(e)
        BY <1>3, <2>2, <2>3 DEF IsEvent, Recorded, RequestOK
    <2> QED
        BY <1>3, <2>1, <2>4
<1>4. CASE r.kind = "said"
    <2>1. PICK at \in Nat : at = IF r.val.at = 0 THEN r.at ELSE r.val.at
        BY <1>4 DEF RequestOK
    <2>2. PICK e : e = Event(r.val.word, "e", at, r.id, 1)
        OBVIOUS
    <2>3. Batch(r, w) = <<e>>
        BY <1>4, <2>1, <2>2 DEF Batch
    <2>4. e.kind = r.val.word /\ e.tag = Rank("e") /\ e.at = at /\ e.val = 1
        BY <2>2 DEF Event
    <2>5. e.kind \in Words
        BY <1>4, <2>4 DEF RequestOK
    <2>6. e.kind # "ask"
        BY <2>5, WordsAreNotHandled DEF Handled
    <2>7. Fine(e)
        BY <1>4, <2>1, <2>4, <2>5, <2>6, PrefixesRank, WordsAreNotHandled DEF IsEvent
    <2> HIDE DEF Fine
    <2>8. \A d \in ToSet(Batch(r, w)) : Fine(d)
        BY <1>1, <2>3, <2>7
    <2> QED
        BY <1>1, <2>3, <2>7, <2>8 DEF Fine
<1>5. CASE r.kind \in Handled \ {"book"}
    <2>1. \E prefix : /\ Rank(prefix) \in Nat
                      /\ Batch(r, w) = <<Event(r.kind, prefix, r.at, r.id, r.val)>>
        BY <1>5, PrefixesRank DEF Handled, Batch
    <2>2. PICK e : Batch(r, w) = <<e>> /\ Fine(e)
        <3> HIDE DEF Fine
        <3> QED
            BY <1>3, <1>5, <2>1
    <2> HIDE DEF Fine
    <2>3. \A d \in ToSet(Batch(r, w)) : Fine(d)
        BY <1>1, <2>2
    <2> QED
        BY <1>1, <2>2, <2>3 DEF Fine
<1> QED
    BY <1>2, <1>4, <1>5 DEF RequestOK

\* However the batch falls between the events there are, they stay, in order,
\* and nothing but the batch joins them.
LEMMA AppendedMeans ==
    ASSUME log \in Seq(ToSet(log)), Sorted(log), NEW b, b \in Seq(ToSet(b)),
           NEW l \in AllInserted(log, b)
    PROVE  /\ l \in Seq(ToSet(l)) /\ Sorted(l)
           /\ ToSet(log) \subseteq ToSet(l) /\ ToSet(l) \subseteq ToSet(log) \cup ToSet(b)
<1>1. PICK E : E = ToSet(log) \cup ToSet(b)
    OBVIOUS
<1>2. log \in Seq(E) /\ b \in Seq(E)
    BY <1>1, SeqMonotonic
<1> DEFINE Fine == {q \in Seq(E) : Sorted(q) /\ ToSet(log) \subseteq ToSet(q)}
<1>3. log \in Fine
    BY <1>2
<1>4. ASSUME NEW q \in Fine, NEW i \in 1..Len(b) PROVE Inserted(q, b[i]) \subseteq Fine
    <2>1. PICK e \in E : e = b[i]
        BY <1>2, ElementOfSeq
    <2>2. q \in Seq(E) /\ Sorted(q) /\ ToSet(log) \subseteq ToSet(q)
        OBVIOUS
    <2>3. \A p \in Inserted(q, e) : p \in Seq(E) /\ Sorted(p) /\ ToSet(p) = ToSet(q) \cup {e}
        BY <2>2, InsertedSorted
    <2> QED
        BY <2>1, <2>2, <2>3
<1>5. AllInserted(log, b) \subseteq Fine
    <2> HIDE DEF Fine
    <2> QED
        BY <1>2, <1>3, <1>4, AllInsertedKeep
<1>6. l \in Seq(E) /\ Sorted(l) /\ ToSet(log) \subseteq ToSet(l)
    BY <1>5
<1>7. ToSet(l) \subseteq E /\ l \in Seq(ToSet(l))
    BY <1>6, QueueElements
<1> QED
    BY <1>1, <1>6, <1>7

-----------------------------------------------------------------------------
(* The log, and what waits to be appended to it.                           *)

LogOK ==
    /\ log \in Seq(ToSet(log)) /\ Sorted(log) /\ \A e \in ToSet(log) : IsEvent(e)
    /\ clock \in Nat /\ served \in Nat

ReadsOK == \A t \in Threads : WorldOK(read[t])

\* A handler that is about to stamp and append one's request.
Waiting(t) == step[t] \in {"stamp", "append"} /\ req[t].kind # "accept"
Stamped(t) == step[t] = "append" /\ req[t].kind # "accept"

RequestsOK ==
    \A t \in Threads :
        /\ Waiting(t) => RequestOK(req[t])
        /\ Stamped(t) => req[t].at \in 1..clock
        /\ step[t] \in {"stamp", "append"} /\ req[t].kind = "accept"
             => step[t] = "append" /\ Reviewed(req[t].val)

\* What dispatchers were shown of their notes.
InboxOK ==
    \A r \in inbox : r.kind = "note" =>
        Reviewed(r.events) /\ (r.done => Len(r.events) = r.described)

\* What the model said to the question that was asked.
ResultsOK ==
    /\ result = [t \in Threads |-> result[t]]
    /\ \A t \in Threads : step[t] = "TriageOutcome" /\ result[t].value # Nothing =>
           result[t].value \in Values /\ result[t].value.schema = "TriageOutcome"

OfficeInv == Shape /\ LogOK /\ ReadsOK /\ RequestsOK /\ InboxOK /\ ResultsOK

LEMMA WorldIsOK == LogOK => WorldOK(World)
<1> SUFFICES ASSUME LogOK PROVE WorldOK(World)
    OBVIOUS
<1>1. PICK S : S = ToSet(log)
    OBVIOUS
<1>2. log \in Seq(S) /\ \A e \in S : IsEvent(e)
    BY <1>1 DEF LogOK
<1>3. WorldOK(Fold(log))
    BY <1>2, WorldStages
<1> QED
    BY <1>3 DEF World

LEMMA OfficeStarts == AgentsInit => OfficeInv
<1> SUFFICES ASSUME AgentsInit PROVE OfficeInv
    OBVIOUS
<1> USE DEF AgentsInit, OfficeInit, StructuredInit
<1>1. Shape
    BY DEF Shape
<1>2. LogOK
    <2>1. ToSet(<<>>) = {} /\ <<>> \in Seq({}) /\ Len(<<>>) = 0
        BY EmptySeq DEF ToSet
    <2>2. Sorted(<<>>)
        BY <2>1 DEF Sorted
    <2>3. log = <<>> /\ clock = 0 /\ served = 0
        OBVIOUS
    <2> QED
        BY <2>1, <2>2, <2>3 DEF LogOK
<1>3. ReadsOK
    BY SeedOK DEF ReadsOK
<1>4. RequestsOK
    BY DEF RequestsOK, Waiting, Stamped
<1>5. InboxOK
    BY DEF InboxOK
<1>6. ResultsOK
    BY AgentsConstants DEF ResultsOK
<1> QED
    BY <1>1, <1>2, <1>3, <1>4, <1>5, <1>6 DEF OfficeInv

\* What a handler reads.
LEMMA ReadsStayOK ==
    ASSUME OfficeInv, NEW t \in Threads, Alone(t)
    PROVE  ReadsOK'
<1>1. WorldOK(World) /\ WorldOK(Seed) /\ WorldOK(read[t])
    BY WorldIsOK, SeedOK DEF OfficeInv, ReadsOK
<1>2. \A o \in Threads : WorldOK(read'[o])
    BY <1>1 DEF OfficeInv, ReadsOK, Alone
<1> QED
    BY <1>2 DEF ReadsOK

LEMMA BeginsOK ==
    ASSUME OfficeInv, NEW t \in Threads, Alone(t), Begins(t)
    PROVE  LogOK' /\ RequestsOK'
<1>1. PICK kind, id, val : Warranted(kind, id, val) /\ Begin(t, kind, id, val)
    BY DEF Begins
<1> USE DEF Begin
<1>2. LogOK'
    BY <1>1 DEF OfficeInv, LogOK
<1>3. PICK r : r = [kind |-> kind, id |-> id, val |-> val, at |-> 0, n |-> served']
    OBVIOUS
<1>4. req'[t] = r /\ step'[t] = "stamp" /\ clock' = clock
    BY <1>1, <1>3 DEF OfficeInv, Shape
<1>5. RequestOK(r) /\ r.kind # "accept"
    <2>1. kind = "extend" => val \in Nat
        <3> HAVE kind = "extend"
        <3>1. PICK a \in DOMAIN World.asks : val = World.asks[a].until
            BY <1>1 DEF Warranted
        <3> QED
            BY <3>1, WorldIsOK DEF OfficeInv, WorldOK
    <2>2. kind = "ask" => val.until \in Nat
        <3>1. HoursAgreed \subseteq Nat
            BY OfficeConstants
        <3> QED
            BY <1>1, <3>1 DEF Warranted
    <2>3. kind \in Handled \cup {"said"} /\ kind # "accept"
        BY <1>1 DEF Warranted, Handled
    <2>4. kind = "said" => val.word \in Words /\ val.at \in Nat
        BY <1>1 DEF Warranted
    <2>5. /\ r = [kind |-> r.kind, id |-> r.id, val |-> r.val, at |-> r.at, n |-> r.n]
          /\ r.kind = kind /\ r.val = val
        BY <1>3
    <2> QED
        BY <2>1, <2>2, <2>3, <2>4, <2>5 DEF RequestOK
<1>6. RequestsOK'
    BY <1>4, <1>5 DEF OfficeInv, RequestsOK, Waiting, Stamped, Alone
<1> QED
    BY <1>2, <1>6

LEMMA StampOK ==
    ASSUME OfficeInv, NEW t \in Threads, Alone(t), Stamp(t)
    PROVE  LogOK' /\ RequestsOK'
<1> USE DEF Stamp
<1>1. LogOK'
    BY DEF OfficeInv, LogOK
<1>2. PICK r : r = req[t]
    OBVIOUS
<1>3. RequestOK(r) /\ r.kind # "accept"
    BY <1>2 DEF OfficeInv, RequestsOK, Waiting
<1>4. PICK q : q = [r EXCEPT !.at = clock + 1]
    OBVIOUS
<1>5. req'[t] = q /\ step'[t] = "append" /\ clock' = clock + 1 /\ clock \in Nat
    BY <1>2, <1>4 DEF OfficeInv, Shape, LogOK
<1>6. RequestOK(q) /\ q.kind # "accept" /\ q.at = clock + 1
    <2>1. /\ q.kind = r.kind /\ q.id = r.id /\ q.val = r.val /\ q.n = r.n /\ q.at = clock + 1
          /\ q = [kind |-> q.kind, id |-> q.id, val |-> q.val, at |-> q.at, n |-> q.n]
        BY <1>3, <1>4 DEF RequestOK
    <2> QED
        BY <1>3, <2>1 DEF RequestOK
<1>7. RequestsOK'
    <2>1. \A o \in Threads \ {t} : step'[o] = step[o] /\ req'[o] = req[o]
        BY DEF Alone
    <2>2. \A n \in 1..clock : n \in 1..clock'
        BY <1>5
    <2>3. req'[t].at \in 1..clock'
        BY <1>5, <1>6
    <2> QED
        BY <1>5, <1>6, <2>1, <2>2, <2>3 DEF OfficeInv, RequestsOK, Waiting, Stamped
<1> QED
    BY <1>1, <1>7

\* What a handler that appends puts into the log.
LEMMA RecordsMeans ==
    ASSUME OfficeInv, NEW t \in Threads, Records(t)
    PROVE  \E b : /\ step[t] = "append" /\ log' \in AllInserted(log, b)
                  /\ (Stamped(t) => b = Batch(req[t], read[t])) /\ (~Stamped(t) => Reviewed(b))
                  /\ b \in Seq(ToSet(b)) /\ (\A e \in ToSet(b) : IsEvent(e))
                  /\ step'[t] = "publish" /\ UNCHANGED <<clock, served, req>>
<1>1. CASE Record(t)
    <2>1. PICK b : b = Batch(req[t], read[t])
        OBVIOUS
    <2>2. RequestOK(req[t]) /\ req[t].at \in Nat /\ WorldOK(read[t]) /\ Stamped(t)
        <3>1. step[t] = "append" /\ req[t].kind # "accept"
            BY <1>1 DEF Record, AppendBatch
        <3>2. RequestOK(req[t]) /\ req[t].at \in 1..clock /\ clock \in Nat
            BY <3>1 DEF OfficeInv, RequestsOK, Waiting, Stamped, LogOK
        <3> QED
            BY <3>1, <3>2 DEF OfficeInv, ReadsOK, Stamped
    <2>3. b \in Seq(ToSet(b)) /\ \A e \in ToSet(b) : IsEvent(e)
        BY <2>1, <2>2, BatchMeans
    <2> QED
        BY <1>1, <2>1, <2>2, <2>3 DEF Record, AppendBatch, OfficeInv, Shape, Stamped
<1>2. CASE RecordAccepted(t)
    <2>1. PICK b : b = req[t].val
        OBVIOUS
    <2>2. Reviewed(b)
        BY <1>2, <2>1 DEF RecordAccepted, AppendBatch, OfficeInv, RequestsOK
    <2> QED
        BY <1>2, <2>1, <2>2
           DEF RecordAccepted, AppendBatch, OfficeInv, Shape, Stamped, Reviewed
<1> QED
    BY <1>1, <1>2 DEF Records

LEMMA RecordsOK ==
    ASSUME OfficeInv, NEW t \in Threads, Alone(t), Records(t)
    PROVE  LogOK' /\ RequestsOK'
<1>1. PICK b : /\ log' \in AllInserted(log, b)
               /\ b \in Seq(ToSet(b)) /\ (\A e \in ToSet(b) : IsEvent(e))
               /\ step'[t] = "publish" /\ UNCHANGED <<clock, served, req>>
    BY RecordsMeans
<1>2. PICK l \in AllInserted(log, b) : l = log'
    BY <1>1
<1>3. log \in Seq(ToSet(log)) /\ Sorted(log) /\ \A e \in ToSet(log) : IsEvent(e)
    BY DEF OfficeInv, LogOK
<1>4. /\ l \in Seq(ToSet(l)) /\ Sorted(l) /\ ToSet(l) \subseteq ToSet(log) \cup ToSet(b)
    BY <1>1, <1>3, AppendedMeans
<1>5. LogOK'
    <2>1. \A e \in ToSet(l) : IsEvent(e)
        BY <1>1, <1>3, <1>4
    <2> QED
        BY <1>1, <1>2, <1>4, <2>1 DEF OfficeInv, LogOK
<1>6. RequestsOK'
    BY <1>1 DEF OfficeInv, RequestsOK, Waiting, Stamped, Alone
<1> QED
    BY <1>5, <1>6

LEMMA AcceptsOK ==
    ASSUME OfficeInv, NEW t \in Threads, Alone(t), AcceptTriage(t)
    PROVE  LogOK' /\ RequestsOK'
<1>1. PICK r \in inbox :
          /\ r.kind = "note" /\ Take(t, "note")
          /\ req' = [req EXCEPT ![t] = [kind |-> "accept", id |-> 0, val |-> r.events, at |-> 0,
                                        n |-> served']]
          /\ step' = [step EXCEPT ![t] = "append"] /\ UNCHANGED <<log, clock>>
    BY DEF AcceptTriage
<1>2. Reviewed(r.events)
    BY <1>1 DEF OfficeInv, InboxOK
<1>3. req'[t].kind = "accept" /\ req'[t].val = r.events /\ step'[t] = "append"
    BY <1>1 DEF OfficeInv, Shape
<1>4. LogOK'
    BY <1>1 DEF OfficeInv, LogOK, Take
<1>5. RequestsOK'
    BY <1>1, <1>2, <1>3 DEF OfficeInv, RequestsOK, Waiting, Stamped, Alone
<1> QED
    BY <1>4, <1>5

LEMMA OtherwiseOK ==
    ASSUME OfficeInv, NEW t \in Threads, Alone(t), Otherwise(t)
    PROVE  LogOK' /\ RequestsOK'
BY DEF OfficeInv, LogOK, RequestsOK, Waiting, Stamped, Alone, Otherwise

\* Whatever an agent does, the note panel is shown events that can be recorded,
\* and says that they deal with the note only if none of it was left out.
LEMMA TriagedInbox ==
    ASSUME OfficeInv, NEW t \in Threads, Triaged(t)
    PROVE  InboxOK'
<1>1. PICK w, outcome : w = read[t] /\ outcome = result[t].value
    OBVIOUS
<1>2. CASE outcome = Nothing
    BY <1>1, <1>2 DEF Triaged, Reply, OfficeInv, InboxOK
<1>3. CASE outcome # Nothing
    <2>1. outcome \in Values /\ outcome.schema = "TriageOutcome"
        BY <1>1, <1>3 DEF Triaged, Said, OfficeInv, ResultsOK
    <2>2. PICK items : items = outcome.items
        OBVIOUS
    <2>3. /\ items \in Seq(ToSet(items))
          /\ \A item \in ToSet(items) : item.word \in Words /\ item.at \in Nat
        BY <2>1, <2>2, AgentsConstants
    <2>4. w.as_of \in Nat
        BY <1>1 DEF OfficeInv, ReadsOK, WorldOK
    <2>5. PICK events : events = Built(w, items)
        OBVIOUS
    <2>6. /\ Reviewed(events)
          /\ ~NeedsDispatcher(w, outcome) => Len(events) = Len(items)
        BY <2>2, <2>3, <2>4, <2>5, BuiltMeans DEF NeedsDispatcher
    <2>7. PICK r : r = [kind |-> "note", done |-> ~NeedsDispatcher(w, outcome),
                        described |-> Len(items), events |-> events]
        OBVIOUS
    <2>8. inbox' = inbox \cup {r}
        BY <1>1, <1>3, <2>2, <2>5, <2>7 DEF Triaged, Reply
    <2>9. r.events = events /\ r.described = Len(items) /\ (r.done => ~NeedsDispatcher(w, outcome))
        BY <2>7
    <2> QED
        BY <2>6, <2>8, <2>9 DEF OfficeInv, InboxOK
<1> QED
    BY <1>2, <1>3

LEMMA AgentsTalk ==
    ASSUME OfficeInv, [AgentsNext]_agentsVars
    PROVE  InboxOK' /\ ResultsOK'
<1>1. CASE UNCHANGED agentsVars
    BY <1>1 DEF agentsVars, officeVars, recordVars, callVars, OfficeInv, InboxOK, ResultsOK
<1>2. CASE OfficeStep
    <2>1. UNCHANGED <<result, inbox>>
        BY <1>2 DEF OfficeStep, callVars
    <2>2. \A t \in Threads : step'[t] = "TriageOutcome" => step[t] = "TriageOutcome"
        <3>1. StepKinds
            BY <1>2, OfficeStepKinds DEF OfficeStep, OfficeInv
        <3>2. OfficeNext
            BY <1>2 DEF OfficeStep
        <3>3. ASSUME NEW t \in Threads, Handler(t)
              PROVE  \A o \in Threads : step'[o] = "TriageOutcome" => step[o] = "TriageOutcome"
            <4>1. CASE Begins(t)
                BY <4>1 DEF Begins, Begin, OfficeInv, Shape
            <4>2. CASE ~Begins(t)
                <5>1. \/ Stamp(t) \/ Record(t) \/ Publish(t) \/ (\E b \in Boards : Tell(t, b))
                      \/ Answer(t) \/ Die(t)
                    BY <3>3, <4>2, HandlersBegin DEF Handler
                <5> QED
                    BY <5>1 DEF Stamp, Record, AppendBatch, Publish, Tell, recordVars, Answer, Die,
                                EndRequest, OfficeInv, Shape
            <4> QED
                BY <4>1, <4>2
        <3> QED
            BY <3>2, <3>3 DEF OfficeNext, Connect, Receive, Leave, recordVars
    <2> QED
        BY <2>1, <2>2 DEF OfficeInv, InboxOK, ResultsOK
<1>3. ASSUME NEW t \in Threads, AgentStep(t)
      PROVE  InboxOK' /\ ResultsOK'
    <2>1. ASSUME NEW schema, NEW why, Ask(t, schema, why) PROVE InboxOK' /\ ResultsOK'
        <3>1. inbox' = inbox /\ result'[t].value = Nothing
            BY <2>1, AgentsConstants DEF Ask, Extract, NoResult, OfficeInv, ResultsOK
        <3>2. \A o \in Threads \ {t} : step'[o] = step[o] /\ result'[o] = result[o]
            BY <2>1 DEF Ask, Extract, OfficeInv, ResultsOK, Shape
        <3>3. result' = [o \in Threads |-> result'[o]]
            BY <2>1 DEF Ask, Extract, OfficeInv, ResultsOK
        <3> QED
            BY <3>1, <3>2, <3>3 DEF OfficeInv, InboxOK, ResultsOK
    <2>2. ASSUME result' = result, step'[t] # "TriageOutcome",
                 \A o \in Threads \ {t} : step'[o] = step[o]
          PROVE  ResultsOK'
        BY <2>2 DEF OfficeInv, ResultsOK
    <2>3. ASSUME NEW answers, Reply(t, answers), result' = result,
                 \A r \in answers : r.kind # "note"
          PROVE  InboxOK' /\ ResultsOK'
        <3>1. InboxOK'
            BY <2>3 DEF Reply, OfficeInv, InboxOK
        <3>2. ResultsOK'
            BY <2>2, <2>3 DEF Reply, EndRequest, OfficeInv, Shape
        <3> QED
            BY <3>1, <3>2
    <2>4. CASE ReadNote(t)
        BY <2>1, <2>4 DEF ReadNote
    <2>5. CASE Routed(t)
        BY <2>1, <2>3, <2>5 DEF Routed, callVars
    <2>6. CASE Triaged(t)
        <3>1. InboxOK'
            BY <2>6, TriagedInbox
        <3>2. EndRequest(t) /\ result' = result
            BY <2>6 DEF Triaged, Reply, callVars
        <3>3. ResultsOK'
            BY <2>2, <3>2 DEF EndRequest, OfficeInv, Shape
        <3> QED
            BY <3>1, <3>3
    <2>7. CASE AcceptTriage(t)
        <3>1. inbox' = inbox /\ result' = result /\ step' = [step EXCEPT ![t] = "append"]
            BY <2>7 DEF AcceptTriage, callVars
        <3> QED
            BY <2>2, <3>1 DEF OfficeInv, Shape, InboxOK
    <2>8. CASE RecordAccepted(t)
        <3>1. inbox' = inbox /\ result' = result /\ step' = [step EXCEPT ![t] = "publish"]
            BY <2>8 DEF RecordAccepted, AppendBatch, callVars
        <3> QED
            BY <2>2, <3>1 DEF OfficeInv, Shape, InboxOK
    <2>9. CASE ChooseRepair(t)
        BY <2>1, <2>9 DEF ChooseRepair
    <2>10. CASE Chose(t)
        <3>1. PICK done, plan, week :
                  Reply(t, {[kind |-> "repair", done |-> done, plan |-> plan, week |-> week]})
            BY <2>10, Zenon DEF Chose
        <3>2. result' = result
            BY <2>10 DEF Chose, callVars
        <3>3. PICK answers :
                  answers = {[kind |-> "repair", done |-> done, plan |-> plan, week |-> week]}
            OBVIOUS
        <3>4. \A r \in answers : r.kind = "repair"
            BY <3>3
        <3> QED
            BY <2>3, <3>1, <3>2, <3>3, <3>4
    <2>11. CASE DraftMessages(t)
        BY <2>1, <2>11 DEF DraftMessages
    <2>12. CASE Wrote(t)
        <3>1. PICK answers : /\ Reply(t, answers) /\ result' = result
                             /\ \A r \in answers : r.kind = "comms"
            BY <2>12 DEF Wrote, callVars
        <3> QED
            BY <2>3, <3>1
    <2> QED
        BY <1>3, <2>4, <2>5, <2>6, <2>7, <2>8, <2>9, <2>10, <2>11, <2>12 DEF AgentStep
<1>4. ASSUME NEW t \in Threads, ModelStep(t)
      PROVE  InboxOK' /\ ResultsOK'
    <2>1. inbox' = inbox /\ step' = step
        BY <1>4 DEF ModelStep, officeVars, recordVars
    <2>2. \/ result' = result
          \/ \E v, n, failed :
               /\ v \in Values \cup {Nothing} /\ (v = Nothing \/ v.schema = step[t])
               /\ result' = [result EXCEPT ![t] = [value |-> v, attempts |-> n, failed |-> failed]]
        <3>1. CASE \E v \in {x \in Values : x.schema = step[t]} : Valid(t, v)
            BY <3>1 DEF Valid, Return
        <3>2. CASE Invalid(t)
            BY <3>2 DEF Invalid
        <3>3. CASE Unreachable(t)
            BY <3>3 DEF Unreachable, Return
        <3>4. CASE GiveUp(t)
            BY <3>4 DEF GiveUp, Return
        <3> QED
            BY <1>4, <3>1, <3>2, <3>3, <3>4 DEF ModelStep
    <2>3. ResultsOK'
        BY <2>1, <2>2 DEF OfficeInv, ResultsOK
    <2> QED
        BY <2>1, <2>3 DEF OfficeInv, InboxOK
<1> QED
    BY <1>1, <1>2, <1>3, <1>4 DEF AgentsNext

LEMMA OfficeContinues == OfficeInv /\ [AgentsNext]_agentsVars => OfficeInv'
<1> SUFFICES ASSUME OfficeInv, [AgentsNext]_agentsVars PROVE OfficeInv'
    OBVIOUS
<1>1. StepKinds
    BY StepsAreOfAKind DEF OfficeInv
<1>2. InboxOK' /\ ResultsOK'
    BY AgentsTalk
<1>3. CASE UNCHANGED recordVars \/ UNCHANGED officeVars
    <2>1. Shape' /\ LogOK' /\ ReadsOK' /\ RequestsOK'
        BY <1>3 DEF officeVars, recordVars, OfficeInv, Shape, LogOK, ReadsOK, RequestsOK, Waiting,
                    Stamped
    <2> QED
        BY <1>2, <2>1 DEF OfficeInv
<1>4. ASSUME NEW t \in Threads, Alone(t),
             Begins(t) \/ Stamp(t) \/ Records(t) \/ AcceptTriage(t) \/ Otherwise(t)
      PROVE  OfficeInv'
    <2>1. Shape'
        BY <1>4 DEF Alone
    <2>2. ReadsOK'
        BY <1>4, ReadsStayOK
    <2>3. LogOK' /\ RequestsOK'
        BY <1>4, BeginsOK, StampOK, RecordsOK, AcceptsOK, OtherwiseOK
    <2> QED
        BY <1>2, <2>1, <2>2, <2>3 DEF OfficeInv
<1> QED
    BY <1>1, <1>3, <1>4 DEF StepKinds

LEMMA OfficeHolds == AgentsSpec => []OfficeInv
BY OfficeStarts, OfficeContinues, PTL DEF AgentsSpec

\* A note the panel calls dealt with became as many events as it described
\* (agents/triage.py), for any notes, any worlds and whatever the model says.
THEOREM NothingIsLostInTriage == AgentsSpec => []NothingDescribedIsLost
<1>1. OfficeInv => NothingDescribedIsLost
    BY DEF OfficeInv, InboxOK, NothingDescribedIsLost
<1> QED
    BY <1>1, OfficeHolds, PTL

-----------------------------------------------------------------------------
(* Agreements to stay late.                                                *)

LEMMA AgreementsFollow == LogOK => AgreementsStand
<1> SUFFICES ASSUME LogOK, NEW f \in Fitters
             PROVE  World.staying[f] = Max({0} \cup {e.val : e \in {d \in ToSet(log) :
                                                 d.kind = "extend" /\ d.id = f}})
    BY DEF AgreementsStand
<1>1. PICK n \in Nat : n = Len(log) /\ DOMAIN log = 1..n /\ \A k \in 1..n : IsEvent(log[k])
    BY LenProperties, ElementOfSeq DEF LogOK
<1>2. PICK stage : /\ StagesOf(log, stage)
                   /\ \A k \in 0..n : WorldOK(stage[k])
                   /\ World.staying = stage[n].staying
    <2>1. PICK S : S = ToSet(log)
        OBVIOUS
    <2>2. log \in Seq(S) /\ \A e \in S : IsEvent(e)
        BY <2>1 DEF LogOK
    <2> QED
        BY <1>1, <2>2, WorldStages DEF World
<1> DEFINE Agreed(k) == {i \in 1..k : log[i].kind = "extend" /\ log[i].id = f}
<1> DEFINE Greatest(x, k) ==
        /\ x \in Nat
        /\ x = 0 \/ \E i \in Agreed(k) : x = log[i].val
        /\ \A i \in Agreed(k) : log[i].val <= x
<1> DEFINE T == {k \in 0..n : f \in DOMAIN stage[k].staying /\ Greatest(stage[k].staying[f], k)}
<1>3. 0 \in T
    <2>1. stage[0].staying[f] = 0 /\ f \in DOMAIN stage[0].staying
        BY <1>2 DEF StagesOf, Seed
    <2>2. Agreed(0) = {}
        OBVIOUS
    <2> QED
        BY <2>1, <2>2
<1>4. ASSUME NEW k \in 0..n - 1, k \in T PROVE k + 1 \in T
    <2>1. k + 1 \in 1..n /\ k + 1 \in 0..n /\ (k + 1) - 1 = k /\ k \in 0..n
        OBVIOUS
    <2>2. PICK e : e = log[k + 1] /\ IsEvent(e)
        BY <1>1, <2>1
    <2>3. stage[k + 1] = Apply(stage[k], e) /\ WorldOK(stage[k])
        BY <1>1, <1>2, <2>1, <2>2 DEF StagesOf
    <2>4. stage[k + 1].staying = StayingAfter(stage[k].staying, e)
        BY <2>2, <2>3, ApplyMeans DEF WorldOK, IsEvent
    <2>5. \A i \in 1..k : i \in 1..k + 1 /\ i # k + 1
        OBVIOUS
    <2>6. \A i \in 1..k + 1 : i \in 1..k \/ i = k + 1
        OBVIOUS
    <2>7. PICK x \in Nat : x = stage[k].staying[f]
        BY <1>4
    <2>8. CASE e.kind = "extend" /\ e.id = f
        <3>1. stage[k + 1].staying[f] = LaterAgreed(x, e.val) /\ f \in DOMAIN stage[k + 1].staying
            BY <1>4, <2>4, <2>7, <2>8 DEF StayingAfter
        <3>2. Agreed(k + 1) = Agreed(k) \cup {k + 1}
            BY <2>2, <2>5, <2>6, <2>8
        <3>3. e.val \in Nat
            BY <2>2, <2>8 DEF IsEvent
        <3>4. Greatest(x, k)
            BY <1>4, <2>7
        <3>5. \A i \in Agreed(k) : log[i].val \in Nat
            BY <1>1, <2>1, <2>5 DEF IsEvent
        <3>6. Greatest(LaterAgreed(x, e.val), k + 1)
            <4>1. CASE e.val > x
                BY <2>2, <3>2, <3>3, <3>4, <3>5, <4>1 DEF LaterAgreed
            <4>2. CASE ~(e.val > x)
                BY <2>2, <3>2, <3>3, <3>4, <3>5, <4>2 DEF LaterAgreed
            <4> QED
                BY <4>1, <4>2
        <3> QED
            BY <2>1, <3>1, <3>6
    <2>9. CASE ~(e.kind = "extend" /\ e.id = f)
        <3>1. stage[k + 1].staying[f] = x /\ f \in DOMAIN stage[k + 1].staying
            BY <1>4, <2>4, <2>7, <2>9 DEF StayingAfter
        <3>2. Agreed(k + 1) = Agreed(k)
            BY <2>2, <2>5, <2>6, <2>9
        <3> QED
            BY <1>4, <2>1, <2>7, <3>1, <3>2
    <2> QED
        BY <2>8, <2>9
<1>5. n \in T
    <2>1. n \in 0..n
        OBVIOUS
    <2> HIDE DEF T
    <2>2. \A k \in 0..n : k \in T
        BY <1>3, <1>4, IntervalInduction
    <2> QED
        BY <2>1, <2>2
<1>6. PICK x \in Nat : x = World.staying[f] /\ Greatest(x, n)
    BY <1>2, <1>5
<1>7. PICK V : V = {0} \cup {e.val : e \in {d \in ToSet(log) : d.kind = "extend" /\ d.id = f}}
    OBVIOUS
<1>8. V = {0} \cup {log[i].val : i \in Agreed(n)}
    BY <1>1, <1>7 DEF ToSet
<1>9. x \in V /\ \A y \in V : x >= y
    <2>1. \A i \in Agreed(n) : log[i].val \in Nat
        BY <1>1 DEF IsEvent
    <2> QED
        BY <1>6, <1>8, <2>1
<1>10. \A z \in V : (\A y \in V : z >= y) => z = x
    <2>1. \A z \in V : z \in Nat
        BY <1>1, <1>8 DEF IsEvent
    <2> QED
        BY <1>9, <2>1
<1>11. Max(V) = x
    BY <1>9, <1>10 DEF Max
<1> QED
    BY <1>6, <1>7, <1>11

\* An agreement to stay late stands (domain/state.py), whoever else agreed to
\* less and in whatever order the words were recorded, for any log the handlers
\* can leave.
THEOREM AgreementsAreKept == AgentsSpec => []AgreementsStand
BY AgreementsFollow, OfficeHolds, PTL DEF OfficeInv

-----------------------------------------------------------------------------
(* Asks and their answers.                                                 *)

AskIds(events) == {e.id : e \in {d \in ToSet(events) : d.kind = "ask"}}

\* An ask that nobody will open again.
Known(events, a) == a \in HoursAgreed \cup AskIds(events)

\* It was opened before that moment, whenever that was.
Before(events, a, at) == \A e \in ToSet(events) : e.kind = "ask" /\ e.id = a => e.at < at

ClosesOK ==
    \A e \in ToSet(log) :
        /\ e.kind = "ask" => e.id \in 10..9 + served /\ e.at \in 1..clock
        /\ e.kind = "close" => Known(log, e.id) /\ Before(log, e.id, e.at)

AskerOK(t) ==
    Waiting(t) =>
        /\ req[t].kind = "ask" =>
             /\ req[t].id \in 10..9 + served /\ req[t].id \notin AskIds(log)
             /\ \A o \in Threads \ {t} :
                   Waiting(o) /\ req[o].kind = "ask" => req[o].id # req[t].id
        /\ req[t].kind = "close" => Known(log, req[t].id)
        /\ Stamped(t) /\ req[t].kind = "close" => Before(log, req[t].id, req[t].at)
        /\ Stamped(t) /\ req[t].kind = "book" =>
             \A a \in DOMAIN read[t].asks : Known(log, a) /\ Before(log, a, req[t].at)

AsksOK == ClosesOK /\ \A t \in Threads : AskerOK(t)

LEMMA AsksAreKnown == LogOK => \A a \in DOMAIN World.asks : Known(log, a)
<1> SUFFICES ASSUME LogOK PROVE \A a \in DOMAIN World.asks : Known(log, a)
    OBVIOUS
<1>1. PICK n \in Nat : /\ n = Len(log) /\ DOMAIN log = 1..n
                       /\ \A k \in 1..n : IsEvent(log[k]) /\ log[k] \in ToSet(log)
    BY LenProperties, ElementOfSeq DEF LogOK
<1>2. PICK stage : /\ StagesOf(log, stage)
                   /\ \A k \in 0..n : WorldOK(stage[k])
                   /\ World.asks = stage[n].asks
    <2>1. PICK S : S = ToSet(log)
        OBVIOUS
    <2>2. log \in Seq(S) /\ \A e \in S : IsEvent(e)
        BY <2>1 DEF LogOK
    <2> QED
        BY <1>1, <2>2, WorldStages DEF World
<1> DEFINE T == {k \in 0..n : \A a \in DOMAIN stage[k].asks : Known(log, a)}
<1>3. 0 \in T
    BY <1>2 DEF StagesOf, Seed, Known
<1>4. ASSUME NEW k \in 0..n - 1, k \in T PROVE k + 1 \in T
    <2>1. k + 1 \in 1..n /\ k + 1 \in 0..n /\ (k + 1) - 1 = k /\ k \in 0..n
        OBVIOUS
    <2>2. PICK e : e = log[k + 1] /\ IsEvent(e) /\ e \in ToSet(log)
        BY <1>1, <2>1
    <2>3. stage[k + 1] = Apply(stage[k], e) /\ WorldOK(stage[k])
        BY <1>1, <1>2, <2>1, <2>2 DEF StagesOf
    <2>4. stage[k + 1].asks = AsksAfter(stage[k].asks, e)
        BY <2>2, <2>3, ApplyMeans DEF WorldOK, IsEvent
    <2>5. e.kind = "ask" => Known(log, e.id)
        BY <2>2 DEF Known, AskIds
    <2>6. \A a \in DOMAIN stage[k + 1].asks : Known(log, a)
        BY <1>4, <2>4, <2>5 DEF AsksAfter, Put, Without, Restrict
    <2> QED
        BY <2>1, <2>6
<1>5. n \in T
    <2>1. n \in 0..n
        OBVIOUS
    <2> HIDE DEF T
    <2>2. \A k \in 0..n : k \in T
        BY <1>3, <1>4, IntervalInduction
    <2> QED
        BY <2>1, <2>2
<1> QED
    BY <1>2, <1>5

LEMMA ClosedStay == LogOK /\ AsksOK => AnsweredAsksAreClosed
<1> SUFFICES ASSUME LogOK, AsksOK, NEW e \in ToSet(log), e.kind = "close"
             PROVE  e.id \notin DOMAIN World.asks
    BY DEF AnsweredAsksAreClosed
<1>1. PICK n \in Nat : /\ n = Len(log) /\ DOMAIN log = 1..n
                       /\ \A k \in 1..n : IsEvent(log[k]) /\ log[k] \in ToSet(log)
    BY LenProperties, ElementOfSeq DEF LogOK
<1>2. PICK stage : /\ StagesOf(log, stage)
                   /\ \A k \in 0..n : WorldOK(stage[k])
                   /\ World.asks = stage[n].asks
    <2>1. PICK S : S = ToSet(log)
        OBVIOUS
    <2>2. log \in Seq(S) /\ \A d \in S : IsEvent(d)
        BY <2>1 DEF LogOK
    <2> QED
        BY <1>1, <2>2, WorldStages DEF World
<1>3. PICK p \in 1..n : e = log[p]
    BY <1>1 DEF ToSet
<1> DEFINE T == {k \in 0..n : k >= p => e.id \notin DOMAIN stage[k].asks}
<1>4. 0 \in T
    BY <1>1, <1>3
<1>5. ASSUME NEW k \in 0..n - 1, k \in T PROVE k + 1 \in T
    <2>1. k + 1 \in 1..n /\ k + 1 \in 0..n /\ (k + 1) - 1 = k /\ k \in 0..n
        OBVIOUS
    <2>2. PICK d : d = log[k + 1] /\ IsEvent(d) /\ d \in ToSet(log)
        BY <1>1, <2>1
    <2>3. stage[k + 1] = Apply(stage[k], d) /\ WorldOK(stage[k])
        BY <1>1, <1>2, <2>1, <2>2 DEF StagesOf
    <2>4. stage[k + 1].asks = AsksAfter(stage[k].asks, d)
        BY <2>2, <2>3, ApplyMeans DEF WorldOK, IsEvent
    <2>5. CASE k + 1 < p
        BY <2>1, <2>5
    <2>6. CASE k + 1 = p
        <3>1. d = e
            BY <1>3, <2>2, <2>6
        <3>2. e.id \notin DOMAIN stage[k + 1].asks
            BY <2>4, <3>1, <1>3 DEF AsksAfter, Without, Restrict
        <3> QED
            BY <2>1, <3>2
    <2>7. CASE k + 1 > p
        <3>1. e.id \notin DOMAIN stage[k].asks
            BY <1>5, <2>1, <2>7
        <3>2. ~(d.kind = "ask" /\ d.id = e.id)
            <4>1. NotAfter(e, d)
                BY <1>1, <1>3, <2>1, <2>2, <2>7 DEF LogOK, Sorted
            <4>2. e.at \in Nat /\ d.at \in Nat
                BY <1>1, <1>3, <2>2 DEF IsEvent
            <4>3. d.kind = "ask" /\ d.id = e.id => d.at < e.at
                BY <2>2 DEF AsksOK, ClosesOK, Before
            <4> QED
                BY <4>1, <4>2, <4>3 DEF NotAfter
        <3>3. e.id \notin DOMAIN stage[k + 1].asks
            BY <2>4, <3>1, <3>2 DEF AsksAfter, Put, Without, Restrict
        <3> QED
            BY <2>1, <3>3
    <2> QED
        BY <1>3, <2>1, <2>5, <2>6, <2>7
<1>6. n \in T
    <2>1. n \in 0..n
        OBVIOUS
    <2> HIDE DEF T
    <2>2. \A k \in 0..n : k \in T
        BY <1>4, <1>5, IntervalInduction
    <2> QED
        BY <2>1, <2>2
<1> QED
    BY <1>2, <1>3, <1>6

\* What a handler asks for was asked before it stamps.
LEMMA AsksBegin ==
    ASSUME OfficeInv, AsksOK, NEW t \in Threads, Alone(t), Begins(t)
    PROVE  AsksOK'
<1>1. PICK kind, id, val : Warranted(kind, id, val) /\ Begin(t, kind, id, val)
    BY DEF Begins
<1>2. /\ log' = log /\ clock' = clock /\ served' = served + 1 /\ served \in Nat
      /\ step'[t] = "stamp" /\ req'[t].kind = kind /\ req'[t].id = id
    BY <1>1 DEF Begin, OfficeInv, Shape, LogOK
<1>3. \A n \in 10..9 + served : n \in 10..9 + served' /\ n # 10 + served
    BY <1>2
<1>4. ClosesOK'
    BY <1>2, <1>3 DEF AsksOK, ClosesOK
<1>5. kind = "ask" => id = 10 + served /\ id \in 10..9 + served' /\ id \notin AskIds(log)
    <2> HAVE kind = "ask"
    <2>1. id = 10 + served
        BY <1>1 DEF Warranted
    <2>2. id \in 10..9 + served'
        BY <1>2, <2>1
    <2>3. \A e \in ToSet(log) : e.kind = "ask" => e.id \in 10..9 + served
        BY DEF AsksOK, ClosesOK
    <2> QED
        BY <1>3, <2>1, <2>2, <2>3 DEF AskIds
<1>6. kind = "close" => Known(log, id)
    BY <1>1, AsksAreKnown DEF Warranted, OfficeInv
<1>7. ASSUME NEW o \in Threads, o # t
      PROVE  /\ (Waiting(o)' <=> Waiting(o)) /\ (Stamped(o)' <=> Stamped(o))
             /\ req'[o] = req[o] /\ read'[o] = read[o]
    BY <1>7 DEF Waiting, Stamped, Alone
<1>8. ~Stamped(t)'
    BY <1>2 DEF Stamped
<1>9. ASSUME NEW o \in Threads, o # t, Waiting(o), req[o].kind = "ask"
      PROVE  req[o].id \in 10..9 + served'  /\ (kind = "ask" => req[o].id # id)
    BY <1>3, <1>5, <1>9 DEF AsksOK, AskerOK
<1>10. AskerOK(t)'
    BY <1>2, <1>5, <1>6, <1>7, <1>8, <1>9 DEF AskerOK
<1>11. ASSUME NEW o \in Threads, o # t PROVE AskerOK(o)'
    <2>1. AskerOK(o)
        BY DEF AsksOK
    <2>2. ASSUME Waiting(o), req[o].kind = "ask", NEW u \in Threads \ {o},
                 Waiting(u)', req'[u].kind = "ask"
          PROVE  req'[u].id # req[o].id
        <3>1. CASE u = t
            BY <1>2, <1>9, <1>11, <2>2, <3>1
        <3>2. CASE u # t
            BY <1>7, <2>1, <2>2, <3>2 DEF AskerOK
        <3> QED
            BY <3>1, <3>2
    <2> QED
        BY <1>2, <1>7, <1>9, <1>11, <2>1, <2>2 DEF AskerOK
<1> QED
    BY <1>4, <1>10, <1>11 DEF AsksOK

LEMMA AsksStamp ==
    ASSUME OfficeInv, AsksOK, NEW t \in Threads, Alone(t), Stamp(t)
    PROVE  AsksOK'
<1>1. PICK r : r = req[t] /\ RequestOK(r)
    BY DEF OfficeInv, RequestsOK, Waiting, RequestOK, Handled, Stamp
<1>2. /\ log' = log /\ clock' = clock + 1 /\ served' = served /\ clock \in Nat
      /\ step[t] = "stamp" /\ step'[t] = "append"
      /\ req'[t] = [r EXCEPT !.at = clock + 1]
      /\ read'[t] = IF r.kind = "book" THEN World ELSE read[t]
    BY <1>1 DEF Stamp, OfficeInv, Shape, LogOK
<1>3. req'[t].kind = r.kind /\ req'[t].id = r.id /\ req'[t].at = clock + 1 /\ r.kind # "accept"
    BY <1>1, <1>2 DEF RequestOK, Handled
<1>4. Waiting(t) /\ Waiting(t)'
    BY <1>1, <1>2, <1>3 DEF Waiting
<1>5. \A a : Before(log, a, clock + 1)
    BY <1>2 DEF AsksOK, ClosesOK, Before
<1>6. ASSUME NEW o \in Threads, o # t
      PROVE  /\ (Waiting(o)' <=> Waiting(o)) /\ (Stamped(o)' <=> Stamped(o))
             /\ req'[o] = req[o] /\ read'[o] = read[o]
    BY <1>6 DEF Waiting, Stamped, Alone
<1>7. ClosesOK'
    <2>1. \A n \in 1..clock : n \in 1..clock'
        BY <1>2
    <2> QED
        BY <1>2, <2>1 DEF AsksOK, ClosesOK
<1>8. \A o \in Threads : /\ (Waiting(o)' <=> Waiting(o))
                         /\ req'[o].kind = req[o].kind /\ req'[o].id = req[o].id
    BY <1>1, <1>3, <1>4, <1>6
<1>9. AskerOK(t)'
    <2>1. \A a \in DOMAIN World.asks : Known(log, a)
        BY AsksAreKnown DEF OfficeInv
    <2>2. AskerOK(t)
        BY DEF AsksOK
    <2> QED
        BY <1>1, <1>2, <1>3, <1>4, <1>5, <1>8, <2>1, <2>2 DEF AskerOK
<1>10. ASSUME NEW o \in Threads, o # t PROVE AskerOK(o)'
    <2>1. AskerOK(o)
        BY DEF AsksOK
    <2> QED
        BY <1>2, <1>6, <1>8, <1>10, <2>1 DEF AskerOK
<1> QED
    BY <1>7, <1>9, <1>10 DEF AsksOK

LEMMA AsksRecord ==
    ASSUME OfficeInv, AsksOK, NEW t \in Threads, Alone(t), Records(t)
    PROVE  AsksOK'
<1>1. PICK b : /\ step[t] = "append" /\ log' \in AllInserted(log, b)
               /\ (Stamped(t) => b = Batch(req[t], read[t])) /\ (~Stamped(t) => Reviewed(b))
               /\ b \in Seq(ToSet(b)) /\ (\A e \in ToSet(b) : IsEvent(e))
               /\ step'[t] = "publish" /\ UNCHANGED <<clock, served, req>>
    BY RecordsMeans
<1>2. ToSet(log) \subseteq ToSet(log') /\ ToSet(log') \subseteq ToSet(log) \cup ToSet(b)
    <2>1. log \in Seq(ToSet(log)) /\ Sorted(log)
        BY DEF OfficeInv, LogOK
    <2> QED
        BY <1>1, <2>1, AppendedMeans
<1>3. PICK r, w : r = req[t] /\ w = read[t]
    OBVIOUS
<1>4. ASSUME NEW e \in ToSet(b), e.kind = "ask" \/ e.kind = "close"
      PROVE  /\ Stamped(t) /\ r.at \in 1..clock /\ e.at = r.at
             /\ e.kind = "ask" => r.kind = "ask" /\ e.id = r.id
             /\ e.kind = "close" => \/ r.kind = "close" /\ e.id = r.id
                                    \/ r.kind = "book" /\ e.id \in DOMAIN w.asks
    <2>1. e.kind \notin Words
        BY <1>4, WordsAreNotHandled DEF Handled
    <2>2. Stamped(t)
        BY <1>1, <2>1 DEF Reviewed
    <2>3. RequestOK(r) /\ r.at \in 1..clock /\ r.at \in Nat /\ WorldOK(w)
        <3>1. Waiting(t) /\ clock \in Nat
            BY <2>2 DEF Waiting, Stamped, OfficeInv, LogOK
        <3> QED
            BY <1>3, <2>2, <3>1 DEF OfficeInv, RequestsOK, ReadsOK
    <2>4. /\ r.kind = "said" => e.kind \in Words
          /\ r.kind # "said" => e.at = r.at
          /\ r.kind = "book" => e.kind = "book" \/ (e.kind = "close" /\ e.id \in DOMAIN w.asks)
          /\ r.kind \notin {"book", "said"} => e.kind = r.kind /\ e.id = r.id /\ e.val = r.val
        BY <1>1, <1>3, <2>2, <2>3, BatchMeans
    <2> QED
        BY <1>4, <2>1, <2>2, <2>3, <2>4
<1>5. Stamped(t) => /\ Waiting(t)
                    /\ r.kind = "ask" => r.id \in 10..9 + served /\ r.id \notin AskIds(log)
                    /\ r.kind = "close" => Known(log, r.id) /\ Before(log, r.id, r.at)
                    /\ r.kind = "book" => \A a \in DOMAIN w.asks :
                                             Known(log, a) /\ Before(log, a, r.at)
    BY <1>3 DEF AsksOK, AskerOK, Waiting, Stamped
<1>6. ASSUME NEW a, Known(log, a), NEW e \in ToSet(b), e.kind = "ask" PROVE e.id # a
    <2>1. Stamped(t) /\ r.kind = "ask" /\ e.id = r.id
        BY <1>4, <1>6
    <2>2. HoursAgreed \subseteq 1..9 /\ served \in Nat
        BY OfficeConstants DEF OfficeInv, LogOK
    <2> QED
        BY <1>5, <1>6, <2>1, <2>2 DEF Known
<1>7. \A a : Known(log, a) => Known(log', a)
    BY <1>2 DEF Known, AskIds
<1>8. \A a, at : Known(log, a) /\ Before(log, a, at) => Before(log', a, at)
    BY <1>2, <1>6 DEF Before
<1>9. ClosesOK'
    <2>1. ASSUME NEW e \in ToSet(log')
          PROVE  /\ e.kind = "ask" => e.id \in 10..9 + served /\ e.at \in 1..clock
                 /\ e.kind = "close" => Known(log', e.id) /\ Before(log', e.id, e.at)
        <3>1. CASE e \in ToSet(log)
            BY <1>7, <1>8, <3>1 DEF AsksOK, ClosesOK
        <3>2. CASE e \in ToSet(b)
            BY <1>4, <1>5, <1>7, <1>8, <3>2
        <3> QED
            BY <1>2, <3>1, <3>2
    <2> QED
        BY <1>1, <2>1 DEF ClosesOK
<1>10. ~Waiting(t)' /\ req' = req
    BY <1>1 DEF Waiting
<1>11. ASSUME NEW o \in Threads, Waiting(o)'
       PROVE  /\ o # t /\ Waiting(o) /\ (Stamped(o)' <=> Stamped(o)) /\ read'[o] = read[o]
    BY <1>10, <1>11 DEF Waiting, Stamped, Alone
<1>12. ASSUME NEW o \in Threads, Waiting(o)' PROVE AskerOK(o)'
    <2>1. o # t /\ Waiting(o) /\ AskerOK(o) /\ AskerOK(t)
        BY <1>11, <1>12 DEF AsksOK
    <2>2. req[o].kind = "ask" => req[o].id \notin AskIds(log')
        <3> SUFFICES ASSUME req[o].kind = "ask", NEW e \in ToSet(log'), e.kind = "ask"
                     PROVE  req[o].id # e.id
            BY DEF AskIds
        <3>1. CASE e \in ToSet(log)
            BY <2>1, <3>1 DEF AskerOK, AskIds
        <3>2. CASE e \in ToSet(b)
            <4>1. Stamped(t) /\ r.kind = "ask" /\ e.id = r.id
                BY <1>4, <3>2
            <4> QED
                BY <1>3, <1>5, <2>1, <4>1 DEF AskerOK
        <3> QED
            BY <1>2, <3>1, <3>2
    <2> QED
        BY <1>1, <1>7, <1>8, <1>11, <1>12, <2>1, <2>2 DEF AskerOK
<1>13. \A o \in Threads : AskerOK(o)'
    BY <1>12 DEF AskerOK
<1> QED
    BY <1>9, <1>13 DEF AsksOK

\* A step that leaves the log and the waiting requests alone.
LEMMA AsksElsewhere ==
    ASSUME AsksOK, log' = log, clock' = clock, served \in Nat,
           served' = served \/ served' = served + 1,
           \A o \in Threads : Waiting(o)' =>
               Waiting(o) /\ (Stamped(o)' <=> Stamped(o)) /\ req'[o] = req[o] /\ read'[o] = read[o]
    PROVE  AsksOK'
<1>1. \A n \in 10..9 + served : n \in 10..9 + served'
    OBVIOUS
<1>2. ClosesOK'
    BY <1>1 DEF AsksOK, ClosesOK
<1>3. ASSUME NEW o \in Threads PROVE AskerOK(o)'
    <2>1. AskerOK(o)
        BY DEF AsksOK
    <2> QED
        BY <1>1, <2>1 DEF AskerOK
<1> QED
    BY <1>2, <1>3 DEF AsksOK

LEMMA AsksContinue ==
    ASSUME OfficeInv, AsksOK, [AgentsNext]_agentsVars PROVE AsksOK'
<1>1. StepKinds /\ served \in Nat
    BY StepsAreOfAKind DEF OfficeInv, LogOK
<1>2. CASE UNCHANGED recordVars \/ UNCHANGED officeVars
    <2>1. UNCHANGED <<log, clock, served, step, req, read>>
        BY <1>2 DEF officeVars, recordVars
    <2>2. \A o \in Threads : Waiting(o)' =>
              Waiting(o) /\ (Stamped(o)' <=> Stamped(o)) /\ req'[o] = req[o] /\ read'[o] = read[o]
        BY <2>1 DEF Waiting, Stamped
    <2> QED
        BY <1>1, <2>1, <2>2, AsksElsewhere
<1>3. ASSUME NEW t \in Threads, Alone(t), Otherwise(t) PROVE AsksOK'
    <2>1. \A o \in Threads : Waiting(o)' =>
              Waiting(o) /\ (Stamped(o)' <=> Stamped(o)) /\ req'[o] = req[o] /\ read'[o] = read[o]
        BY <1>3 DEF Waiting, Stamped, Alone, Otherwise
    <2> QED
        BY <1>1, <1>3, <2>1, AsksElsewhere DEF Otherwise
<1>4. ASSUME NEW t \in Threads, Alone(t), AcceptTriage(t) PROVE AsksOK'
    <2>1. /\ log' = log /\ clock' = clock /\ served' = served + 1
          /\ req'[t].kind = "accept"
        BY <1>4 DEF AcceptTriage, Take, OfficeInv, Shape
    <2>2. \A o \in Threads : Waiting(o)' =>
              Waiting(o) /\ (Stamped(o)' <=> Stamped(o)) /\ req'[o] = req[o] /\ read'[o] = read[o]
        BY <1>4, <2>1 DEF Waiting, Stamped, Alone
    <2> QED
        BY <1>1, <2>1, <2>2, AsksElsewhere
<1> QED
    BY <1>1, <1>2, <1>3, <1>4, AsksBegin, AsksStamp, AsksRecord DEF StepKinds

\* No ask stays lit that the handler of its caller's booking saw open, nor one
\* whose Resolve button was pressed (api/main.py): its close is stamped after
\* it was opened, and nobody opens it again.
THEOREM AsksAreResolved == AgentsSpec => []AnsweredAsksAreClosed
<1>1. AgentsInit => AsksOK
    <2> SUFFICES ASSUME AgentsInit PROVE AsksOK
        OBVIOUS
    <2>1. log = <<>> /\ \A t \in Threads : step[t] = "idle"
        BY DEF AgentsInit, OfficeInit
    <2>2. ToSet(log) = {} /\ \A t \in Threads : ~Waiting(t)
        BY <2>1 DEF ToSet, Waiting
    <2> QED
        BY <2>2 DEF AsksOK, ClosesOK, AskerOK
<1>2. OfficeInv /\ AsksOK /\ [AgentsNext]_agentsVars => AsksOK'
    BY AsksContinue
<1>3. OfficeInv /\ AsksOK => AnsweredAsksAreClosed
    BY ClosedStay DEF OfficeInv
<1> QED
    BY <1>1, <1>2, <1>3, OfficeHolds, PTL DEF AgentsSpec

-----------------------------------------------------------------------------
(* The loop.                                                               *)

\* The handlers of the agents are callers of extract and of nothing else: what
\* is proved of the loop holds under them, whichever questions the router,
\* triage, the coordinator and the letters ask at the same time.
THEOREM AgentsAskThroughTheLoop == AgentsSpec => StructuredSpec
<1>1. AgentsInit => StructuredInit
    BY DEF AgentsInit
<1>2. [AgentsNext]_agentsVars => [StructuredNext]_callVars
    <2> SUFFICES ASSUME [AgentsNext]_agentsVars PROVE [StructuredNext]_callVars
        OBVIOUS
    <2>1. Callers = Threads
        BY AgentsConstants
    <2>2. CASE OfficeStep \/ UNCHANGED agentsVars
        BY <2>2 DEF OfficeStep, agentsVars
    <2>3. ASSUME NEW t \in Threads, AgentStep(t) PROVE Extract(t) \/ UNCHANGED callVars
        BY <2>3 DEF AgentStep, ReadNote, Routed, Triaged, AcceptTriage, RecordAccepted,
                    ChooseRepair, Chose, DraftMessages, Wrote, Ask
    <2>4. ASSUME NEW t \in Threads, ModelStep(t) PROVE ModelReplies(t)
        BY <2>4 DEF ModelStep, ModelReplies
    <2> QED
        BY <2>1, <2>2, <2>3, <2>4 DEF AgentsNext, StructuredNext
<1> QED
    BY <1>1, <1>2, PTL DEF AgentsSpec, StructuredSpec

\* So what it answers them is one of what Extraction allows.
THEOREM AgentsGetExtractions == AgentsSpec => ImplementsExtraction
BY AgentsAskThroughTheLoop, ExtractionImplemented, PTL

\* And each is told the attempts that were made, no more and no fewer.
THEOREM AgentsCountAttempts == AgentsSpec => []AttemptsAreAccountedFor
BY AgentsAskThroughTheLoop, AttemptsAccountedFor, PTL

-----------------------------------------------------------------------------
(* Repairs and messages.                                                   *)

\* A diff has one change per job, and there are finitely many.
LEMMA ChangesAreFinite ==
    ASSUME NEW before, NEW after, NEW jobs,
           IsFiniteSet(DOMAIN before), IsFiniteSet(DOMAIN after)
    PROVE  /\ IsFiniteSet(Diff(before, after, jobs))
           /\ \A c \in Diff(before, after, jobs) : c = ChangeOf(c.job, before, after, jobs)
<1> DEFINE S == DOMAIN before \cup DOMAIN after
           T == {ChangeOf(j, before, after, jobs) : j \in S}
           f == [j \in S |-> ChangeOf(j, before, after, jobs)]
<1>1. IsFiniteSet(S)
    BY FS_Union
<1>2. f \in Surjection(S, T)
    BY DEF Surjection
<1>3. IsFiniteSet(T)
    <2> HIDE DEF S, T, f
    <2> QED
        BY <1>1, <1>2, FS_Surjection
<1>4. Diff(before, after, jobs) \in SUBSET T
    BY DEF Diff
<1>5. IsFiniteSet(Diff(before, after, jobs))
    <2> HIDE DEF T
    <2> QED
        BY <1>3, <1>4, FS_Subset
<1>6. \A j : ChangeOf(j, before, after, jobs).job = j
    BY DEF ChangeOf
<1>7. \A c \in Diff(before, after, jobs) : c = ChangeOf(c.job, before, after, jobs)
    BY <1>4, <1>6
<1> QED
    BY <1>5, <1>7

\* What Better compares: calls, visits, changes.
Counted(o) ==
    /\ Cardinality(Visible(o.diff)) \in Nat /\ o.served \in Nat /\ Cardinality(o.diff) \in Nat

LEMMA BetterIsTotal ==
    ASSUME NEW a, NEW b, Counted(a), Counted(b)
    PROVE  Better(a, b) \/ Better(b, a)
BY DEF Counted, Better

LEMMA BetterIsTransitive ==
    ASSUME NEW a, NEW b, NEW c, Counted(a), Counted(b), Counted(c), Better(a, b), Better(b, c)
    PROVE  Better(a, c)
BY DEF Counted, Better

\* There is a recommendation: the first of the best.
LEMMA DefaultIsThere ==
    ASSUME NEW n \in Nat \ {0}, NEW options, DOMAIN options = 1..n,
           \A i \in 1..n : Counted(options[i])
    PROVE  Default(options) \in 1..n
<1> DEFINE Best(i, k) == /\ \A j \in 1..k : Better(options[i], options[j])
                         /\ \A j \in 1..i - 1 : ~Better(options[j], options[i])
           S == {k \in 0..n : k = 0 \/ \E i \in 1..k : Best(i, k)}
<1>1. \A i, j \in 1..n : Better(options[i], options[j]) \/ Better(options[j], options[i])
    BY BetterIsTotal
<1>2. \A i, j, k \in 1..n : Better(options[i], options[j]) /\ Better(options[j], options[k])
                              => Better(options[i], options[k])
    BY BetterIsTransitive
<1>3. ASSUME NEW k \in 0..n - 1, k \in S PROVE k + 1 \in S
    <2>1. k + 1 \in 1..n /\ k + 1 \in 0..n /\ k + 1 \in 1..k + 1
        OBVIOUS
    <2>2. CASE k = 0
        <3>1. Best(1, 1)
            BY <1>1
        <3> QED
            BY <2>1, <2>2, <3>1
    <2>3. CASE k # 0
        <3>1. PICK i \in 1..k : Best(i, k)
            BY <1>3, <2>3
        <3>2. i \in 1..n /\ i \in 1..k + 1
            OBVIOUS
        <3>3. CASE Better(options[i], options[k + 1])
            <4>1. Best(i, k + 1)
                BY <3>1, <3>3
            <4> QED
                BY <2>1, <3>2, <4>1
        <3>4. CASE ~Better(options[i], options[k + 1])
            <4>1. Better(options[k + 1], options[i])
                BY <1>1, <2>1, <3>2, <3>4
            <4>2. \A j \in 1..k + 1 : Better(options[k + 1], options[j])
                <5>1. \A j \in 1..k : j \in 1..n /\ Better(options[i], options[j])
                    BY <3>1
                <5>2. \A j \in 1..k : Better(options[k + 1], options[j])
                    BY <1>2, <2>1, <3>2, <4>1, <5>1
                <5>3. Better(options[k + 1], options[k + 1])
                    BY <1>1, <2>1
                <5> QED
                    BY <5>2, <5>3
            <4>3. \A j \in 1..k : ~Better(options[j], options[k + 1])
                <5> SUFFICES ASSUME NEW j \in 1..k, Better(options[j], options[k + 1]) PROVE FALSE
                    OBVIOUS
                <5>1. j \in 1..n /\ Better(options[i], options[j])
                    BY <3>1
                <5> QED
                    BY <1>2, <2>1, <3>2, <3>4, <5>1
            <4>4. Best(k + 1, k + 1)
                BY <4>2, <4>3
            <4> QED
                BY <2>1, <4>4
        <3> QED
            BY <3>3, <3>4
    <2> QED
        BY <2>2, <2>3
<1>4. n \in S
    <2>1. 0 \in S /\ n \in Nat /\ n \in 0..n
        OBVIOUS
    <2> HIDE DEF S
    <2> QED
        BY <1>3, <2>1, IntervalInduction
<1>5. \E i \in DOMAIN options : Best(i, n)
    BY <1>4
<1>6. Default(options) \in DOMAIN options
    BY <1>5 DEF Default
<1> QED
    BY <1>6

\* The options a dispatcher chooses among.
LEMMA OptionsAreCounted ==
    ASSUME NEW week \in Weeks
    PROVE  /\ DOMAIN OptionsOf(week) = DOMAIN week.options
           /\ \E n \in Nat \ {0} : DOMAIN week.options = 1..n
           /\ \A i \in DOMAIN week.options :
                 /\ OptionsOf(week)[i] = Option(week, week.options[i])
                 /\ IsFiniteSet(DOMAIN week.options[i].plan)
                 /\ Counted(OptionsOf(week)[i])
<1>1. /\ IsFiniteSet(DOMAIN week.plan)
      /\ week.options # <<>> /\ week.options \in Seq(ToSet(week.options))
      /\ \A option \in ToSet(week.options) : IsFiniteSet(DOMAIN option.plan)
    BY AgentsConstants
<1>2. DOMAIN OptionsOf(week) = DOMAIN week.options
    BY DEF OptionsOf
<1>3. PICK n \in Nat : DOMAIN week.options = 1..n /\ n = Len(week.options)
    BY <1>1, LenProperties
<1>4. n # 0
    BY <1>1, <1>3, EmptySeq
<1>5. ASSUME NEW i \in DOMAIN week.options
      PROVE  /\ OptionsOf(week)[i] = Option(week, week.options[i])
             /\ IsFiniteSet(DOMAIN week.options[i].plan)
             /\ Counted(OptionsOf(week)[i])
    <2>1. PICK o : o = week.options[i]
        OBVIOUS
    <2>2. o \in ToSet(week.options)
        BY <2>1 DEF ToSet
    <2>3. PICK p : p = Option(week, o)
        OBVIOUS
    <2>4. p.diff = Diff(week.plan, o.plan, week.jobs) /\ p.served = Cardinality(DOMAIN o.plan)
        BY <2>3 DEF Option
    <2>5. IsFiniteSet(DOMAIN o.plan) /\ IsFiniteSet(p.diff)
        BY <1>1, <2>2, <2>4, ChangesAreFinite
    <2>6. Visible(p.diff) \in SUBSET p.diff
        BY DEF Visible
    <2>7. Counted(p)
        BY <2>4, <2>5, <2>6, FS_Subset, FS_CardinalityType DEF Counted
    <2>8. OptionsOf(week)[i] = p
        BY <2>1, <2>3 DEF OptionsOf
    <2> QED
        BY <2>1, <2>3, <2>5, <2>7, <2>8
<1> QED
    BY <1>2, <1>3, <1>4, <1>5

\* Whatever the model names, one of them is chosen.
LEMMA ChosenIsAnOption ==
    ASSUME NEW week \in Weeks, NEW name
    PROVE  \E i \in DOMAIN week.options :
              Chosen(OptionsOf(week), name) = Option(week, week.options[i])
<1>1. PICK options : options = OptionsOf(week)
    OBVIOUS
<1>2. PICK n \in Nat \ {0} : DOMAIN week.options = 1..n
    BY OptionsAreCounted
<1>3. DOMAIN options = 1..n /\ \A i \in 1..n : Counted(options[i])
    BY <1>1, <1>2, OptionsAreCounted
<1>4. Default(options) \in 1..n
    BY <1>3, DefaultIsThere
<1>5. PICK named : named = {i \in DOMAIN options : options[i].name = name}
    OBVIOUS
<1>6. named # {} => Max(named) \in named
    BY <1>3, <1>5, MaxIsIn
<1>7. PICK i \in 1..n : i = IF named = {} THEN Default(options) ELSE Max(named)
    BY <1>3, <1>4, <1>5, <1>6
<1>8. Chosen(options, name) = options[i]
    BY <1>5, <1>7 DEF Chosen
<1> QED
    BY <1>1, <1>2, <1>8, OptionsAreCounted

\* A change nobody would notice keeps the promise.
LEMMA InvisibleKeepsPromises ==
    ASSUME NEW before, NEW after, NEW jobs, NEW j \in DOMAIN before \cap DOMAIN jobs,
           jobs[j].state \in Promised, Visible(Diff(before, after, jobs)) = {}
    PROVE  /\ j \in DOMAIN after /\ after[j].day = before[j].day
           /\ after[j].arrival # before[j].arrival =>
                 /\ jobs[j].state = "confirmed"
                 /\ jobs[j].opens <= after[j].arrival /\ after[j].departure <= jobs[j].closes
<1>1. PICK c : c = ChangeOf(j, before, after, jobs)
    OBVIOUS
<1>2. /\ c.kind = KindOf(j, before, after) /\ c.state = jobs[j].state
      /\ c.after = VisitIn(after, j)
      /\ c.promise = IF jobs[j].state = "confirmed" THEN {<<jobs[j].opens, jobs[j].closes>>} ELSE {}
    BY <1>1 DEF ChangeOf
<1>3. c.kind # Same => ~CustomerVisible(c)
    BY <1>1 DEF Visible, Diff
<1>4. /\ c.kind \notin {"dropped", "rescheduled"}
      /\ c.kind = "retimed" => \E w \in c.promise, v \in c.after : Within(v, w)
    BY <1>2, <1>3 DEF CustomerVisible, Same
<1>5. j \in DOMAIN after
    BY <1>2, <1>4 DEF KindOf
<1>6. c.kind = Classify(before[j], after[j]) /\ c.after = {after[j]}
    BY <1>2, <1>5 DEF KindOf, VisitIn
<1>7. after[j].day = before[j].day
    BY <1>4, <1>6 DEF Classify
<1>8. ASSUME after[j].arrival # before[j].arrival
      PROVE  /\ jobs[j].state = "confirmed"
             /\ jobs[j].opens <= after[j].arrival /\ after[j].departure <= jobs[j].closes
    <2>1. c.kind = "retimed"
        BY <1>6, <1>7, <1>8 DEF Classify
    <2>2. PICK w \in c.promise, v \in c.after : Within(v, w)
        BY <1>4, <2>1
    <2>3. jobs[j].state = "confirmed" /\ w = <<jobs[j].opens, jobs[j].closes>> /\ v = after[j]
        BY <1>2, <1>6, <2>2
    <2> QED
        BY <2>2, <2>3 DEF Within
<1> QED
    BY <1>5, <1>7, <1>8

\* Drafts that may be sent are for the customers affected, and every reading of
\* the clock they show is one of the change they are about.
LEMMA SafeDraftsAreSupported ==
    ASSUME NEW before, NEW after, NEW jobs, NEW diff, diff = Diff(before, after, jobs),
           NEW drafts, SafeToSend(drafts, diff),
           \A c \in diff : c = ChangeOf(c.job, before, after, jobs)
    PROVE  /\ {d.job : d \in drafts} = {c.job : c \in {x \in diff : CustomerVisible(x)}}
           /\ \A d \in drafts, c \in diff : d.job = c.job =>
                \A w \in d.seen : w[1] = "clock" => Supported(c, w)
<1>1. Addressed(drafts) = Affected(diff) /\ Addressed(Unsupported(drafts, diff)) = {}
    BY DEF SafeToSend, Issues
<1>2. \A d \in drafts : \A c \in Visible(diff) : c.job = d.job => d.seen \subseteq Allowed(c)
    BY <1>1 DEF Addressed, Unsupported
<1>3. ASSUME NEW d \in drafts, NEW c \in diff, d.job = c.job, NEW w \in d.seen, w[1] = "clock"
      PROVE  Supported(c, w)
    <2>1. PICK x \in Visible(diff) : x.job = d.job
        BY <1>1, <1>3 DEF Addressed, Affected
    <2>2. x = c
        BY <1>3, <2>1 DEF Visible
    <2>3. w \in Allowed(c)
        BY <1>2, <1>3, <2>1, <2>2
    <2>4. \/ \E v \in c.before \cup c.after : w \in Readings(v.day, v.arrival)
          \/ \E v \in c.before, p \in c.promise, i \in 1..2 : w \in Readings(v.day, p[i])
        BY <2>3 DEF Allowed
    <2>5. \A day, hour : w \in Readings(day, hour) => w[2] = hour
        BY <1>3 DEF Readings
    <2>6. CASE \E v \in c.before \cup c.after : w \in Readings(v.day, v.arrival)
        BY <2>5, <2>6 DEF Supported
    <2>7. CASE \E v \in c.before, p \in c.promise, i \in 1..2 : w \in Readings(v.day, p[i])
        <3>1. PICK v \in c.before, p \in c.promise, i \in 1..2 : w \in Readings(v.day, p[i])
            BY <2>7
        <3>2. w[2] = p[i] /\ (i = 1 \/ i = 2)
            BY <2>5, <3>1
        <3> QED
            BY <3>2 DEF Supported
    <2> QED
        BY <2>4, <2>6, <2>7
<1> QED
    BY <1>1, <1>3 DEF Addressed, Affected, Visible

\* A request is a record; a choice is made for a week, and messages are written
\* about the changes one of its options makes.
IsRequest(r) == r = [kind |-> r.kind, id |-> r.id, val |-> r.val, at |-> r.at, n |-> r.n]

IsDiff(val) == \E week \in Weeks : \E i \in DOMAIN week.options : val = OptionsOf(week)[i].diff

Reviews(t) ==
    /\ IsRequest(req[t])
    /\ step[t] = "CoordinatorChoice" => req[t].val \in Weeks
    /\ step[t] = "CommsOutput" => IsDiff(req[t].val)

ReviewsOK == \A t \in Threads : Reviews(t)

LEMMA AsksAreReviews ==
    ASSUME Shape, ReviewsOK, NEW t \in Threads, NEW schema, NEW why, Ask(t, schema, why),
           schema = "CoordinatorChoice" => why \in Weeks,
           schema = "CommsOutput" => IsDiff(why)
    PROVE  ReviewsOK'
<1>1. PICK r : r = [req[t] EXCEPT !.kind = schema, !.val = why]
    OBVIOUS
<1>2. IsRequest(req[t])
    BY DEF ReviewsOK, Reviews
<1>3. IsRequest(r) /\ r.val = why
    BY <1>1, <1>2 DEF IsRequest
<1>4. req'[t] = r /\ step'[t] = schema
    BY <1>1 DEF Ask, Shape
<1>5. \A o \in Threads \ {t} : req'[o] = req[o] /\ step'[o] = step[o]
    BY DEF Ask, Shape
<1>6. Reviews(t)'
    BY <1>3, <1>4 DEF Reviews
<1>7. \A o \in Threads \ {t} : Reviews(o)'
    BY <1>5 DEF ReviewsOK, Reviews
<1> QED
    BY <1>6, <1>7 DEF ReviewsOK

LEMMA OtherStepsKeepReviews ==
    ASSUME ReviewsOK, NEW t \in Threads,
           step'[t] \notin {"CoordinatorChoice", "CommsOutput"}, IsRequest(req'[t]),
           \A o \in Threads \ {t} : req'[o] = req[o] /\ step'[o] = step[o]
    PROVE  ReviewsOK'
<1>1. Reviews(t)'
    BY DEF Reviews
<1>2. \A o \in Threads \ {t} : Reviews(o)'
    BY DEF ReviewsOK, Reviews
<1> QED
    BY <1>1, <1>2 DEF ReviewsOK

LEMMA EndsKeepReviews ==
    ASSUME Shape, ReviewsOK, NEW t \in Threads, EndRequest(t)
    PROVE  ReviewsOK'
<1>1. step'[t] = "idle" /\ req'[t] = NoReq
    BY DEF EndRequest, Shape
<1>2. \A o \in Threads \ {t} : req'[o] = req[o] /\ step'[o] = step[o]
    BY DEF EndRequest, Shape
<1>3. IsRequest(NoReq)
    BY DEF IsRequest, NoReq
<1> QED
    BY <1>1, <1>2, <1>3, OtherStepsKeepReviews

LEMMA HandlersKeepReviews ==
    ASSUME Shape, ReviewsOK, NEW t \in Threads, Handler(t)
    PROVE  ReviewsOK'
<1> USE DEF Shape
<1>1. CASE Begins(t)
    <2>1. PICK kind, id, val : Begin(t, kind, id, val)
        BY <1>1 DEF Begins
    <2>2. PICK r : r = [kind |-> kind, id |-> id, val |-> val, at |-> 0, n |-> served']
        OBVIOUS
    <2>3. req'[t] = r /\ step'[t] = "stamp"
        BY <2>1, <2>2 DEF Begin
    <2>4. IsRequest(r)
        BY <2>2 DEF IsRequest
    <2>5. \A o \in Threads \ {t} : req'[o] = req[o] /\ step'[o] = step[o]
        BY <2>1 DEF Begin
    <2> QED
        BY <2>3, <2>4, <2>5, OtherStepsKeepReviews
<1>2. CASE Stamp(t)
    <2>1. PICK r : r = [req[t] EXCEPT !.at = clock']
        OBVIOUS
    <2>2. req'[t] = r /\ step'[t] = "append"
        BY <1>2, <2>1 DEF Stamp
    <2>3. IsRequest(req[t])
        BY DEF ReviewsOK, Reviews
    <2>4. IsRequest(r)
        BY <2>1, <2>3 DEF IsRequest
    <2>5. \A o \in Threads \ {t} : req'[o] = req[o] /\ step'[o] = step[o]
        BY <1>2 DEF Stamp
    <2> QED
        BY <2>2, <2>4, <2>5, OtherStepsKeepReviews
<1>3. CASE Record(t) \/ Publish(t)
    <2>1. /\ step'[t] \in {"publish", "telling"} /\ req' = req
          /\ \A o \in Threads \ {t} : step'[o] = step[o]
        BY <1>3 DEF Record, AppendBatch, Publish
    <2>2. IsRequest(req'[t])
        BY <2>1 DEF ReviewsOK, Reviews
    <2> QED
        BY <2>1, <2>2, OtherStepsKeepReviews
<1>4. CASE \E b \in Boards : Tell(t, b)
    BY <1>4 DEF Tell, recordVars, ReviewsOK, Reviews
<1>5. CASE Answer(t) \/ Die(t)
    BY <1>5, EndsKeepReviews DEF Answer, Die
<1> QED
    BY <1>1, <1>2, <1>3, <1>4, <1>5, HandlersBegin DEF Handler

LEMMA AgentsKeepReviews ==
    ASSUME Shape, ReviewsOK, NEW t \in Threads, AgentStep(t)
    PROVE  ReviewsOK'
<1> USE DEF Shape
<1>1. CASE ReadNote(t)
    BY <1>1, AsksAreReviews DEF ReadNote
<1>2. CASE Routed(t)
    BY <1>2, AsksAreReviews, EndsKeepReviews DEF Routed, Reply
<1>3. CASE Triaged(t)
    BY <1>3, EndsKeepReviews DEF Triaged, Reply
<1>4. CASE AcceptTriage(t)
    <2>1. PICK r, val : /\ req' = [req EXCEPT ![t] = r]
                        /\ r = [kind |-> "accept", id |-> 0, val |-> val, at |-> 0, n |-> served']
                        /\ step' = [step EXCEPT ![t] = "append"]
        BY <1>4 DEF AcceptTriage
    <2>2. IsRequest(r)
        BY <2>1 DEF IsRequest
    <2>3. req'[t] = r /\ step'[t] = "append"
        BY <2>1
    <2>4. \A o \in Threads \ {t} : req'[o] = req[o] /\ step'[o] = step[o]
        BY <2>1
    <2> QED
        BY <2>2, <2>3, <2>4, OtherStepsKeepReviews
<1>5. CASE RecordAccepted(t)
    <2>1. /\ step'[t] = "publish" /\ req' = req
          /\ \A o \in Threads \ {t} : step'[o] = step[o]
        BY <1>5 DEF RecordAccepted, AppendBatch
    <2>2. IsRequest(req'[t])
        BY <2>1 DEF ReviewsOK, Reviews
    <2> QED
        BY <2>1, <2>2, OtherStepsKeepReviews
<1>6. CASE ChooseRepair(t)
    BY <1>6, AsksAreReviews DEF ChooseRepair
<1>7. CASE Chose(t)
    BY <1>7, EndsKeepReviews DEF Chose, Reply
<1>8. CASE DraftMessages(t)
    <2>1. PICK diff : IsDiff(diff) /\ Ask(t, "CommsOutput", diff)
        BY <1>8 DEF DraftMessages, IsDiff
    <2> QED
        BY <2>1, AsksAreReviews
<1>9. CASE Wrote(t)
    BY <1>9, EndsKeepReviews DEF Wrote, Reply
<1> QED
    BY <1>1, <1>2, <1>3, <1>4, <1>5, <1>6, <1>7, <1>8, <1>9 DEF AgentStep

LEMMA ReviewsContinue ==
    ASSUME Shape, ReviewsOK, [AgentsNext]_agentsVars
    PROVE  ReviewsOK'
<1>1. CASE UNCHANGED recordVars
    BY <1>1 DEF recordVars, ReviewsOK, Reviews
<1>2. CASE OfficeStep
    <2>1. \/ \E t \in Threads : Handler(t)
          \/ UNCHANGED recordVars
        BY <1>2 DEF OfficeStep, OfficeNext, Connect, Receive, Leave
    <2> QED
        BY <1>1, <2>1, HandlersKeepReviews
<1>3. ASSUME NEW t \in Threads, ModelStep(t) PROVE ReviewsOK'
    BY <1>1, <1>3 DEF ModelStep, officeVars
<1> QED
    BY <1>1, <1>2, <1>3, AgentsKeepReviews DEF AgentsNext, agentsVars, officeVars

\* What is said of one answer.
KeepsPromises(r) ==
    r.kind = "repair" /\ r.done =>
        \A j \in DOMAIN r.week.plan \cap DOMAIN r.week.jobs :
            LET job == r.week.jobs[j]  was == r.week.plan[j] IN
            job.state \in Promised =>
                /\ j \in DOMAIN r.plan /\ r.plan[j].day = was.day
                /\ r.plan[j].arrival # was.arrival =>
                     /\ job.state = "confirmed"
                     /\ job.opens <= r.plan[j].arrival /\ r.plan[j].departure <= job.closes

IsSupported(r) ==
    r.kind = "comms" /\ r.safe =>
        /\ {d.job : d \in r.drafts} = {c.job : c \in {x \in r.diff : CustomerVisible(x)}}
        /\ \A d \in r.drafts, c \in r.diff : d.job = c.job =>
             \A w \in d.seen : w[1] = "clock" => Supported(c, w)

AnswersOK == \A r \in inbox : KeepsPromises(r) /\ IsSupported(r)

LEMMA ChoicesKeepPromises ==
    ASSUME ReviewsOK, AnswersOK, NEW t \in Threads, Chose(t)
    PROVE  AnswersOK'
<1>1. PICK week \in Weeks : week = req[t].val
    BY DEF Chose, Said, ReviewsOK, Reviews
<1>2. PICK choice : choice = result[t].value
    OBVIOUS
<1>3. PICK name : name = IF choice = Nothing THEN "" ELSE choice.strategy
    OBVIOUS
<1>4. PICK review : review = (choice # Nothing /\ choice.review)
    OBVIOUS
<1>5. PICK i \in DOMAIN week.options :
          Chosen(OptionsOf(week), name) = Option(week, week.options[i])
    BY ChosenIsAnOption
<1>6. PICK chosen : chosen = Chosen(OptionsOf(week), name)
    OBVIOUS
<1>7. PICK r : r = [kind |-> "repair", done |-> ~NeedsHuman(chosen, review, week.limits),
                    plan |-> chosen.plan, week |-> week]
    OBVIOUS
<1>8. inbox' = inbox \cup {r}
    BY <1>1, <1>2, <1>3, <1>4, <1>6, <1>7 DEF Chose, Reply
<1>9. chosen.plan = week.options[i].plan /\ chosen.diff = Diff(week.plan, chosen.plan, week.jobs)
    BY <1>5, <1>6 DEF Option
<1>10. r.done => Visible(chosen.diff) = {}
    BY <1>7 DEF NeedsHuman, AutoApplies, MustEscalate
<1>11. r.kind = "repair" /\ r.week = week /\ r.plan = chosen.plan
    BY <1>7
<1>12. KeepsPromises(r)
    BY <1>9, <1>10, <1>11, InvisibleKeepsPromises DEF KeepsPromises
<1>13. IsSupported(r)
    BY <1>11 DEF IsSupported
<1> QED
    BY <1>8, <1>12, <1>13 DEF AnswersOK

LEMMA DraftsAreSupported ==
    ASSUME ReviewsOK, AnswersOK, NEW t \in Threads, Wrote(t)
    PROVE  AnswersOK'
<1>1. PICK diff, output : diff = req[t].val /\ output = result[t].value
    OBVIOUS
<1>2. IsDiff(diff)
    BY <1>1 DEF Wrote, Said, ReviewsOK, Reviews
<1>3. PICK week, i : week \in Weeks /\ i \in DOMAIN week.options /\ diff = OptionsOf(week)[i].diff
    BY <1>2 DEF IsDiff
<1>4. PICK o : o = week.options[i]
    OBVIOUS
<1>5. OptionsOf(week)[i] = Option(week, o) /\ IsFiniteSet(DOMAIN o.plan)
    BY <1>3, <1>4, OptionsAreCounted
<1>6. diff = Diff(week.plan, o.plan, week.jobs)
    BY <1>3, <1>5 DEF Option
<1>7. \A c \in diff : c = ChangeOf(c.job, week.plan, o.plan, week.jobs)
    <2>1. IsFiniteSet(DOMAIN week.plan)
        BY <1>3, AgentsConstants
    <2> QED
        BY <1>5, <1>6, <2>1, ChangesAreFinite
<1>8. CASE output = Nothing
    BY <1>1, <1>8 DEF Wrote, Reply, AnswersOK
<1>9. CASE output # Nothing
    <2>1. PICK r : r = [kind |-> "comms", safe |-> SafeToSend(output.drafts, diff),
                        drafts |-> output.drafts, diff |-> diff]
        OBVIOUS
    <2>2. inbox' = inbox \cup {r}
        BY <1>1, <1>9, <2>1 DEF Wrote, Reply
    <2>3. /\ r.kind = "comms" /\ r.drafts = output.drafts /\ r.diff = diff
          /\ r.safe => SafeToSend(output.drafts, diff)
        BY <2>1
    <2>4. IsSupported(r)
        <3>1. ASSUME r.safe
              PROVE  /\ {d.job : d \in output.drafts} = {c.job : c \in {x \in diff : CustomerVisible(x)}}
                     /\ \A d \in output.drafts, c \in diff : d.job = c.job =>
                          \A w \in d.seen : w[1] = "clock" => Supported(c, w)
            <4>1. SafeToSend(output.drafts, diff)
                BY <2>3, <3>1
            <4> QED
                BY <1>6, <1>7, <4>1, SafeDraftsAreSupported
        <3> QED
            BY <2>3, <3>1 DEF IsSupported
    <2>5. KeepsPromises(r)
        BY <2>3 DEF KeepsPromises
    <2> QED
        BY <2>2, <2>4, <2>5 DEF AnswersOK
<1> QED
    BY <1>8, <1>9

LEMMA AnswersContinue ==
    ASSUME ReviewsOK, AnswersOK, [AgentsNext]_agentsVars
    PROVE  AnswersOK'
<1>1. CASE inbox' = inbox
    BY <1>1 DEF AnswersOK
<1>2. CASE OfficeStep
    BY <1>1, <1>2 DEF OfficeStep
<1>3. ASSUME NEW t \in Threads, AgentStep(t) PROVE AnswersOK'
    <2>1. CASE ReadNote(t) \/ AcceptTriage(t) \/ RecordAccepted(t) \/ ChooseRepair(t) \/ DraftMessages(t)
        BY <1>1, <2>1 DEF ReadNote, AcceptTriage, RecordAccepted, ChooseRepair, DraftMessages, Ask
    <2>2. CASE Routed(t)
        <3>1. inbox' = inbox
            BY <2>2 DEF Routed, Ask, Reply
        <3> QED
            BY <1>1, <3>1
    <2>3. CASE Triaged(t)
        <3>1. PICK answers : Reply(t, answers) /\ \A r \in answers : r.kind = "note"
            BY <2>3 DEF Triaged
        <3> QED
            BY <3>1, ZenonT(40) DEF Reply, AnswersOK, KeepsPromises, IsSupported
    <2>4. CASE Chose(t)
        BY <2>4, ChoicesKeepPromises
    <2>5. CASE Wrote(t)
        BY <2>5, DraftsAreSupported
    <2> QED
        BY <1>3, <2>1, <2>2, <2>3, <2>4, <2>5 DEF AgentStep
<1>4. ASSUME NEW t \in Threads, ModelStep(t) PROVE AnswersOK'
    BY <1>1, <1>4 DEF ModelStep
<1> QED
    BY <1>1, <1>2, <1>3, <1>4 DEF AgentsNext, agentsVars

ReviewInv == ReviewsOK /\ AnswersOK

LEMMA ReviewHolds == AgentsSpec => []ReviewInv
<1>1. AgentsInit => ReviewInv
    <2> SUFFICES ASSUME AgentsInit PROVE ReviewInv
        OBVIOUS
    <2>1. inbox = {}
        BY DEF AgentsInit
    <2>2. \A t \in Threads : step[t] = "idle" /\ req[t] = NoReq
        BY DEF AgentsInit, OfficeInit
    <2>3. IsRequest(NoReq)
        BY DEF IsRequest, NoReq
    <2> QED
        BY <2>1, <2>2, <2>3 DEF ReviewInv, ReviewsOK, Reviews, AnswersOK
<1>2. Shape /\ ReviewInv /\ [AgentsNext]_agentsVars => ReviewInv'
    BY ReviewsContinue, AnswersContinue DEF ReviewInv
<1> QED
    BY <1>1, <1>2, ShapeHolds, PTL DEF AgentsSpec

\* AutonomyPolicy and choose_repair: a repair nobody is asked about keeps every
\* promise of the plan it replaces, whatever plans the engine proposes and
\* whatever the model names or fails to name.
THEOREM NobodyIsLetDown == AgentsSpec => []NobodyIsLetDownQuietly
<1>1. ReviewInv => NobodyIsLetDownQuietly
    BY DEF ReviewInv, AnswersOK, KeepsPromises, NobodyIsLetDownQuietly
<1> QED
    BY <1>1, ReviewHolds, PTL

\* verify_grounding: messages that may be sent reach everybody who has to be
\* told and nobody else, and no hour the patterns find in them is invented,
\* whatever the model writes about whatever change, with any part of it found.
THEOREM MessagesMeanWhatHappened == AgentsSpec => []MessagesReachTheAffected
<1>1. ReviewInv => MessagesReachTheAffected
    BY DEF ReviewInv, AnswersOK, IsSupported, MessagesReachTheAffected
<1> QED
    BY <1>1, ReviewHolds, PTL
==============================================================================
