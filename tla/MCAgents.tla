------------------------------ MODULE MCAgents -------------------------------
(* Instances of Agents: what the models can say, and weeks to repair.       *)
EXTENDS Agents

Mix(kinds, requests) == [kinds |-> kinds, requests |-> requests]

MCMixes == {Mix({"van", "dropvan", "depot"}, 3), Mix({"worker", "dropworker", "depot"}, 3),
            Mix({"ask", "extend", "book"}, 3), Mix({"extend", "close"}, 3), Mix({"price", "board"}, 3),
            Mix({"dropvan", "said", "back"}, 2), Mix({"book", "said", "overran", "note"}, 3),
            Mix({"repair"}, 1), Mix({"comms"}, 1)}

NoteMixes == {Mix({"book", "note"}, 3)}
VanMixes == {Mix({"dropvan"}, 2)}
CommsMixes == {Mix({"comms"}, 1)}

Item(word, id, complete, at) == [word |-> word, id |-> id, complete |-> complete, at |-> at]

Note(items, question) == [schema |-> "TriageOutcome", items |-> items, question |-> question]

\* The note cancels a job; says that a van is out and a fitter back; reports an
\* overrun without its minutes; names a job and a van there are not.
MCNotes ==
    {Note(<<Item("cancelled", 501, TRUE, 0)>>, FALSE),
     Note(<<Item("out", 1, TRUE, 9), Item("overran", 501, FALSE, 0)>>, FALSE),
     Note(<<Item("out", 99, TRUE, 0), Item("traffic", 0, TRUE, 0)>>, FALSE),
     Note(<<>>, TRUE)}

MCRoutes == {[schema |-> "NoteRouting", kind |-> k] : k \in {"disruption", "booking"}}

Names == {"least_disruption", "most_jobs", "no_overtime"}
MCChoices == {[schema |-> "CoordinatorChoice", strategy |-> n, review |-> r] :
                n \in Names, r \in BOOLEAN}

\* What a message says, and how much of it the patterns find.
Draft(j, says, seen) == [job |-> j, says |-> says, seen |-> seen]
Plain(j, says) == Draft(j, says, says)
Outputs(drafts) == [schema |-> "CommsOutput", drafts |-> drafts]
MCDrafts ==
    {Outputs(d) : d \in
       {{}, {Plain(1, Readings(1, 4))}, {Plain(1, Readings(1, 7))}, {Plain(2, Readings(1, 6))},
        {Draft(1, Readings(1, 7), {<<"day", 1>>})},
        {Plain(1, Readings(2, 2)), Plain(2, Readings(1, 6))},
        {Plain(1, {}), Plain(2, {})}}}

MCValues == MCNotes \cup MCRoutes \cup MCChoices \cup MCDrafts

Visit(day, crew, arrival) ==
    [day |-> day, crew |-> crew, van |-> crew, arrival |-> arrival, departure |-> arrival + 2]

MCJobs == {1 :> [state |-> s, opens |-> 2, closes |-> 5] @@ 2 :> [state |-> r, opens |-> 0, closes |-> 0] :
             s \in {"confirmed", "dispatched"}, r \in {"provisional", "dispatched"}}

MCPlan == 1 :> Visit(1, "a", 2) @@ 2 :> Visit(1, "b", 2)

MCPlans == {1 :> Visit(d, "a", a) @@ 2 :> Visit(1, c, b) : d \in 1..2, a \in 2..4, c \in {"a", "b"}, b \in {2, 6}}
           \cup {2 :> Visit(1, "b", 2), 1 :> Visit(1, "b", 3)}

MCWeeks ==
    {[jobs |-> jobs, plan |-> MCPlan, limits |-> [cost |-> 1, changes |-> 1],
      options |-> <<[name |-> "least_disruption", plan |-> p, cost |-> c],
                    [name |-> "most_jobs", plan |-> q, cost |-> 0]>>] :
       jobs \in MCJobs, p \in MCPlans, q \in {MCPlan, 1 :> Visit(1, "b", 3)}, c \in {0, 2}}

Symmetry == Permutations(Threads)
=============================================================================
