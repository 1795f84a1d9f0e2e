----------------------------- MODULE MCDispatch ------------------------------
(* Ids are sequences of numbers: <<n>> for v00n, and the strategy's index    *)
(* appended for every repair.                                                *)
EXTENDS Dispatch

CONSTANTS w1, w2, f1, f2

MCIds == UNION {[1..n -> 0..MaxRequests] : n \in 1..MaxRequests}
MCVersions == [parent : MCIds \cup {None},
               content : [minutes : UNION {[js -> 0..MaxOverruns] : js \in SUBSET (1..MaxRequests)},
                          left : SUBSET (1..MaxRequests)]]

\* What a finished handler last read of the head, and how its commit ended, is
\* gone with it: every handler reads the head again before it commits.
MCView == <<handlerVars, stored, head, pc, plan, etag,
            [w \in Writers |-> IF step[w] = "idle" THEN None ELSE seen[w]]>>
MCSymmetry == Permutations({w1, w2}) \cup Permutations({f1, f2})
=============================================================================
