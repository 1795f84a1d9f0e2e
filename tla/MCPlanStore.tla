----------------------------- MODULE MCPlanStore -----------------------------
(* Three versions, two of which decide the same thing and differ only in    *)
(* their metadata; two ids, so that writers collide on one.                 *)
EXTENDS PlanStore

CONSTANTS w1, w2

MCVersions == {[content |-> "a", meta |-> 1], [content |-> "a", meta |-> 2],
               [content |-> "b", meta |-> 1]}

\* With ConditionalWrites the two accesses of the disk store cannot happen: this
\* is StoreSpec without them.  They are checked in Dispatch, on a JSON workspace.
S3Next ==
    \E w \in Writers :
        \/ ReadHead(w)
        \/ \E id \in Ids, version \in Versions : Begin(w, id, version)
        \/ PutVersion(w) \/ MoveHead(w) \/ LoseResponse(w)
        \/ Crash(w)

S3Spec == StoreInit /\ [][S3Next]_storeVars
=============================================================================
