--------------------------- MODULE OptimisticHead ---------------------------
(***************************************************************************)
(* What the PlanStore protocol promises the rest of krama, whichever       *)
(* backend holds the plans: versions that never change once stored, and a  *)
(* head that moves only on behalf of a caller who named the version it is  *)
(* leaving.  A commit is one step here; a refusal changes nothing that     *)
(* another caller can see.                                                 *)
(***************************************************************************)
CONSTANTS Writers,   \* callers of the store: request threads, Lambda invocations, the CLI
          Ids,       \* version identifiers
          Versions,  \* what a version holds
          None       \* "no head yet"

VARIABLES stored,  \* id -> version, for every version ever stored
          head,    \* the id HEAD names, or None
          seen,    \* writer -> the head it last read; what it will name as expected_parent
          reply    \* writer -> how its last commit ended

vars == <<stored, head, seen, reply>>

Replies == {"none", "ok", "conflict", "error"}

Init ==
    /\ stored = [i \in {} |-> None]
    /\ head = None
    /\ seen = [w \in Writers |-> None]
    /\ reply = [w \in Writers |-> "none"]

\* A caller reads the head it is going to work against.
ReadHead(w) ==
    /\ seen' = [seen EXCEPT ![w] = head]
    /\ UNCHANGED <<stored, head, reply>>

\* A caller starts over: whatever its previous commit answered is forgotten.
Forget(w) ==
    /\ reply' = [reply EXCEPT ![w] = "none"]
    /\ UNCHANGED <<stored, head, seen>>

\* A version may be stored without becoming the head: its writer lost the
\* race, or stopped before moving the pointer.
Keep(id, version) ==
    /\ id \notin DOMAIN stored
    /\ stored' = [i \in DOMAIN stored \cup {id} |-> IF i = id THEN version ELSE stored[i]]
    /\ UNCHANGED <<head, seen, reply>>

\* The commit takes effect: only from the head its caller named, and only
\* onto a version that is already there to be read.  The caller may be cut
\* off before it hears so.
Accept(w, id) ==
    /\ head = seen[w]
    /\ id \in DOMAIN stored
    /\ head' = id
    /\ reply' \in {reply, [reply EXCEPT ![w] = "ok"]}
    /\ UNCHANGED <<stored, seen>>

Refuse(w, answer) ==
    /\ reply' = [reply EXCEPT ![w] = answer]
    /\ UNCHANGED <<stored, head, seen>>

Next ==
    \/ \E w \in Writers : ReadHead(w) \/ Forget(w)
    \/ \E id \in Ids, version \in Versions : Keep(id, version)
    \/ \E w \in Writers, id \in Ids : Accept(w, id)
    \/ \E w \in Writers, answer \in {"conflict", "error"} : Refuse(w, answer)

Spec == Init /\ [][Next]_vars
=============================================================================
