------------------------------ MODULE PlanStore ------------------------------
(***************************************************************************)
(* JsonPlanStore (persistence/log.py) and S3PlanStore (persistence/s3.py): *)
(* immutable plan versions and a HEAD pointer, committed to by callers who *)
(* name the version they solved against.                                   *)
(*                                                                         *)
(* A commit is not one step.  Each access to the disk or to S3 is an       *)
(* action of its own, and the caller may stop between any two of them.     *)
(***************************************************************************)
EXTENDS Naturals, TLC

CONSTANTS Writers,            \* callers: request threads, Lambda invocations, CLI runs
          Ids,                \* version ids (v001, v001-repair-0, ...)
          Versions,           \* PlanVersion records; only the field "content" is read here
          None,               \* no head, no etag
          Torn,               \* a version file that was opened for writing and not yet written
          ConditionalWrites   \* TRUE: S3PlanStore.  FALSE: JsonPlanStore.

ASSUME StoreConstants ==
    /\ None \notin Ids
    /\ Torn \notin Versions
    /\ ConditionalWrites \in BOOLEAN

VARIABLES stored,  \* id -> version or Torn, for every version object that exists
          head,    \* what HEAD holds
          seen,    \* writer -> expected_parent: the head it last read
          reply,   \* writer -> how its last commit ended
          pc,      \* writer -> the next access its commit makes
          plan,    \* writer -> the id and version it is committing
          etag     \* writer -> the ETag of HEAD as this commit read it

storeVars == <<stored, head, seen, reply, pc, plan, etag>>
callVars  == <<pc, plan, etag>>

Replies == {"none", "ok", "conflict", "error"}
Steps   == {"idle", "put", "write", "move"}
Plans   == [id : Ids, version : Versions]
NoPlan  == [id |-> None, version |-> None]

With(f, id, v) == [i \in DOMAIN f \cup {id} |-> IF i = id THEN v ELSE f[i]]

StoreInit ==
    /\ stored = [i \in {} |-> None]
    /\ head = None
    /\ seen = [w \in Writers |-> None]
    /\ reply = [w \in Writers |-> "none"]
    /\ pc = [w \in Writers |-> "idle"]
    /\ plan = [w \in Writers |-> NoPlan]
    /\ etag = [w \in Writers |-> None]

-----------------------------------------------------------------------------
(* Callers.                                                                *)

\* head() finds no version behind the pointer only when the file is torn;
\* validating a torn file raises, on every reader.
HeadUnreadable == head # None /\ stored[head] = Torn

\* store.head(), before a solve or (the API handlers) again before commit.
ReadHead(w) ==
    /\ pc[w] = "idle"
    /\ ~HeadUnreadable
    /\ seen' = [seen EXCEPT ![w] = head]
    /\ UNCHANGED <<stored, head, reply, callVars>>

-----------------------------------------------------------------------------
(* The accesses one commit makes.                                          *)

\* Mutant: a returning commit clears half of what it held.
HalfReturn(w, answer) ==
    /\ pc' = [pc EXCEPT ![w] = "idle"]
    /\ plan' = [plan EXCEPT ![w].id = None]
    /\ etag' = [etag EXCEPT ![w] = None]
    /\ reply' = [reply EXCEPT ![w] = answer]

Return(w, answer) ==
    /\ pc' = [pc EXCEPT ![w] = "idle"]
    /\ plan' = [plan EXCEPT ![w] = NoPlan]
    /\ etag' = [etag EXCEPT ![w] = None]
    /\ reply' = [reply EXCEPT ![w] = answer]

Goto(w, step) ==
    /\ pc' = [pc EXCEPT ![w] = step]
    /\ UNCHANGED <<plan, reply>>

\* Mutant: the caller's expected_parent is not looked at.
ExpectAnything(w) == TRUE

\* The comparison of the head with the expected_parent the caller gave.
Expected(w) == head = seen[w]

\* store.commit(plan, expected_parent) is entered with expected_parent =
\* seen[w], and reads the head.  S3PlanStore keeps the ETag it was read with.
Begin(w, id, version) ==
    /\ pc[w] = "idle"
    /\ \/ /\ Expected(w) /\ ~HeadUnreadable
          /\ pc' = [pc EXCEPT ![w] = "put"]
          /\ plan' = [plan EXCEPT ![w] = [id |-> id, version |-> version]]
          /\ etag' = [etag EXCEPT ![w] = head]
          /\ reply' = [reply EXCEPT ![w] = "none"]
       \/ /\ ~Expected(w) /\ ~HeadUnreadable
          /\ Return(w, "conflict")
       \/ /\ HeadUnreadable
          /\ Return(w, "error")
    /\ UNCHANGED <<stored, head, seen>>

SameContent(id, version) == stored[id].content = version.content

\* Mutant: HEAD is moved with no version stored behind it.
PutNothing(w) ==
    /\ ConditionalWrites
    /\ pc[w] = "put"
    /\ Goto(w, "move")
    /\ UNCHANGED <<stored, head, seen, etag>>

\* Mutant: the version is put without IfNoneMatch.
PutAnyway(w) ==
    /\ ConditionalWrites
    /\ pc[w] = "put"
    /\ stored' = With(stored, plan[w].id, plan[w].version)
    /\ Goto(w, "move")
    /\ UNCHANGED <<head, seen, etag>>

\* S3: put_object(version, IfNoneMatch="*").  Finding the id taken is only a
\* conflict when the stored plan decides something else.
PutVersion(w) ==
    /\ ConditionalWrites
    /\ pc[w] = "put"
    /\ LET id == plan[w].id
           version == plan[w].version
       IN \/ /\ id \notin DOMAIN stored
             /\ stored' = With(stored, id, version)
             /\ Goto(w, "move") /\ UNCHANGED etag
          \/ /\ id \in DOMAIN stored /\ SameContent(id, version)
             /\ Goto(w, "move") /\ UNCHANGED <<stored, etag>>
          \/ /\ id \in DOMAIN stored /\ ~SameContent(id, version)
             /\ Return(w, "conflict") /\ UNCHANGED stored
    /\ UNCHANGED <<head, seen>>

\* Mutant: HEAD already names the version while its file is still empty.
PointFirst(w) ==
    /\ ~ConditionalWrites
    /\ pc[w] = "put"
    /\ stored' = With(stored, plan[w].id, Torn)
    /\ head' = plan[w].id
    /\ Goto(w, "write")
    /\ UNCHANGED <<seen, etag>>

\* JSON: Path.write_text opens the file for writing, which empties it ...
TruncateVersion(w) ==
    /\ ~ConditionalWrites
    /\ pc[w] = "put"
    /\ stored' = With(stored, plan[w].id, Torn)
    /\ Goto(w, "write")
    /\ UNCHANGED <<head, seen, etag>>

\* ... and then fills it.
WriteVersion(w) ==
    /\ pc[w] = "write"
    /\ stored' = With(stored, plan[w].id, plan[w].version)
    /\ Goto(w, "move")
    /\ UNCHANGED <<head, seen, etag>>

\* Mutant: HEAD is put without IfMatch.
MoveAnyway(w) == TRUE

\* S3 moves HEAD under IfMatch (IfNoneMatch="*" for the first); the JSON
\* store renames a staged file over it, whatever it holds by now.
HeadMayMove(w) == ConditionalWrites => head = etag[w]

MoveHead(w) ==
    /\ pc[w] = "move"
    /\ \/ /\ HeadMayMove(w)
          /\ head' = plan[w].id
          /\ Return(w, "ok")
       \/ /\ ~HeadMayMove(w)
          /\ head' = head
          /\ Return(w, "conflict")
    /\ UNCHANGED <<stored, seen>>

\* The conditional PUT of HEAD took effect but its response was lost on the
\* way back.  The S3 client repeats the request, under the same condition.
LoseResponse(w) ==
    /\ ConditionalWrites
    /\ pc[w] = "move"
    /\ head = etag[w]
    /\ head' = plan[w].id
    /\ UNCHANGED <<stored, seen, reply, callVars>>

\* The process is killed, or the invocation times out, between two accesses.
Crash(w) ==
    /\ pc[w] # "idle"
    /\ Return(w, "none")
    /\ UNCHANGED <<stored, head, seen>>

CommitStep(w) ==
    PutVersion(w) \/ TruncateVersion(w) \/ WriteVersion(w) \/ MoveHead(w)

StoreNext ==
    \E w \in Writers :
        \/ ReadHead(w)
        \/ \E id \in Ids, version \in Versions : Begin(w, id, version)
        \/ CommitStep(w)
        \/ LoseResponse(w)
        \/ Crash(w)

StoreSpec == StoreInit /\ [][StoreNext]_storeVars

-----------------------------------------------------------------------------
(* Properties.                                                             *)

StoreTypeOK ==
    /\ DOMAIN stored \subseteq Ids
    /\ stored \in [DOMAIN stored -> Versions \cup {Torn}]
    /\ head \in Ids \cup {None}
    /\ seen \in [Writers -> Ids \cup {None}]
    /\ reply \in [Writers -> Replies]
    /\ pc \in [Writers -> Steps]
    /\ plan \in [Writers -> Plans \cup {NoPlan}]
    /\ etag \in [Writers -> Ids \cup {None}]

\* HEAD always names a version that can be loaded: no interleaving of commits
\* and no crash inside one leaves the board without a plan to show.
HeadIsReadable == head # None => /\ head \in DOMAIN stored
                                 /\ stored[head] # Torn

\* "Immutability enforced by storage": a stored version is never replaced or
\* removed, whatever two writers who minted the same id do.
KeepVersions == \A id \in DOMAIN stored : id \in DOMAIN stored' /\ stored'[id] = stored[id]
VersionsAreImmutable == [][KeepVersions]_storeVars

\* The head only ever moves on behalf of a caller whose commit is in
\* progress, away from the very version that caller named and onto the one it
\* brought: nobody's commit is discarded by a writer who had not seen it.
MoveKnowingly == head' # head => \E w \in Writers : /\ pc[w] = "move"
                                                    /\ seen[w] = head
                                                    /\ head' = plan[w].id
NoCommitIsDiscarded == [][MoveKnowingly]_storeVars

\* Seen through stored, head, seen and reply alone, a commit is atomic.
Abstract == INSTANCE OptimisticHead WITH stored <- stored, head <- head,
                                         seen <- seen, reply <- reply
ImplementsOptimisticHead == Abstract!Spec
=============================================================================
