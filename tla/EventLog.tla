------------------------------ MODULE EventLog -------------------------------
(***************************************************************************)
(* JsonlEventLog (persistence/log.py), S3EventLog (persistence/s3.py) and  *)
(* Workspace.seed: the append-only log that is the only source of truth.   *)
(*                                                                         *)
(* An event is named by its event_id, which is fresh for every attempt.    *)
(***************************************************************************)
EXTENDS Naturals, Sequences, SequencesExt

CONSTANTS Writers,            \* processes and threads that append
          Batches,            \* the batches they may append: sequences of events
          SeedBatch,          \* what `krama init` seeds a workspace with
          Garbled,            \* a line that is not one event's JSON
          None,
          Backends,           \* where a workspace may be kept: "s3", "jsonl"
          MaxLines            \* bound: no append starts once the log is this long

ASSUME LogConstants ==
    /\ Backends \subseteq {"s3", "jsonl"}
    /\ MaxLines \in Nat
    /\ SeedBatch \notin Batches
    /\ \A b \in Batches \cup {SeedBatch} :
         b \in Seq(Range(b)) /\ Len(b) > 0 /\ Garbled \notin Range(b)
    \* every event of every attempt has an id of its own
    /\ \A b \in Batches \cup {SeedBatch} : IsInjective(b)
    /\ \A b, c \in Batches \cup {SeedBatch} : b # c => Range(b) \cap Range(c) = {}
    /\ Writers \cap {None, Garbled} = {} /\ None # Garbled

VARIABLES backend,  \* which EventLog the workspace was opened with, for good
          file,     \* the log: one line per event
          tail,     \* JSONL: who left the last line unfinished; Garbled if several did
          pc,       \* writer -> next access of its append
          batch,    \* writer -> the batch it is appending
          loaded,   \* writer -> S3: the body it read, which the ETag stands for
                    \*           JSONL: what of its batch is still in the buffer
          acked     \* batches whose append returned

vars == <<backend, file, tail, pc, batch, loaded, acked>>

Init ==
    /\ backend \in Backends
    /\ file = <<>>
    /\ tail = None
    /\ pc = [w \in Writers |-> "idle"]
    /\ batch = [w \in Writers |-> <<>>]
    /\ loaded = [w \in Writers |-> <<>>]
    /\ acked = {}

Fresh(b) == /\ \A w \in Writers : batch[w] # b
            /\ Range(b) \cap Range(file) = {}
            /\ b \notin acked

\* _load and read validate every line, and raise on the first that is not JSON.
Readable == Garbled \notin Range(file) /\ tail = None

Finish(w) ==
    /\ pc' = [pc EXCEPT ![w] = "idle"]
    /\ batch' = [batch EXCEPT ![w] = <<>>]
    /\ loaded' = [loaded EXCEPT ![w] = <<>>]

Begin(w, b) ==
    /\ batch' = [batch EXCEPT ![w] = b]
    /\ pc' = [pc EXCEPT ![w] = IF backend = "s3" THEN "load" ELSE "write"]
    /\ loaded' = [loaded EXCEPT ![w] = IF backend = "s3" THEN <<>> ELSE b]
    /\ UNCHANGED <<file, tail, acked>>

\* append(events), by any handler.
StartAppend(w) ==
    /\ pc[w] = "idle"
    /\ Len(file) < MaxLines
    /\ \E b \in Batches : Fresh(b) /\ Begin(w, b)

\* Workspace.seed: refuse a log that holds anything, then append.
StartSeed(w) ==
    /\ pc[w] = "idle"
    /\ file = <<>>
    /\ Begin(w, SeedBatch)

\* S3: the whole object is read, together with its ETag ...
LoadBody(w) ==
    /\ pc[w] = "load"
    /\ Readable
    /\ loaded' = [loaded EXCEPT ![w] = file]
    /\ pc' = [pc EXCEPT ![w] = "put"]
    /\ UNCHANGED <<file, tail, batch, acked>>

\* Mutant: the object is put without If-Match.
PutRegardless(w) == TRUE

BodyUnchanged(w) == file = loaded[w]

\* Mutant: a refused PUT is repeated on top of whatever the log holds now.
PutAgain(w) ==
    /\ pc[w] = "put"
    /\ file' = file \o batch[w]
    /\ acked' = acked \cup {batch[w]}
    /\ Finish(w)
    /\ UNCHANGED tail

\* Mutant: the batch is put in front of what was read.
PutInFront(w) ==
    /\ pc[w] = "put"
    /\ \/ /\ BodyUnchanged(w)
          /\ file' = batch[w] \o loaded[w]
          /\ acked' = acked \cup {batch[w]}
       \/ /\ ~BodyUnchanged(w)
          /\ UNCHANGED <<file, acked>>
    /\ Finish(w)
    /\ UNCHANGED tail

\* ... and written back with the batch behind it, under If-Match.
PutBody(w) ==
    /\ pc[w] = "put"
    /\ \/ /\ BodyUnchanged(w)
          /\ file' = loaded[w] \o batch[w]
          /\ acked' = acked \cup {batch[w]}
       \/ /\ ~BodyUnchanged(w)
          /\ UNCHANGED <<file, acked>>     \* PlanConflict
    /\ Finish(w)
    /\ UNCHANGED tail

\* The PUT took effect but its response was lost; the client repeats it under
\* the same condition, which can only fail now.
LoseResponse(w) ==
    /\ pc[w] = "put"
    /\ file = loaded[w]
    /\ file' = file \o batch[w]
    /\ UNCHANGED <<tail, pc, batch, loaded, acked>>

\* JSONL: does what w writes next go where a line of its own ends or begins?
\* It does unless somebody, other than w itself, left the last line unfinished.
OnLineEnd(w) == IF pc[w] = "rest" THEN tail = w ELSE tail = None

\* Lines that w finishes at the end of the file.  The first of them is garbled
\* when it starts on somebody's unfinished line, or is the second half of one.
AtEnd(w, lines) == IF lines = <<>> \/ OnLineEnd(w) THEN file \o lines
                                                   ELSE file \o <<Garbled>> \o Tail(lines)

Unflushed(w, n) == SubSeq(loaded[w], n + 1, Len(loaded[w]))

\* Closing the file flushes what is left of the batch: all of it, when it fits
\* the buffer.
FlushAll(w) ==
    /\ pc[w] \in {"write", "rest"}
    /\ file' = AtEnd(w, loaded[w])
    /\ tail' = None
    /\ acked' = acked \cup {batch[w]}
    /\ Finish(w)

\* The text layer hands the buffer whole lines, and a line that no longer fits
\* sends those before it to the file: a large batch arrives in any number of
\* pieces, between which others write and the process may stop.
FlushSome(w) ==
    /\ pc[w] \in {"write", "rest"}
    /\ \E n \in 1..Len(loaded[w]) - 1 :
         /\ file' = AtEnd(w, SubSeq(loaded[w], 1, n))
         /\ loaded' = [loaded EXCEPT ![w] = Unflushed(w, n)]
    /\ tail' = None
    /\ pc' = [pc EXCEPT ![w] = "write"]
    /\ UNCHANGED <<batch, acked>>

\* The system writes less than it was given, which may end in the middle of a
\* line; the buffer writes the rest after that.
WriteShort(w) ==
    /\ pc[w] \in {"write", "rest"}
    /\ \E n \in 0..Len(loaded[w]) - 1 :
         /\ file' = AtEnd(w, SubSeq(loaded[w], 1, n))
         /\ tail' = IF n > 0 \/ OnLineEnd(w) THEN w ELSE Garbled
         /\ loaded' = [loaded EXCEPT ![w] = Unflushed(w, n)]
    /\ pc' = [pc EXCEPT ![w] = "rest"]
    /\ UNCHANGED <<batch, acked>>

Crash(w) ==
    /\ pc[w] # "idle"
    /\ Finish(w)
    /\ UNCHANGED <<file, tail, acked>>

Next ==
    /\ UNCHANGED backend
    /\ \E w \in Writers :
        \/ StartAppend(w) \/ StartSeed(w)
        \/ LoadBody(w) \/ PutBody(w) \/ LoseResponse(w)
        \/ FlushAll(w) \/ FlushSome(w) \/ WriteShort(w)
        \/ Crash(w)

Spec == Init /\ [][Next]_vars

-----------------------------------------------------------------------------
IsInfix(s, t) == \E i \in 0..Len(t) - Len(s) : SubSeq(t, i + 1, i + Len(s)) = s

InOrder(s, t) ==
    \E at \in [1..Len(s) -> 1..Len(t)] :
        /\ \A k \in 1..Len(s) : t[at[k]] = s[k]
        /\ \A j, k \in 1..Len(s) : j < k => at[j] < at[k]

\* "Losing one is unacceptable": once an append has returned, its events are
\* in the log for good, in the order the handler gave them; on S3, next to one
\* another as well.  A JSONL log can be garbled by writers who interleave or
\* stop in the middle of a line, and then no reader gets past the damage:
\* events of an append that returned are never lost unnoticed.
AcknowledgedBatchesSurvive ==
    Readable => \A b \in acked : IF backend = "s3" THEN IsInfix(b, file) ELSE InOrder(b, file)

\* "Nothing is ever mutated": the log only ever grows at its end, so that
\* reading it as of an earlier length gives what it gave then.
LogOnlyGrows == [][IsPrefix(file, file')]_vars

\* No event is recorded twice, however appends race and requests are repeated.
NothingRecordedTwice ==
    \A b \in Batches : \A i, j \in DOMAIN file :
        file[i] = file[j] /\ file[i] \in Range(b) => i = j
=============================================================================
