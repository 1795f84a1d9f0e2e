---------------------------- MODULE EventLog_proofs ----------------------------
(***************************************************************************)
(* What the run of EventLog checks on two writers and three batches, for   *)
(* any number of writers, any batches and a log of any length.             *)
(*                                                                         *)
(* Every step puts lines behind the log and touches nothing before them:   *)
(* that is StepsOnlyAppend, which says which lines these are.  The rest is *)
(* what the appends under way know of the log (LogInv).                    *)
(***************************************************************************)
EXTENDS EventLog, SequenceTheorems, TLAPS

\* What may be appended, and what a line of the log may be.
Started == Batches \cup {SeedBatch}
Lines == {Garbled} \cup UNION {Range(b) : b \in Started}

LogTypeOK ==
    /\ backend \in Backends
    /\ file \in Seq(Lines)
    /\ tail \in Writers \cup {None, Garbled}
    /\ pc \in [Writers -> {"idle", "load", "put", "write", "rest"}]
    /\ batch \in [Writers -> Seq(Lines)]
    /\ loaded \in [Writers -> Seq(Lines)]
    /\ acked \subseteq Started

\* w is writing to a file, from this line of its batch on.
Buffers(w) == pc[w] \in {"write", "rest"}
Start(w) == IF Buffers(w) THEN Len(batch[w]) - Len(loaded[w]) ELSE 0

\* Each backend has its own steps, and an append under way holds a batch.  S3:
\* a writer that is about to put has read the log as it is or as it was when it
\* was shorter.  JSONL: the buffer holds the batch, or what is left of it.
Underway ==
    /\ backend = "s3" => tail = None /\ \A w \in Writers : ~Buffers(w)
    /\ backend = "jsonl" => \A w \in Writers : pc[w] \notin {"load", "put"}
    /\ \A w \in Writers : pc[w] = "idle" => batch[w] = <<>>
    /\ \A w \in Writers : pc[w] # "idle" => batch[w] \in Started
    /\ \A w \in Writers : pc[w] = "put" => loaded[w] = file \/ Len(loaded[w]) < Len(file)
    /\ \A w \in Writers : Buffers(w) =>
         /\ Len(loaded[w]) \in 1..Len(batch[w])
         /\ \A k \in 1..Len(loaded[w]) :
              loaded[w][k] = batch[w][Len(batch[w]) - Len(loaded[w]) + k]

\* The first n lines of b are in t, in order: InOrder, for a part of b.
Lies(b, n, t) ==
    \E at \in [1..n -> 1..Len(t)] :
        /\ \A k \in 1..n : t[at[k]] = b[k]
        /\ \A j, k \in 1..n : j < k => at[j] < at[k]

\* What a writer has flushed of its batch is in the log, unless something was
\* garbled.
Flushed ==
    \A w \in Writers : Buffers(w) /\ Garbled \notin Range(file) => Lies(batch[w], Start(w), file)

\* b is somewhere in t: IsInfix, line by line.
Sits(b, t) == \E i \in 0..Len(t) - Len(b) : \A k \in 1..Len(b) : t[i + k] = b[k]

\* AcknowledgedBatchesSurvive, whoever is half way through an append.
Kept ==
    Garbled \notin Range(file) =>
        \A b \in acked : IF backend = "s3" THEN Sits(b, file) ELSE Lies(b, Len(b), file)

\* What w has yet to write is not in the log, or its put will be refused.
Unwritten(w) ==
    /\ pc[w] = "load" => Range(batch[w]) \cap Range(file) = {}
    /\ pc[w] = "put" /\ loaded[w] = file => Range(batch[w]) \cap Range(file) = {}
    /\ Buffers(w) => Range(loaded[w]) \cap Range(file) = {}

\* NothingRecordedTwice, and why it stays so: nobody else appends the same batch.
Once ==
    /\ NothingRecordedTwice
    /\ \A v, w \in Writers : batch[v] \in Batches /\ batch[v] = batch[w] => v = w
    /\ \A w \in Writers : batch[w] \in Batches => Unwritten(w)

LogInv == LogTypeOK /\ Underway /\ Flushed /\ Kept /\ Once

-----------------------------------------------------------------------------
\* Sequences of lines.
LEMMA BatchesAreSequences ==
    ASSUME NEW b \in Started
    PROVE  /\ b \in Seq(Lines) /\ Len(b) \in Nat \ {0} /\ b # <<>>
           /\ \A k \in 1..Len(b) : b[k] \in Range(b) /\ b[k] # Garbled
           /\ \A j, k \in 1..Len(b) : b[j] = b[k] => j = k
<1>1. b \in Seq(Range(b)) /\ Len(b) > 0 /\ Garbled \notin Range(b) /\ IsInjective(b)
    BY LogConstants DEF Started
<1>2. Range(b) \subseteq Lines
    BY DEF Lines
<1>3. b \in Seq(Lines)
    BY <1>1, <1>2, SeqMonotonic
<1>4. Len(b) \in Nat /\ DOMAIN b = 1..Len(b)
    BY <1>1, LenProperties
<1>5. \A k \in 1..Len(b) : b[k] \in Range(b)
    BY <1>4 DEF Range
<1> QED
    BY <1>1, <1>3, <1>4, <1>5 DEF IsInjective

LEMMA LinesOfBatch ==
    ASSUME NEW s \in Seq(Lines)
    PROVE  /\ Len(s) \in Nat /\ DOMAIN s = 1..Len(s)
           /\ Range(s) = {s[k] : k \in 1..Len(s)}
           /\ \A k \in 1..Len(s) : s[k] \in Lines
BY LenProperties, ElementOfSeq DEF Range

\* The lines that land in the file when w finishes `lines` at its end.
Landed(w, lines) == IF lines = <<>> \/ OnLineEnd(w) THEN lines ELSE <<Garbled>> \o Tail(lines)

LEMMA Differences ==
    /\ \A m \in Nat : \A n \in Nat : n <= m => m - n \in Nat /\ m - n <= m
    /\ \A m \in Nat : \A n \in 1..m :
         m - n \in Nat /\ m - n <= m /\ \A k \in 1..n : (m - n) + k \in 1..m
OBVIOUS

\* Where the lines of a concatenation are.
LEMMA LinesOfConcat ==
    ASSUME NEW s \in Seq(Lines), NEW t \in Seq(Lines)
    PROVE  /\ s \o t \in Seq(Lines) /\ Len(s \o t) = Len(s) + Len(t)
           /\ \A k \in 1..Len(s) : (s \o t)[k] = s[k]
           /\ \A k \in 1..Len(t) : (s \o t)[Len(s) + k] = t[k]
BY ConcatProperties

\* The first of some lines is garbled and the others are not.
LEMMA GarbledFirst ==
    ASSUME NEW s \in Seq(Lines), s # <<>>
    PROVE  /\ <<Garbled>> \o Tail(s) \in Seq(Lines)
           /\ Len(<<Garbled>> \o Tail(s)) = Len(s)
           /\ (<<Garbled>> \o Tail(s))[1] = Garbled
           /\ \A k \in 2..Len(s) : (<<Garbled>> \o Tail(s))[k] = s[k]
<1>1. PICK g \in Seq(Lines) : g = <<Garbled>>
    <2>1. <<Garbled>> \in Seq(Lines)
        BY DEF Lines
    <2> WITNESS <<Garbled>> \in Seq(Lines)
    <2> QED
        OBVIOUS
<1>2. Len(g) = 1 /\ g[1] = Garbled
    BY <1>1
<1>3. PICK t \in Seq(Lines) : t = Tail(s)
    BY HeadTailProperties
<1>4. Len(s) \in Nat /\ Len(s) # 0 /\ Len(t) = Len(s) - 1 /\ \A k \in 1..Len(t) : t[k] = s[k + 1]
    BY <1>3, EmptySeq, HeadTailProperties
<1>5. /\ g \o t \in Seq(Lines) /\ Len(g \o t) = Len(s) /\ (g \o t)[1] = Garbled
      /\ \A k \in 1..Len(t) : (g \o t)[1 + k] = t[k]
    <2>1. /\ g \o t \in Seq(Lines) /\ Len(g \o t) = Len(g) + Len(t)
          /\ \A k \in 1..Len(g) : (g \o t)[k] = g[k]
          /\ \A k \in 1..Len(t) : (g \o t)[Len(g) + k] = t[k]
        BY LinesOfConcat
    <2> QED
        BY <1>2, <1>4, <2>1
<1>6. \A k \in 2..Len(s) : (g \o t)[k] = s[k]
    <2> TAKE k \in 2..Len(s)
    <2>1. k - 1 \in 1..Len(t) /\ 1 + (k - 1) = k /\ (k - 1) + 1 = k
        BY <1>4
    <2> QED
        BY <1>4, <1>5, <2>1
<1> QED
    BY <1>1, <1>3, <1>5, <1>6

LEMMA GarbledBehind ==
    ASSUME NEW f \in Seq(Lines), NEW s \in Seq(Lines), s # <<>>
    PROVE  f \o <<Garbled>> \o Tail(s) = f \o (<<Garbled>> \o Tail(s))
<1>1. <<Garbled>> \in Seq(Lines)
    BY DEF Lines
<1>2. Tail(s) \in Seq(Lines)
    BY HeadTailProperties
<1> QED
    BY <1>1, <1>2, ConcatAssociative

LEMMA LandsAtEnd ==
    ASSUME NEW w \in Writers, NEW s \in Seq(Lines), file \in Seq(Lines)
    PROVE  /\ AtEnd(w, s) = file \o Landed(w, s)
           /\ Landed(w, s) \in Seq(Lines) /\ Len(Landed(w, s)) = Len(s)
           /\ \A k \in 1..Len(s) : Landed(w, s)[k] = s[k] \/ Landed(w, s)[k] = Garbled
<1>1. CASE s = <<>> \/ OnLineEnd(w)
    BY <1>1 DEF AtEnd, Landed
<1>2. CASE ~(s = <<>> \/ OnLineEnd(w))
    <2>1. Landed(w, s) = <<Garbled>> \o Tail(s)
        BY <1>2 DEF Landed
    <2>3. AtEnd(w, s) = file \o Landed(w, s)
        BY <1>2, <2>1, GarbledBehind DEF AtEnd
    <2>4. \A k \in 1..Len(s) : k = 1 \/ k \in 2..Len(s)
        BY LinesOfBatch
    <2> QED
        BY <1>2, <2>1, <2>3, <2>4, GarbledFirst
<1> QED
    BY <1>1, <1>2

-----------------------------------------------------------------------------
\* What a step of w's append may put behind the log: lines of its batch, from
\* the one after the o-th on, each of which may have been garbled.
Copies(x, w, o) ==
    /\ x \in Seq(Lines) /\ o \in Nat /\ o + Len(x) <= Len(batch[w])
    /\ \A k \in 1..Len(x) : x[k] = batch[w][o + k] \/ x[k] = Garbled

AppendStep(w) ==
    \/ StartAppend(w) \/ StartSeed(w)
    \/ LoadBody(w) \/ PutBody(w) \/ LoseResponse(w)
    \/ FlushAll(w) \/ FlushSome(w) \/ WriteShort(w)
    \/ Crash(w)

\* PutBody and LoseResponse, under the ETag of what the log holds.
LEMMA Putting ==
    ASSUME LogTypeOK, Underway, NEW w \in Writers, pc[w] = "put", loaded[w] = file
    PROVE  file \o batch[w] = loaded[w] \o batch[w] /\ Copies(batch[w], w, 0)
BY BatchesAreSequences DEF LogTypeOK, Underway, Copies

\* What is left in w's buffer, when n lines of it have been written.
LEMMA LeftInBuffer ==
    ASSUME LogTypeOK, Underway, NEW w \in Writers, Buffers(w), NEW n \in 0..Len(loaded[w]) - 1,
           NEW r, r = Unflushed(w, n)
    PROVE  /\ r \in Seq(Lines) /\ Len(r) = Len(loaded[w]) - n
           /\ \A k \in 1..Len(r) : r[k] = loaded[w][n + k]
<1>1. loaded[w] \in Seq(Lines) /\ Len(loaded[w]) \in Nat
    BY LenProperties DEF LogTypeOK
<1> QED
    BY <1>1 DEF Unflushed

\* n lines of w's buffer arrive in the file.
LEMMA LinesArrive ==
    ASSUME LogTypeOK, Underway, NEW w \in Writers, Buffers(w), NEW n \in 0..Len(loaded[w]),
           NEW s, s = SubSeq(loaded[w], 1, n)
    PROVE  \E x \in Seq(Lines) : Copies(x, w, Start(w)) /\ Len(x) = n /\ AtEnd(w, s) = file \o x
<1>1. batch[w] \in Started
    BY DEF Underway, Buffers
<1>2. batch[w] \in Seq(Lines) /\ Len(batch[w]) \in Nat
    BY <1>1, BatchesAreSequences
<1>3. /\ loaded[w] \in Seq(Lines) /\ Len(loaded[w]) \in 1..Len(batch[w])
      /\ \A k \in 1..Len(loaded[w]) :
           loaded[w][k] = batch[w][Len(batch[w]) - Len(loaded[w]) + k]
    BY DEF LogTypeOK, Underway
<1>4. s \in Seq(Lines) /\ Len(s) = n /\ \A k \in 1..n : s[k] = loaded[w][k]
    BY <1>2, <1>3
<1>5. PICK x : x = Landed(w, s)
    OBVIOUS
<1>6. /\ AtEnd(w, s) = file \o x
      /\ x \in Seq(Lines) /\ Len(x) = n
      /\ \A k \in 1..n : x[k] = s[k] \/ x[k] = Garbled
    BY <1>4, <1>5, LandsAtEnd DEF LogTypeOK
<1>7. PICK o : o = Start(w)
    OBVIOUS
<1>8. o \in Nat /\ o = Len(batch[w]) - Len(loaded[w]) /\ o + n <= Len(batch[w])
    BY <1>2, <1>3, <1>7 DEF Start
<1>9. \A k \in 1..n : k \in 1..Len(loaded[w])
    BY <1>2, <1>3
<1>10. \A k \in 1..Len(x) : x[k] = batch[w][o + k] \/ x[k] = Garbled
    BY <1>3, <1>4, <1>6, <1>8, <1>9
<1> QED
    BY <1>6, <1>7, <1>8, <1>10 DEF Copies

\* What the three ways to flush have in common: x arrives in the file, and
\* either the append is done or the rest of its batch stays in the buffer.
Arrives(w, x) ==
    /\ Buffers(w) /\ batch[w] \in Started /\ backend # "s3"
    /\ Copies(x, w, Start(w)) /\ file' = file \o x
Ends(w, x) ==
    /\ Len(x) = Len(loaded[w])
    /\ tail' = None /\ acked' = acked \cup {batch[w]} /\ Finish(w)
Continues(w, x) ==
    /\ tail' \in {None, Garbled, w} /\ UNCHANGED <<batch, acked>>
    /\ \E s \in {"write", "rest"} : pc' = [pc EXCEPT ![w] = s]
    /\ \E r \in Seq(Lines) :
         /\ loaded' = [loaded EXCEPT ![w] = r]
         /\ Len(r) \in 1..Len(loaded[w]) /\ Len(loaded[w]) = Len(x) + Len(r)
         /\ \A k \in 1..Len(r) : r[k] = loaded[w][Len(x) + k]

Flushes(w) == FlushAll(w) \/ FlushSome(w) \/ WriteShort(w)

LEMMA PiecesArrive ==
    ASSUME LogTypeOK, Underway, NEW w \in Writers, Flushes(w)
    PROVE  \E x \in Seq(Lines) : Arrives(w, x) /\ (Ends(w, x) \/ Continues(w, x))
<1>1. Buffers(w)
    BY DEF Flushes, FlushAll, FlushSome, WriteShort, Buffers
<1>2. batch[w] \in Started /\ backend # "s3" /\ Len(loaded[w]) \in 1..Len(batch[w])
    BY <1>1 DEF Underway, Buffers
<1>3. loaded[w] \in Seq(Lines) /\ Len(loaded[w]) \in Nat
    BY LenProperties DEF LogTypeOK
<1>4. CASE FlushAll(w)
    <2>1. PICK s : s = SubSeq(loaded[w], 1, Len(loaded[w]))
        OBVIOUS
    <2>2. s = loaded[w]
        BY <1>3, <2>1, SubSeqFull
    <2>3. Len(loaded[w]) \in 0..Len(loaded[w])
        BY <1>3
    <2>4. PICK x \in Seq(Lines) : /\ Copies(x, w, Start(w)) /\ Len(x) = Len(loaded[w])
                                  /\ AtEnd(w, s) = file \o x
        BY <1>1, <2>1, <2>3, LinesArrive
    <2> QED
        BY <1>1, <1>2, <1>4, <2>2, <2>4 DEF FlushAll, Arrives, Ends
<1>5. ASSUME NEW n \in 0..Len(loaded[w]) - 1, file' = AtEnd(w, SubSeq(loaded[w], 1, n)),
             loaded' = [loaded EXCEPT ![w] = Unflushed(w, n)],
             tail' \in {None, Garbled, w}, UNCHANGED <<batch, acked>>,
             NEW p \in {"write", "rest"}, pc' = [pc EXCEPT ![w] = p]
      PROVE  \E x \in Seq(Lines) : Arrives(w, x) /\ Continues(w, x)
    <2>1. PICK s : s = SubSeq(loaded[w], 1, n)
        OBVIOUS
    <2>2. n \in 0..Len(loaded[w])
        BY <1>3
    <2>3. PICK x \in Seq(Lines) : Copies(x, w, Start(w)) /\ Len(x) = n /\ AtEnd(w, s) = file \o x
        BY <1>1, <2>1, <2>2, LinesArrive
    <2>4. PICK r : r = Unflushed(w, n)
        OBVIOUS
    <2>5. /\ r \in Seq(Lines) /\ Len(r) = Len(loaded[w]) - n
          /\ \A k \in 1..Len(r) : r[k] = loaded[w][n + k]
        BY <1>1, <2>4, LeftInBuffer, SMTT(20)
    <2>6. Len(r) \in 1..Len(loaded[w]) /\ Len(loaded[w]) = Len(x) + Len(r)
        BY <1>3, <2>3, <2>5
    <2>7. loaded' = [loaded EXCEPT ![w] = r] /\ file' = AtEnd(w, s)
        BY <1>5, <2>1, <2>4
    <2>8. Arrives(w, x)
        BY <1>1, <1>2, <2>3, <2>7 DEF Arrives
    <2>9. Continues(w, x)
        BY <1>5, <2>3, <2>5, <2>6, <2>7 DEF Continues
    <2> QED
        BY <2>8, <2>9
<1>6. CASE FlushSome(w)
    <2>1. PICK n \in 1..Len(loaded[w]) - 1 :
              /\ file' = AtEnd(w, SubSeq(loaded[w], 1, n))
              /\ loaded' = [loaded EXCEPT ![w] = Unflushed(w, n)]
        BY <1>6 DEF FlushSome
    <2>2. n \in 0..Len(loaded[w]) - 1
        BY <1>3
    <2> QED
        BY <1>5, <1>6, <2>1, <2>2 DEF FlushSome
<1>7. CASE WriteShort(w)
    <2>1. PICK n \in 0..Len(loaded[w]) - 1 :
              /\ file' = AtEnd(w, SubSeq(loaded[w], 1, n))
              /\ tail' = IF n > 0 \/ OnLineEnd(w) THEN w ELSE Garbled
              /\ loaded' = [loaded EXCEPT ![w] = Unflushed(w, n)]
        BY <1>7 DEF WriteShort
    <2> QED
        BY <1>5, <1>7, <2>1 DEF WriteShort
<1> QED
    BY <1>4, <1>6, <1>7 DEF Flushes

\* An append adds to the log or leaves it as it is.
LEMMA LongerOrSame ==
    ASSUME NEW f \in Seq(Lines), NEW x \in Seq(Lines)
    PROVE  /\ f \o x \in Seq(Lines) /\ Len(f \o x) = Len(f) + Len(x)
           /\ f \o x = f \/ Len(f) < Len(f \o x)
           /\ Len(f) <= Len(f \o x)
           /\ IsPrefix(f, f \o x)
<1>1. f \o x \in Seq(Lines) /\ Len(f \o x) = Len(f) + Len(x)
    BY LinesOfConcat
<1>2. Len(f) \in Nat /\ Len(x) \in Nat
    BY LenProperties
<1>3. CASE x = <<>>
    BY <1>1, <1>2, <1>3, ConcatEmptySeq DEF IsPrefix
<1>4. CASE x # <<>>
    <2>1. Len(x) # 0
        BY <1>4, EmptySeq
    <2>2. SubSeq(f \o x, 1, Len(f)) = f
        BY SubSeqOfConcat1, SubSeqFull
    <2>3. SubSeq(f, 1, Len(f)) = f
        BY SubSeqFull
    <2>4. Len(f) <= Len(f \o x) /\ Len(f) < Len(f \o x)
        BY <1>1, <1>2, <2>1
    <2>5. IsPrefix(f, f \o x)
        BY <2>2, <2>3, <2>4 DEF IsPrefix
    <2> QED
        BY <1>1, <2>4, <2>5
<1> QED
    BY <1>3, <1>4

LEMMA AddingNothing ==
    ASSUME LogTypeOK, Underway, NEW w \in Writers
    PROVE  Copies(<<>>, w, Start(w)) /\ file \o <<>> = file
<1>1. <<>> \in Seq(Lines) /\ Len(<<>>) = 0
    BY EmptySeq
<1>2. Len(batch[w]) \in Nat /\ Len(loaded[w]) \in Nat
    BY LenProperties DEF LogTypeOK
<1>3. Start(w) \in Nat /\ Start(w) <= Len(batch[w])
    <2>2. CASE Buffers(w)
        <3>1. Len(loaded[w]) \in 1..Len(batch[w])
            BY <2>2 DEF Underway
        <3>2. Len(batch[w]) - Len(loaded[w]) \in Nat /\ Len(batch[w]) - Len(loaded[w]) <= Len(batch[w])
            BY <1>2, <3>1, Differences
        <3> QED
            BY <2>2, <3>2 DEF Start
    <2>3. CASE ~Buffers(w)
        BY <1>2, <2>3 DEF Start
    <2> QED
        BY <2>2, <2>3
<1> QED
    BY <1>1, <1>2, <1>3, ConcatEmptySeq DEF Copies, LogTypeOK

LEMMA StepsOnlyAppend ==
    ASSUME LogTypeOK, Underway, NEW w \in Writers, AppendStep(w)
    PROVE  \E x \in Seq(Lines) : Copies(x, w, Start(w)) /\ file' = file \o x
<1>1. CASE UNCHANGED file
    BY <1>1, AddingNothing DEF Copies
<1>2. CASE PutBody(w) /\ BodyUnchanged(w)
    BY <1>2, Putting DEF PutBody, BodyUnchanged, Copies, Start, Buffers
<1>3. CASE LoseResponse(w)
    BY <1>3, Putting DEF LoseResponse, Copies, Start, Buffers
<1>4. CASE Flushes(w)
    BY <1>4, PiecesArrive DEF Arrives
<1> QED
    BY <1>1, <1>2, <1>3, <1>4
       DEF AppendStep, Flushes, StartAppend, StartSeed, Begin, LoadBody, PutBody, BodyUnchanged, Crash

-----------------------------------------------------------------------------
LEMMA InitTyped == Init => LogTypeOK /\ Underway
BY EmptySeq DEF Init, LogTypeOK, Underway, Buffers

LEMMA TypePreserved ==
    ASSUME LogTypeOK, Underway, UNCHANGED backend, NEW w \in Writers, AppendStep(w)
    PROVE  LogTypeOK' /\ Underway'
<1>1. PICK x \in Seq(Lines) : file' = file \o x
    BY StepsOnlyAppend
<1>2. file' \in Seq(Lines) /\ (file' = file \/ Len(file) < Len(file')) /\ Len(file) <= Len(file')
    BY <1>1, LongerOrSame DEF LogTypeOK
<1>3. \A f \in Seq(Lines) : Len(f) \in Nat
    BY LenProperties
<1>4. \A b \in Started : b \in Seq(Lines)
    BY BatchesAreSequences
<1>5. <<>> \in Seq(Lines)
    BY EmptySeq
<1>6. \A v \in Writers : loaded[v] = file \/ Len(loaded[v]) < Len(file) =>
                         loaded[v] = file' \/ Len(loaded[v]) < Len(file')
    BY <1>2, <1>3 DEF LogTypeOK
<1> USE <1>2, <1>3, <1>4, <1>5, <1>6 DEF LogTypeOK, Underway, Buffers
<1>16. ASSUME NEW b \in Started, pc[w] = "idle", Begin(w, b) PROVE LogTypeOK' /\ Underway'
    <2>1. Len(b) \in 1..Len(b) /\ \A k \in 1..Len(b) : Len(b) - Len(b) + k = k
        BY BatchesAreSequences
    <2>2. CASE backend = "s3"
        BY <1>16, <2>2 DEF Begin
    <2>3. CASE backend # "s3"
        <3>1. /\ batch' = [batch EXCEPT ![w] = b] /\ pc' = [pc EXCEPT ![w] = "write"]
              /\ loaded' = [loaded EXCEPT ![w] = b] /\ UNCHANGED <<file, tail, acked, backend>>
            BY <1>16, <2>3 DEF Begin
        <3>2. LogTypeOK'
            BY <3>1
        <3>3. \A v \in Writers : Buffers(v)' =>
                 /\ Len(loaded'[v]) \in 1..Len(batch'[v])
                 /\ \A k \in 1..Len(loaded'[v]) :
                      loaded'[v][k] = batch'[v][Len(batch'[v]) - Len(loaded'[v]) + k]
            <4> TAKE v \in Writers
            <4>1. CASE v = w
                BY <2>1, <3>1, <4>1
            <4>2. CASE v # w
                BY <3>1, <4>2
            <4> QED
                BY <4>1, <4>2
        <3>4. Underway'
            BY <2>3, <3>1, <3>3
        <3> QED
            BY <3>2, <3>4
    <2> QED
        BY <2>2, <2>3
<1>7. CASE StartAppend(w)
    <2>1. PICK b \in Started : Begin(w, b)
        BY <1>7 DEF StartAppend, Started
    <2> QED
        BY <1>7, <1>16, <2>1 DEF StartAppend
<1>8. CASE StartSeed(w)
    <2>1. SeedBatch \in Started
        BY DEF Started
    <2> QED
        BY <1>8, <1>16, <2>1 DEF StartSeed
<1>9. CASE LoadBody(w)
    BY <1>9, ZenonT(40) DEF LoadBody
<1>10. CASE PutBody(w)
    BY <1>10 DEF PutBody, Finish
<1>11. CASE LoseResponse(w)
    BY <1>11 DEF LoseResponse
<1>12. CASE Flushes(w)
    <2>1. PICK y : Arrives(w, y) /\ (Ends(w, y) \/ Continues(w, y))
        BY <1>12, PiecesArrive
    <2>2. CASE Ends(w, y)
        BY <2>1, <2>2, LogConstants DEF Arrives, Ends, Finish
    <2>3. CASE Continues(w, y)
        <3>1. PICK r \in Seq(Lines) :
                 /\ loaded' = [loaded EXCEPT ![w] = r]
                 /\ Len(r) \in 1..Len(loaded[w]) /\ Len(loaded[w]) = Len(y) + Len(r)
                 /\ \A k \in 1..Len(r) : r[k] = loaded[w][Len(y) + k]
            BY <2>3 DEF Continues
        <3>2. PICK p \in {"write", "rest"} : pc' = [pc EXCEPT ![w] = p]
            BY <2>3 DEF Continues
        <3>3. UNCHANGED <<batch, acked>> /\ tail' \in {None, Garbled, w}
            BY <2>3 DEF Continues
        <3>4. /\ batch[w] \in Started /\ backend # "s3" /\ Buffers(w)
              /\ y \in Seq(Lines)
            BY <2>1 DEF Arrives, Copies
        <3>5. LogTypeOK'
            BY <3>1, <3>2, <3>3
        <3>6. /\ Len(r) \in 1..Len(batch[w])
              /\ \A k \in 1..Len(r) : r[k] = batch[w][Len(batch[w]) - Len(r) + k]
            <4>1. /\ Len(batch[w]) \in Nat /\ Len(loaded[w]) \in 1..Len(batch[w])
                  /\ \A k \in 1..Len(loaded[w]) :
                       loaded[w][k] = batch[w][Len(batch[w]) - Len(loaded[w]) + k]
                BY <3>4
            <4>2. Len(y) \in Nat /\ Len(r) \in Nat
                BY <3>4
            <4>3. Len(r) \in 1..Len(batch[w])
                BY ONLY <3>1, <4>1, <4>2
            <4>4. ASSUME NEW k \in 1..Len(r) PROVE r[k] = batch[w][Len(batch[w]) - Len(r) + k]
                <5>1. /\ Len(loaded[w]) = Len(y) + Len(r) /\ Len(loaded[w]) \in Nat
                      /\ r[k] = loaded[w][Len(y) + k]
                    BY <3>1, <4>1
                <5>2. Len(y) + k \in 1..Len(loaded[w])
                    BY <4>2, <5>1
                <5>3. Len(batch[w]) - Len(loaded[w]) + (Len(y) + k) = Len(batch[w]) - Len(r) + k
                    BY <4>1, <4>2, <5>1
                <5>4. loaded[w][Len(y) + k] = batch[w][Len(batch[w]) - Len(loaded[w]) + (Len(y) + k)]
                    BY <4>1, <5>2
                <5> QED
                    BY <5>1, <5>3, <5>4
            <4> QED
                BY <4>3, <4>4
        <3>7. \A v \in Writers : Buffers(v)' =>
                 /\ Len(loaded'[v]) \in 1..Len(batch'[v])
                 /\ \A k \in 1..Len(loaded'[v]) :
                      loaded'[v][k] = batch'[v][Len(batch'[v]) - Len(loaded'[v]) + k]
            <4> TAKE v \in Writers
            <4>1. CASE v = w
                BY <3>1, <3>3, <3>6, <4>1
            <4>2. CASE v # w
                BY <3>1, <3>2, <3>3, <4>2
            <4> QED
                BY <4>1, <4>2
        <3>8. Underway'
            BY <3>1, <3>2, <3>3, <3>4, <3>7
        <3> QED
            BY <3>5, <3>8
    <2> QED
        BY <2>1, <2>2, <2>3
<1>15. CASE Crash(w)
    BY <1>15 DEF Crash, Finish
<1> QED
    BY <1>7, <1>8, <1>9, <1>10, <1>11, <1>12, <1>15 DEF AppendStep, Flushes

\* A batch that sits somewhere in the log sits there still when it has grown.
LEMMA SittingStill ==
    ASSUME NEW f \in Seq(Lines), NEW x \in Seq(Lines), NEW b \in Seq(Lines), Sits(b, f)
    PROVE  Sits(b, f \o x)
<1>1. PICK i \in 0..Len(f) - Len(b) : \A k \in 1..Len(b) : f[i + k] = b[k]
    BY DEF Sits
<1>2. Len(f) \in Nat /\ Len(x) \in Nat /\ Len(b) \in Nat
    BY LenProperties
<1>3. Len(f \o x) = Len(f) + Len(x) /\ \A k \in 1..Len(f) : (f \o x)[k] = f[k]
    BY LinesOfConcat
<1>4. i \in 0..Len(f \o x) - Len(b)
    BY <1>2, <1>3
<1>5. \A k \in 1..Len(b) : (f \o x)[i + k] = b[k]
    <2> TAKE k \in 1..Len(b)
    <2>1. i + k \in 1..Len(f)
        BY <1>2
    <2> QED
        BY <1>1, <1>3, <2>1
<1> QED
    BY <1>4, <1>5 DEF Sits

\* Lines that lie in the log stay there in their order when it grows ...
LEMMA LyingStill ==
    ASSUME NEW f \in Seq(Lines), NEW x \in Seq(Lines), NEW b, NEW n \in Nat, Lies(b, n, f)
    PROVE  Lies(b, n, f \o x)
<1>1. PICK at \in [1..n -> 1..Len(f)] : /\ \A k \in 1..n : f[at[k]] = b[k]
                                       /\ \A j, k \in 1..n : j < k => at[j] < at[k]
    BY DEF Lies
<1>2. Len(f) \in Nat /\ Len(x) \in Nat
    BY LenProperties
<1>3. Len(f \o x) = Len(f) + Len(x) /\ \A k \in 1..Len(f) : (f \o x)[k] = f[k]
    BY LinesOfConcat
<1>4. \A k \in 1..Len(f) : k \in 1..Len(f \o x)
    BY <1>2, <1>3
<1>5. at \in [1..n -> 1..Len(f \o x)]
    BY <1>4
<1>6. \A k \in 1..n : (f \o x)[at[k]] = b[k]
    BY <1>1, <1>3
<1> QED
    BY <1>1, <1>5, <1>6 DEF Lies

\* ... and the next lines of their batch may come behind them.
LEMMA LyingFurther ==
    ASSUME NEW f \in Seq(Lines), NEW x \in Seq(Lines), NEW b, NEW n \in Nat, Lies(b, n, f),
           \A k \in 1..Len(x) : x[k] = b[n + k]
    PROVE  Lies(b, n + Len(x), f \o x)
<1>1. PICK at \in [1..n -> 1..Len(f)] : /\ \A k \in 1..n : f[at[k]] = b[k]
                                       /\ \A j, k \in 1..n : j < k => at[j] < at[k]
    BY DEF Lies
<1>2. Len(f) \in Nat /\ Len(x) \in Nat
    BY LenProperties
<1>3. /\ Len(f \o x) = Len(f) + Len(x)
      /\ \A k \in 1..Len(f) : (f \o x)[k] = f[k]
      /\ \A k \in 1..Len(x) : (f \o x)[Len(f) + k] = x[k]
    BY LinesOfConcat
<1>4. PICK m \in Nat : m = n + Len(x)
    BY <1>2
<1>5. PICK to : to = [k \in 1..m |-> IF k <= n THEN at[k] ELSE Len(f) + (k - n)]
    OBVIOUS
<1>6. \A k \in 1..m : k <= n =>
         k \in 1..n /\ to[k] = at[k] /\ at[k] \in 1..Len(f)
    BY <1>1, <1>4, <1>5
<1>7. \A k \in 1..m : ~(k <= n) =>
         /\ k - n \in 1..Len(x) /\ to[k] = Len(f) + (k - n) /\ n + (k - n) = k
         /\ to[k] \in 1..Len(f) + Len(x) /\ Len(f) < to[k]
    BY <1>2, <1>4, <1>5
<1>8. to \in [1..m -> 1..Len(f \o x)]
    <2>1. \A k \in 1..m : to[k] \in 1..Len(f \o x)
        BY <1>2, <1>3, <1>6, <1>7
    <2> QED
        BY <1>5, <2>1
<1>9. \A k \in 1..m : (f \o x)[to[k]] = b[k]
    BY <1>1, <1>3, <1>6, <1>7
<1>10. ASSUME NEW j \in 1..m, NEW k \in 1..m, j < k PROVE to[j] < to[k]
    <2>1. CASE k <= n
        BY <1>1, <1>4, <1>6, <1>10, <2>1
    <2>2. CASE ~(k <= n) /\ j <= n
        BY <1>2, <1>6, <1>7, <2>2
    <2>3. CASE ~(k <= n) /\ ~(j <= n)
        BY <1>2, <1>4, <1>7, <1>10, <2>3
    <2> QED
        BY <2>1, <2>2, <2>3
<1> QED
    BY <1>4, <1>8, <1>9, <1>10 DEF Lies

LEMMA SitsMeansInfix ==
    ASSUME NEW f \in Seq(Lines), NEW b \in Seq(Lines), Sits(b, f)
    PROVE  IsInfix(b, f)
<1>1. PICK i \in 0..Len(f) - Len(b) : \A k \in 1..Len(b) : f[i + k] = b[k]
    BY DEF Sits
<1>2. Len(f) \in Nat /\ Len(b) \in Nat
    BY LenProperties
<1>3. PICK s : s = SubSeq(f, i + 1, i + Len(b))
    OBVIOUS
<1>4. \A j \in i + 1..i + Len(b) : f[j] \in Lines
    <2> TAKE j \in i + 1..i + Len(b)
    <2>1. j \in 1..Len(f)
        BY <1>2
    <2> QED
        BY <2>1, ElementOfSeq
<1>5. s \in Seq(Lines) /\ Len(s) = Len(b)
      /\ \A k \in 1..Len(b) : s[k] = f[i + k]
    <2> DEFINE m == i + 1
    <2> DEFINE n == i + Len(b)
    <2>1. m \in Int /\ n \in Int /\ s = SubSeq(f, m, n) /\ \A j \in m..n : f[j] \in Lines
        BY <1>2, <1>3, <1>4
    <2>2. n - m + 1 = Len(b) /\ \A k \in 1..Len(b) : m + k - 1 = i + k
        BY <1>2
    <2>3. Len(b) = IF m <= n THEN n - m + 1 ELSE 0
        BY <1>2
    <2> HIDE DEF m, n
    <2>4. /\ s \in Seq(Lines) /\ Len(s) = IF m <= n THEN n - m + 1 ELSE 0
          /\ \A k \in 1..n - m + 1 : s[k] = f[m + k - 1]
        BY <2>1, SubSeqProperties
    <2> QED
        BY <2>2, <2>3, <2>4
<1>6. s = b
    BY <1>1, <1>5, SeqEqual
<1> QED
    BY <1>1, <1>3, <1>6 DEF IsInfix

LEMMA RangeGrows ==
    ASSUME NEW f \in Seq(Lines), NEW x \in Seq(Lines)
    PROVE  Range(f \o x) = Range(f) \cup Range(x)
BY RangeConcatenation

LEMMA InitHolds == Init => LogInv
<1> SUFFICES ASSUME Init PROVE LogInv
    OBVIOUS
<1>1. LogTypeOK /\ Underway
    BY InitTyped
<1>2. Flushed /\ Kept
    BY DEF Init, Flushed, Kept, Buffers
<1>3. Once
    <2>1. \A b \in Batches : b # <<>>
        BY BatchesAreSequences DEF Started
    <2>2. NothingRecordedTwice
        BY DEF Init, NothingRecordedTwice
    <2> QED
        BY <2>1, <2>2 DEF Init, Once
<1> QED
    BY <1>1, <1>2, <1>3 DEF LogInv

-----------------------------------------------------------------------------
\* What is flushed while nothing is garbled comes behind what was flushed before.
LEMMA PiecesLie ==
    ASSUME LogTypeOK, Underway, Flushed, NEW w \in Writers, NEW x, Arrives(w, x),
           Garbled \notin Range(file')
    PROVE  Len(x) \in Nat /\ Start(w) \in Nat /\ Lies(batch[w], Start(w) + Len(x), file')
<1>1. /\ Buffers(w) /\ file' = file \o x /\ file \in Seq(Lines) /\ x \in Seq(Lines)
      /\ Copies(x, w, Start(w))
    BY DEF Arrives, Copies, LogTypeOK
<1>2. Garbled \notin Range(x) /\ Garbled \notin Range(file)
    BY <1>1, RangeGrows
<1>3. PICK o : o = Start(w)
    OBVIOUS
<1>4. o \in Nat /\ \A k \in 1..Len(x) : x[k] = batch[w][o + k] \/ x[k] = Garbled
    BY <1>1, <1>3 DEF Copies
<1>5. \A k \in 1..Len(x) : x[k] = batch[w][o + k]
    BY <1>1, <1>2, <1>4, LinesOfBatch
<1>6. Lies(batch[w], o, file)
    BY <1>1, <1>2, <1>3 DEF Flushed
<1>7. Lies(batch[w], o + Len(x), file \o x)
    BY <1>1, <1>4, <1>5, <1>6, LyingFurther
<1> QED
    BY <1>1, <1>3, <1>4, <1>7, LenProperties

\* What is complete in the log when an append returns.
LEMMA KeptPreserved ==
    ASSUME LogTypeOK, Underway, Flushed, Kept, UNCHANGED backend, NEW w \in Writers, AppendStep(w)
    PROVE  Kept'
<1> SUFFICES ASSUME Garbled \notin Range(file')
             PROVE  \A b \in acked' : IF backend = "s3" THEN Sits(b, file') ELSE Lies(b, Len(b), file')
    BY DEF Kept
<1>1. PICK x \in Seq(Lines) : Copies(x, w, Start(w)) /\ file' = file \o x
    BY StepsOnlyAppend
<1>2. file \in Seq(Lines) /\ Range(file') = Range(file) \cup Range(x)
    BY <1>1, RangeGrows DEF LogTypeOK
<1>3. \A b \in Started : b \in Seq(Lines) /\ Len(b) \in Nat
    BY BatchesAreSequences
<1>4. \A b \in acked : IF backend = "s3" THEN Sits(b, file') ELSE Lies(b, Len(b), file')
    BY <1>1, <1>2, <1>3, SittingStill, LyingStill DEF Kept, LogTypeOK
<1>5. CASE UNCHANGED acked
    BY <1>4, <1>5
\* S3: the whole batch is behind what was there
<1>6. CASE PutBody(w) /\ BodyUnchanged(w)
    <2>1. /\ batch[w] \in Started /\ file' = file \o batch[w] /\ acked' = acked \cup {batch[w]}
          /\ backend = "s3"
        BY <1>6, LogConstants DEF PutBody, BodyUnchanged, Underway, LogTypeOK
    <2>2. PICK b \in Seq(Lines) : b = batch[w]
        BY <1>3, <2>1
    <2>3. /\ Len(file') = Len(file) + Len(b) /\ Len(file) \in Nat /\ Len(b) \in Nat
          /\ \A k \in 1..Len(b) : file'[Len(file) + k] = b[k]
        BY <1>2, <2>1, <2>2, LinesOfConcat, LenProperties, ZenonT(40)
    <2>4. Len(file) \in 0..Len(file') - Len(b)
        BY <2>3
    <2>5. Sits(batch[w], file')
        BY <2>2, <2>3, <2>4 DEF Sits
    <2> QED
        BY <1>4, <2>1, <2>5
\* JSONL: the last piece is behind the others
<1>7. CASE Flushes(w)
    <2>1. PICK y \in Seq(Lines) : Arrives(w, y) /\ (Ends(w, y) \/ Continues(w, y))
        BY <1>7, PiecesArrive
    <2>2. CASE Continues(w, y)
        BY <1>5, <2>2 DEF Continues
    <2>3. CASE Ends(w, y)
        <3>1. /\ Buffers(w) /\ batch[w] \in Started /\ backend # "s3"
              /\ Len(y) = Len(loaded[w]) /\ acked' = acked \cup {batch[w]}
            BY <2>1, <2>3 DEF Arrives, Ends
        <3>2. Len(y) \in Nat /\ Lies(batch[w], Start(w) + Len(y), file')
            BY <2>1, PiecesLie
        <3>3. Start(w) = Len(batch[w]) - Len(loaded[w]) /\ Len(loaded[w]) \in 1..Len(batch[w])
            BY <3>1 DEF Start, Underway
        <3>4. Start(w) + Len(y) = Len(batch[w])
            BY <1>3, <3>1, <3>2, <3>3
        <3> QED
            BY <1>4, <3>1, <3>2, <3>4
    <2> QED
        BY <2>1, <2>2, <2>3
<1> QED
    BY <1>5, <1>6, <1>7
       DEF AppendStep, Flushes, StartAppend, StartSeed, Begin, LoadBody, PutBody, LoseResponse,
           Crash

\* What the others have flushed stays, and w's next piece comes behind its last.
LEMMA FlushedPreserved ==
    ASSUME LogTypeOK, Underway, Flushed, NEW w \in Writers, AppendStep(w)
    PROVE  Flushed'
<1> SUFFICES ASSUME NEW v \in Writers, Buffers(v)', Garbled \notin Range(file')
             PROVE  Lies(batch'[v], Start(v)', file')
    BY DEF Flushed
<1>1. PICK x \in Seq(Lines) : Copies(x, w, Start(w)) /\ file' = file \o x
    BY StepsOnlyAppend
<1>2. file \in Seq(Lines) /\ Range(file') = Range(file) \cup Range(x)
    BY <1>1, RangeGrows DEF LogTypeOK
<1>3. \A b \in Started : b \in Seq(Lines) /\ Len(b) \in Nat
    BY BatchesAreSequences
<1>4. CASE Buffers(v) /\ pc'[v] \in {"write", "rest"} /\ batch'[v] = batch[v] /\ loaded'[v] = loaded[v]
    <2>1. Start(v)' = Start(v)
        BY <1>4 DEF Start, Buffers
    <2>2. Start(v) \in Nat
        BY AddingNothing DEF Copies
    <2>3. Lies(batch[v], Start(v), file)
        BY <1>2, <1>4 DEF Flushed
    <2> QED
        BY <1>1, <1>2, <1>4, <2>1, <2>2, <2>3, LyingStill
<1>5. CASE v # w
    BY <1>4, <1>5 DEF Buffers, LogTypeOK, AppendStep, StartAppend, StartSeed, Begin, LoadBody, PutBody,
       LoseResponse, FlushAll, FlushSome, WriteShort, Crash, Finish
<1>6. CASE v = w /\ Flushes(w)
    <2>1. PICK y \in Seq(Lines) : Arrives(w, y) /\ (Ends(w, y) \/ Continues(w, y))
        BY <1>6, PiecesArrive
    <2>2. Continues(w, y)
        BY <1>6, <2>1 DEF Ends, Finish, Buffers, LogTypeOK
    <2>3. PICK r \in Seq(Lines) :
             /\ loaded' = [loaded EXCEPT ![w] = r]
             /\ Len(r) \in 1..Len(loaded[w]) /\ Len(loaded[w]) = Len(y) + Len(r)
        BY <2>2 DEF Continues
    <2>4. batch' = batch /\ loaded'[w] = r
        BY <2>2, <2>3 DEF Continues, LogTypeOK
    <2>5. Len(y) \in Nat /\ Lies(batch[w], Start(w) + Len(y), file')
        BY <2>1, PiecesLie
    <2>6. /\ Start(w) = Len(batch[w]) - Len(loaded[w]) /\ Len(batch[w]) \in Nat
          /\ Start(w)' = Len(batch[w]) - Len(r)
        BY <1>3, <1>6, <2>1, <2>4 DEF Start, Arrives
    <2>7. Start(w)' = Start(w) + Len(y)
        BY <2>3, <2>5, <2>6
    <2> QED
        BY <1>6, <2>4, <2>5, <2>7
\* an append that begins has flushed nothing
<1>7. CASE v = w /\ (StartAppend(w) \/ StartSeed(w))
    <2>1. PICK b \in Started : Begin(w, b) /\ pc[w] = "idle"
        BY <1>7 DEF StartAppend, StartSeed, Started
    <2>2. batch'[w] = b /\ loaded'[w] = b /\ Start(w)' = 0
        BY <1>3, <1>7, <2>1 DEF Begin, Buffers, Start, LogTypeOK
    <2>3. Lies(b, 0, file')
        <3>1. PICK at : at = [k \in 1..0 |-> 0]
            OBVIOUS
        <3>2. at \in [1..0 -> 1..Len(file')]
            BY <3>1
        <3>3. /\ \A k \in 1..0 : file'[at[k]] = b[k]
              /\ \A j, k \in 1..0 : j < k => at[j] < at[k]
            OBVIOUS
        <3> QED
            BY <3>2, <3>3, Zenon DEF Lies
    <2> QED
        BY <1>7, <2>2, <2>3
<1> QED
    BY <1>4, <1>5, <1>6, <1>7 DEF Buffers, LogTypeOK, AppendStep, Flushes, LoadBody, PutBody,
       LoseResponse, Crash, Finish, Underway

\* The lines that a step adds are its own batch's, or garbled.
LEMMA LinesAdded ==
    ASSUME LogTypeOK, Underway, NEW w \in Writers, NEW o, NEW x, Copies(x, w, o)
    PROVE  \A k \in 1..Len(x) : x[k] # Garbled =>
             /\ batch[w] \in Started /\ o + k \in 1..Len(batch[w])
             /\ x[k] = batch[w][o + k] /\ x[k] \in Range(batch[w])
<1> SUFFICES ASSUME NEW k \in 1..Len(x), x[k] # Garbled
             PROVE  /\ batch[w] \in Started /\ o + k \in 1..Len(batch[w])
                    /\ x[k] = batch[w][o + k] /\ x[k] \in Range(batch[w])
    OBVIOUS
<1>1. /\ x \in Seq(Lines) /\ o \in Nat /\ o + Len(x) <= Len(batch[w])
      /\ x[k] = batch[w][o + k]
    BY DEF Copies
<1>2. batch[w] \in Seq(Lines)
    BY DEF LogTypeOK
<1>3. Len(x) \in Nat /\ Len(batch[w]) \in Nat
    BY <1>1, <1>2, LenProperties
<1>4. o + k \in 1..Len(batch[w])
    BY <1>1, <1>3
<1>5. x[k] \in Range(batch[w])
    BY <1>1, <1>2, <1>4, LinesOfBatch
<1>6. batch[w] # <<>>
    BY <1>4, EmptySeq
<1>7. batch[w] \in Started
    BY <1>6 DEF Underway
<1> QED
    BY <1>1, <1>4, <1>5, <1>7

\* A step adds nothing of its batch that is in the log already.
LEMMA NewLinesAreNew ==
    ASSUME LogTypeOK, Underway, Once, NEW w \in Writers, AppendStep(w), batch[w] \in Batches,
           NEW x, Copies(x, w, Start(w)), file' = file \o x
    PROVE  \A k \in 1..Len(x) : x[k] # Garbled => x[k] \notin Range(file)
<1>1. batch[w] \in Started /\ Unwritten(w) /\ x \in Seq(Lines) /\ file \in Seq(Lines)
    BY DEF Started, Once, Copies, LogTypeOK
<1>2. CASE file' = file
    <2>1. x = <<>>
        <3>1. Len(file) = Len(file) + Len(x) /\ Len(file) \in Nat /\ Len(x) \in Nat
            BY <1>1, <1>2, LinesOfConcat, LenProperties, ZenonT(40)
        <3> QED
            BY <1>1, <3>1, EmptySeq
    <2> QED
        BY <2>1
<1>3. CASE Range(batch[w]) \cap Range(file) = {}
    BY <1>3, LinesAdded
<1>4. CASE Buffers(w)
    <2> SUFFICES ASSUME NEW k \in 1..Len(x), x[k] # Garbled PROVE x[k] \notin Range(file)
        OBVIOUS
    <2>1. /\ loaded[w] \in Seq(Lines) /\ Len(loaded[w]) \in 1..Len(batch[w])
          /\ Range(loaded[w]) \cap Range(file) = {}
          /\ \A m \in 1..Len(loaded[w]) :
               loaded[w][m] = batch[w][Len(batch[w]) - Len(loaded[w]) + m]
        BY <1>1, <1>4 DEF LogTypeOK, Underway, Unwritten
    <2>2. PICK o : o = Start(w)
        OBVIOUS
    <2>3. /\ o \in Nat /\ o = Len(batch[w]) - Len(loaded[w])
          /\ o + Len(x) <= Len(batch[w]) /\ x[k] = batch[w][o + k]
        BY <1>4, <2>2, LinesAdded DEF Copies, Start
    <2>4. Len(x) \in Nat /\ Len(batch[w]) \in Nat /\ Len(loaded[w]) \in Nat
        BY <1>1, <2>1, BatchesAreSequences, LenProperties
    <2>5. k \in 1..Len(loaded[w])
        BY <2>3, <2>4
    <2>6. x[k] = loaded[w][k]
        BY <2>1, <2>3, <2>5
    <2> QED
        BY <2>1, <2>5, <2>6, LinesOfBatch
<1>5. pc[w] = "load" => Range(batch[w]) \cap Range(file) = {}
    BY <1>1 DEF Unwritten
<1>6. pc[w] = "put" /\ loaded[w] = file => Range(batch[w]) \cap Range(file) = {}
    BY <1>1 DEF Unwritten
<1> QED
    BY <1>2, <1>3, <1>4, <1>5, <1>6
       DEF AppendStep, StartAppend, StartSeed, Begin, LoadBody, PutBody, BodyUnchanged,
           LoseResponse, FlushAll, FlushSome, WriteShort, Crash, Buffers

\* No event gets into the log a second time: every step adds events of its own
\* batch, which nobody else appends, and none that are there already.
LEMMA OncePreserved ==
    ASSUME LogTypeOK, Underway, Once, NEW w \in Writers, AppendStep(w)
    PROVE  Once'
<1>1. PICK x \in Seq(Lines) : Copies(x, w, Start(w)) /\ file' = file \o x
    BY StepsOnlyAppend
<1>2. PICK o \in Nat : o = Start(w)
    BY <1>1 DEF Copies
<1>3. /\ file \in Seq(Lines) /\ file' \in Seq(Lines)
      /\ Len(file) \in Nat /\ Len(x) \in Nat /\ Len(file') = Len(file) + Len(x)
      /\ Range(file') = Range(file) \cup Range(x)
    BY <1>1, LinesOfConcat, RangeGrows, LenProperties DEF LogTypeOK
<1>4. \A k \in 1..Len(x) : x[k] # Garbled =>
        /\ batch[w] \in Started /\ o + k \in 1..Len(batch[w])
        /\ x[k] = batch[w][o + k] /\ x[k] \in Range(batch[w])
    BY <1>1, <1>2, LinesAdded
<1>5. batch[w] \in Batches => \A k \in 1..Len(x) : x[k] # Garbled => x[k] \notin Range(file)
    BY <1>1, NewLinesAreNew
<1>6. \A b \in Started : Garbled \notin Range(b)
    BY LogConstants DEF Started
<1>7. \A b, c \in Started : b # c => Range(b) \cap Range(c) = {}
    BY LogConstants DEF Started
<1>8. Batches \subseteq Started
    BY DEF Started
\* whoever else is under way has other events than these
<1>9. ASSUME NEW b \in Started, b # batch[w] PROVE Range(b) \cap Range(x) = {}
    <2> SUFFICES ASSUME NEW k \in 1..Len(x), x[k] \in Range(b) PROVE FALSE
        BY <1>1, LinesOfBatch
    <2>1. x[k] # Garbled
        BY <1>6
    <2> QED
        BY <1>4, <1>7, <1>9, <2>1
<1>10. NothingRecordedTwice'
    <2> SUFFICES ASSUME NEW b \in Batches, NEW i \in 1..Len(file'), NEW j \in 1..Len(file'),
                        file'[i] = file'[j], file'[i] \in Range(b), i < j
                 PROVE  FALSE
        <3>1. DOMAIN file' = 1..Len(file')
            BY <1>3, LenProperties
        <3>2. \A i, j \in 1..Len(file') : i = j \/ i < j \/ j < i
            BY <1>3
        <3> QED
            BY <3>1, <3>2 DEF NothingRecordedTwice
    <2>1. /\ \A k \in 1..Len(file) : file'[k] = file[k]
          /\ \A k \in 1..Len(x) : file'[Len(file) + k] = x[k]
        BY <1>1, <1>3, LinesOfConcat
    <2>2. CASE j <= Len(file)
        <3>1. i \in 1..Len(file) /\ j \in 1..Len(file) /\ i # j
            BY <1>3, <2>2
        <3>2. DOMAIN file = 1..Len(file)
            BY <1>3, LenProperties
        <3> QED
            BY <2>1, <3>1, <3>2 DEF Once, NothingRecordedTwice
    <2>3. CASE j > Len(file)
        <3>1. PICK n \in 1..Len(x) : j = Len(file) + n
            <4>1. j - Len(file) \in 1..Len(x) /\ j = Len(file) + (j - Len(file))
                BY <1>3, <2>3
            <4> QED
                BY <4>1
        <3>2. file'[j] = x[n] /\ x[n] \in Range(b) /\ x[n] # Garbled
            BY <1>6, <1>8, <2>1, <3>1
        <3>3. b = batch[w]
            BY <1>4, <1>7, <1>8, <3>2
        <3>4. x[n] \notin Range(file)
            BY <1>5, <3>2, <3>3
        <3>5. CASE i <= Len(file)
            <4>1. i \in 1..Len(file)
                BY <1>3, <3>5
            <4>2. file[i] = x[n]
                BY <2>1, <3>2, <4>1
            <4> QED
                BY <1>3, <3>4, <4>1, <4>2, LinesOfBatch
        <3>6. CASE i > Len(file)
            <4>1. PICK m \in 1..Len(x) : i = Len(file) + m
                <5>1. i - Len(file) \in 1..Len(x) /\ i = Len(file) + (i - Len(file))
                    BY <1>3, <3>6
                <5> QED
                    BY <5>1
            <4>2. x[m] = x[n] /\ m # n
                BY <1>3, <2>1, <3>1, <3>2, <4>1
            <4>3. /\ o + m \in 1..Len(b) /\ x[m] = b[o + m]
                  /\ o + n \in 1..Len(b) /\ x[n] = b[o + n]
                BY <1>4, <3>2, <3>3, <4>2
            <4>4. o + m = o + n
                BY <1>8, <4>2, <4>3, BatchesAreSequences
            <4> QED
                BY <4>2, <4>4
        <3> QED
            BY <1>3, <3>5, <3>6
    <2> QED
        BY <1>3, <2>2, <2>3
<1>11. \A u, v \in Writers : batch'[u] \in Batches /\ batch'[u] = batch'[v] => u = v
    <2>1. <<>> \notin Batches /\ SeedBatch \notin Batches
        BY <1>8, BatchesAreSequences, LogConstants
    <2>2. batch \in [Writers -> Seq(Lines)]
        BY DEF LogTypeOK
    <2>3. CASE UNCHANGED batch
        BY <2>3 DEF Once
    <2>4. CASE batch' = [batch EXCEPT ![w] = <<>>]
        BY <2>1, <2>2, <2>4 DEF Once
    <2>5. CASE batch' = [batch EXCEPT ![w] = SeedBatch]
        BY <2>1, <2>2, <2>5 DEF Once
    <2>6. ASSUME NEW b \in Batches, Fresh(b), batch' = [batch EXCEPT ![w] = b]
          PROVE  \A u, v \in Writers : batch'[u] \in Batches /\ batch'[u] = batch'[v] => u = v
        BY <2>2, <2>6 DEF Once, Fresh
    <2> QED
        BY <2>3, <2>4, <2>5, <2>6
           DEF AppendStep, StartAppend, StartSeed, Begin, LoadBody, PutBody, LoseResponse,
               FlushAll, FlushSome, WriteShort, Crash, Finish
<1>12. ASSUME NEW v \in Writers, v # w, batch'[v] \in Batches PROVE Unwritten(v)'
    <2>1. pc'[v] = pc[v] /\ batch'[v] = batch[v] /\ loaded'[v] = loaded[v]
        BY <1>12 DEF LogTypeOK, AppendStep, StartAppend, StartSeed, Begin, LoadBody, PutBody,
           LoseResponse, FlushAll, FlushSome, WriteShort, Crash, Finish
    <2>2. batch[v] \in Batches /\ batch[v] \in Started /\ batch[v] # batch[w] /\ Unwritten(v)
        BY <1>8, <1>12, <2>1 DEF Once
    <2>3. Range(batch[v]) \cap Range(x) = {}
        BY <1>9, <2>2
    <2>4. CASE pc[v] = "load"
        BY <1>3, <2>1, <2>2, <2>3, <2>4 DEF Unwritten, Buffers
    <2>5. CASE pc[v] = "put"
        <3>1. loaded[v] = file' => loaded[v] = file
            <4>1. file' = file \/ Len(file) < Len(file')
                BY <1>1, <1>3, LongerOrSame
            <4>2. loaded[v] = file \/ Len(loaded[v]) < Len(file)
                BY <2>5 DEF Underway
            <4>3. loaded[v] \in Seq(Lines) /\ Len(loaded[v]) \in Nat
                BY LenProperties DEF LogTypeOK
            <4> QED
                BY <1>3, <4>1, <4>2, <4>3
        <3> QED
            BY <1>3, <2>1, <2>2, <2>3, <2>5, <3>1 DEF Unwritten, Buffers
    <2>6. CASE Buffers(v)
        <3>1. Range(loaded[v]) \subseteq Range(batch[v])
            <4>1. /\ loaded[v] \in Seq(Lines) /\ Len(loaded[v]) \in 1..Len(batch[v])
                  /\ \A k \in 1..Len(loaded[v]) :
                       loaded[v][k] = batch[v][Len(batch[v]) - Len(loaded[v]) + k]
                BY <2>6 DEF LogTypeOK, Underway
            <4>2. batch[v] \in Seq(Lines) /\ Len(batch[v]) \in Nat /\ Len(loaded[v]) \in Nat
                BY <2>2, <4>1, BatchesAreSequences, LenProperties
            <4>3. \A k \in 1..Len(loaded[v]) : loaded[v][k] \in Range(batch[v])
                <5> TAKE k \in 1..Len(loaded[v])
                <5>1. Len(batch[v]) - Len(loaded[v]) + k \in 1..Len(batch[v])
                    BY <4>1, <4>2, Differences
                <5> QED
                    BY <4>1, <4>2, <5>1, LinesOfBatch, ZenonT(40)
            <4> QED
                BY <4>1, <4>3, LinesOfBatch
        <3> QED
            BY <1>3, <2>1, <2>2, <2>3, <2>6, <3>1 DEF Unwritten, Buffers
    <2>7. CASE pc[v] = "idle"
        BY <2>1, <2>7 DEF Unwritten, Buffers
    <2> QED
        BY <2>4, <2>5, <2>6, <2>7 DEF LogTypeOK, Buffers
<1>13. ASSUME batch'[w] \in Batches PROVE Unwritten(w)'
    <2>1. <<>> \notin Batches /\ SeedBatch \notin Batches
        BY <1>8, BatchesAreSequences, LogConstants
    <2> USE DEF LogTypeOK
    <2>2. CASE StartAppend(w)
        <3>1. PICK b \in Batches : Fresh(b) /\ Begin(w, b)
            BY <2>2 DEF StartAppend
        <3> QED
            BY <3>1 DEF Begin, Fresh, Unwritten, Buffers
    <2>3. CASE StartSeed(w)
        BY <1>13, <2>1, <2>3 DEF StartSeed, Begin
    <2>4. CASE LoadBody(w)
        BY <1>13, <2>4 DEF LoadBody, Unwritten, Once, Buffers
    <2>5. CASE LoseResponse(w)
        <3>1. batch[w] \in Started /\ file' = file \o batch[w] /\ loaded[w] = file
              /\ pc'[w] = "put" /\ loaded'[w] = loaded[w]
            BY <2>5 DEF LoseResponse, Underway
        <3>2. file' # file
            <4>1. Len(batch[w]) \in Nat \ {0} /\ batch[w] \in Seq(Lines)
                BY <3>1, BatchesAreSequences
            <4> QED
                BY <1>3, <3>1, <4>1, LinesOfConcat
        <3> QED
            BY <3>1, <3>2 DEF Unwritten, Buffers
    <2>6. CASE Flushes(w)
        <3>1. PICK y \in Seq(Lines) : Arrives(w, y) /\ (Ends(w, y) \/ Continues(w, y))
            BY <2>6, PiecesArrive
        <3>2. Continues(w, y)
            BY <1>13, <2>1, <3>1 DEF Ends, Finish
        <3>3. PICK r \in Seq(Lines) :
                 /\ loaded' = [loaded EXCEPT ![w] = r]
                 /\ Len(r) \in 1..Len(loaded[w]) /\ Len(loaded[w]) = Len(y) + Len(r)
                 /\ \A k \in 1..Len(r) : r[k] = loaded[w][Len(y) + k]
            BY <3>2 DEF Continues
        <3>4. PICK p \in {"write", "rest"} : pc' = [pc EXCEPT ![w] = p]
            BY <3>2 DEF Continues
        <3>5. /\ Buffers(w) /\ Copies(y, w, Start(w)) /\ file' = file \o y
              /\ batch[w] \in Started /\ batch'[w] = batch[w] /\ batch[w] \in Batches
            BY <1>13, <3>1, <3>2 DEF Arrives, Continues
        <3>6. /\ loaded[w] \in Seq(Lines) /\ Len(loaded[w]) \in 1..Len(batch[w])
              /\ Range(loaded[w]) \cap Range(file) = {}
              /\ \A k \in 1..Len(loaded[w]) :
                   loaded[w][k] = batch[w][Len(batch[w]) - Len(loaded[w]) + k]
            BY <3>5 DEF Underway, Once, Unwritten
        <3>7. batch[w] \in Seq(Lines) /\ Len(batch[w]) \in Nat /\ Len(y) \in Nat /\ Len(r) \in Nat
              /\ Len(loaded[w]) \in Nat
            BY <3>5, <3>6, BatchesAreSequences, LenProperties
        <3>8. PICK m \in Nat : m = Len(batch[w]) - Len(loaded[w])
            <4>1. Len(batch[w]) - Len(loaded[w]) \in Nat
                BY <3>6, <3>7, Differences
            <4> QED
                BY <4>1
        <3>9. Start(w) = m
            BY <3>5, <3>8 DEF Start
        <3>13. \A i \in 1..Len(loaded[w]) : m + i \in 1..Len(batch[w]) /\ loaded[w][i] = batch[w][m + i]
            BY <3>6, <3>7, <3>8, Differences
        <3>10. ASSUME NEW k \in 1..Len(r) PROVE r[k] \notin Range(file')
            <4>1. Len(y) + k \in 1..Len(loaded[w]) /\ r[k] = loaded[w][Len(y) + k]
                BY <3>3, <3>7
            <4>2. m + (Len(y) + k) \in 1..Len(batch[w]) /\ r[k] = batch[w][m + (Len(y) + k)]
                <5>1. \A i \in 1..Len(loaded[w]) : m + i \in 1..Len(batch[w]) /\ loaded[w][i] = batch[w][m + i]
                    BY <3>13
                <5>2. PICK i \in 1..Len(loaded[w]) : i = Len(y) + k
                    BY <4>1
                <5> QED
                    BY <4>1, <5>1, <5>2
            <4>3. r[k] \notin Range(file) /\ r[k] # Garbled
                <5>1. r[k] \in Range(loaded[w])
                    <6>1. Range(loaded[w]) = {loaded[w][i] : i \in 1..Len(loaded[w])}
                        BY <3>6, LinesOfBatch
                    <6> QED
                        BY <4>1, <6>1
                <5>2. r[k] # Garbled
                    BY <3>5, <4>2, BatchesAreSequences
                <5> QED
                    BY <3>6, <5>1, <5>2
            <4>4. r[k] \notin Range(y)
                <5> SUFFICES ASSUME NEW i \in 1..Len(y), y[i] = r[k] PROVE FALSE
                    BY LinesOfBatch, ZenonT(40)
                <5>1. y[i] = batch[w][m + i] \/ y[i] = Garbled
                    BY <3>5, <3>9 DEF Copies
                <5>2. m + i \in 1..Len(batch[w])
                    <6>1. i \in 1..Len(loaded[w])
                        BY <3>3, <3>7
                    <6> QED
                        BY <3>13, <6>1
                <5>3. m + i # m + (Len(y) + k)
                    BY <3>7
                <5> QED
                    BY <3>5, <4>2, <4>3, <5>1, <5>2, <5>3, BatchesAreSequences
            <4>5. Range(file') = Range(file) \cup Range(y)
                BY <3>5, RangeGrows
            <4> QED
                BY <4>3, <4>4, <4>5
        <3>11. Range(r) \cap Range(file') = {}
            <4>1. Range(r) = {r[k] : k \in 1..Len(r)}
                BY LinesOfBatch
            <4> QED
                BY <3>10, <4>1
        <3>12. pc'[w] = p /\ loaded'[w] = r
            BY <3>3, <3>4
        <3> QED
            BY <3>11, <3>12 DEF Unwritten, Buffers
    <2> QED
        BY <1>13, <2>1, <2>2, <2>3, <2>4, <2>5, <2>6
           DEF AppendStep, Flushes, PutBody, Crash, Finish
<1> QED
    BY <1>10, <1>11, <1>12, <1>13 DEF Once

-----------------------------------------------------------------------------
\* Every step of every append preserves the invariant.
LEMMA StepHolds == LogInv /\ [Next]_vars => LogInv'
<1> SUFFICES ASSUME LogInv, [Next]_vars PROVE LogInv'
    OBVIOUS
<1> USE DEF LogInv
<1>1. CASE UNCHANGED vars
    BY <1>1 DEF vars, LogTypeOK, Underway, Flushed, Kept, Once, Unwritten, NothingRecordedTwice,
       Buffers, Start
<1>2. CASE Next
    <2>1. PICK w \in Writers : AppendStep(w)
        BY <1>2 DEF Next, AppendStep
    <2>2. UNCHANGED backend
        BY <1>2 DEF Next
    <2> QED
        BY <2>1, <2>2, TypePreserved, FlushedPreserved, KeptPreserved, OncePreserved
<1> QED
    BY <1>1, <1>2

LEMMA Invariance == Spec => []LogInv
BY InitHolds, StepHolds, PTL DEF Spec

\* An append that has returned is in the log for good, whole and in order, or
\* nobody can read the log at all: on S3 because of the ETag, in a file because
\* a piece comes behind the last one of the same batch, and because of where
\* interleaved and torn writes leave their damage.
THEOREM BatchesSurvive == Spec => []AcknowledgedBatchesSurvive
<1>1. LogInv => AcknowledgedBatchesSurvive
    <2> SUFFICES ASSUME LogInv, Readable, NEW b \in acked
                 PROVE  IF backend = "s3" THEN IsInfix(b, file) ELSE InOrder(b, file)
        BY DEF AcknowledgedBatchesSurvive
    <2>1. b \in Started /\ file \in Seq(Lines)
        BY DEF LogInv, LogTypeOK
    <2>2. IF backend = "s3" THEN Sits(b, file) ELSE Lies(b, Len(b), file)
        BY DEF LogInv, Kept, Readable
    <2>3. CASE backend = "s3"
        BY <2>1, <2>2, <2>3, BatchesAreSequences, SitsMeansInfix
    <2>4. CASE backend # "s3"
        BY <2>2, <2>4 DEF Lies, InOrder
    <2> QED
        BY <2>3, <2>4
<1> QED
    BY <1>1, Invariance, PTL

\* However appends race, are lost half way, or are repeated by the S3 client
\* after a lost response: no event is in the log twice.
THEOREM NothingTwice == Spec => []NothingRecordedTwice
<1>1. LogInv => NothingRecordedTwice
    BY DEF LogInv, Once
<1> QED
    BY <1>1, Invariance, PTL

\* No append of either backend changes what is in the log.
THEOREM LogGrows == Spec => LogOnlyGrows
<1>1. LogInv /\ [Next]_vars => [IsPrefix(file, file')]_vars
    <2> SUFFICES ASSUME LogInv, Next PROVE IsPrefix(file, file')
        OBVIOUS
    <2>1. PICK w \in Writers : AppendStep(w)
        BY DEF Next, AppendStep
    <2>2. PICK x \in Seq(Lines) : file' = file \o x
        BY <2>1, StepsOnlyAppend DEF LogInv
    <2> QED
        BY <2>2, LongerOrSame DEF LogInv, LogTypeOK
<1> QED
    BY <1>1, Invariance, PTL DEF Spec, LogOnlyGrows
==============================================================================
