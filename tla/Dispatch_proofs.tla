--------------------------- MODULE Dispatch_proofs ----------------------------
(***************************************************************************)
(* What the runs of Dispatch check on one or two handlers and three or     *)
(* four requests, for any number of them.                                  *)
(***************************************************************************)
EXTENDS Dispatch, SequenceTheorems, FiniteSetTheorems, InductionLemmas, TLAPS

-----------------------------------------------------------------------------
(* The store.                                                              *)

\* A commit that is under way holds a whole plan, and one past its put finds
\* its id stored; HEAD names something stored.  Either backend.
Underway ==
    /\ \A w \in Writers : pc[w] # "idle" => plan[w] \in Plans
    /\ \A w \in Writers : pc[w] \in {"write", "move"} => plan[w].id \in DOMAIN stored
    /\ head \in DOMAIN stored \cup {None}

\* S3 only: nothing is ever half written, and the ETag a commit holds is of
\* the head its caller named.
Conditional ==
    ConditionalWrites =>
        /\ stored \in [DOMAIN stored -> Versions]
        /\ \A w \in Writers : pc[w] # "write"
        /\ \A w \in Writers : pc[w] # "idle" => etag[w] = seen[w]

StoreInv == StoreTypeOK /\ Underway /\ Conditional

\* The initial states satisfy the invariant.
LEMMA InitEstablishes == StoreInit => StoreInv
<1> SUFFICES ASSUME StoreInit PROVE StoreInv
    OBVIOUS
<1>1. StoreTypeOK
    BY DEF StoreInit, StoreTypeOK, Replies, Steps
<1>2. Underway
    BY DEF StoreInit, Underway
<1>3. Conditional
    BY DEF StoreInit, Conditional
<1> QED
    BY <1>1, <1>2, <1>3 DEF StoreInv

\* Every step of the store preserves it.
LEMMA StepPreserves == StoreInv /\ [StoreNext]_storeVars => StoreInv'
<1> SUFFICES ASSUME StoreInv, [StoreNext]_storeVars PROVE StoreInv'
    OBVIOUS
<1> USE DEF StoreInv, StoreTypeOK, Underway, Conditional
<1>1. CASE UNCHANGED storeVars
    BY <1>1 DEF storeVars
<1>2. ASSUME NEW w \in Writers, ReadHead(w) PROVE StoreInv'
    BY <1>2 DEF ReadHead, callVars
<1>3. ASSUME NEW w \in Writers, NEW id \in Ids, NEW version \in Versions, Begin(w, id, version)
      PROVE  StoreInv'
    <2>1. [id |-> id, version |-> version] \in Plans
        BY DEF Plans
    <2>2. CASE Expected(w) /\ pc' = [pc EXCEPT ![w] = "put"]
        BY <1>3, <2>1, <2>2 DEF Begin, Expected, Return, Replies, Steps
    <2>3. CASE Return(w, "conflict") \/ Return(w, "error")
        BY <1>3, <2>3 DEF Begin, Return, Replies, Steps
    <2> QED
        BY <1>3, <2>2, <2>3 DEF Begin
<1>4. ASSUME NEW w \in Writers, PutVersion(w) PROVE StoreInv'
    <2>1. plan[w] \in Plans /\ plan[w].id \in Ids /\ plan[w].version \in Versions
        BY <1>4 DEF PutVersion, Plans
    <2>2. CASE plan[w].id \notin DOMAIN stored
        <3>1. stored \in [DOMAIN stored -> Versions]
            BY <1>4 DEF PutVersion
        <3>2. stored' = With(stored, plan[w].id, plan[w].version)
            BY <1>4, <2>2 DEF PutVersion
        <3>3. /\ DOMAIN stored' = DOMAIN stored \cup {plan[w].id}
              /\ stored' \in [DOMAIN stored' -> Versions]
            BY <2>1, <3>1, <3>2 DEF With
        <3> QED
            BY <1>4, <2>1, <2>2, <3>3 DEF PutVersion, Goto, Steps
    <2>3. CASE plan[w].id \in DOMAIN stored
        BY <1>4, <2>1, <2>3 DEF PutVersion, Goto, Return, Replies, Steps
    <2> QED
        BY <2>2, <2>3
<1>5. ASSUME NEW w \in Writers, TruncateVersion(w) \/ WriteVersion(w) PROVE StoreInv'
    <2>1. ~ConditionalWrites
        BY <1>5 DEF TruncateVersion, WriteVersion
    <2>2. plan[w] \in Plans /\ plan[w].id \in Ids /\ plan[w].version \in Versions
        BY <1>5 DEF TruncateVersion, WriteVersion, Plans
    <2>3. PICK v \in Versions \cup {Torn} : stored' = With(stored, plan[w].id, v)
        BY <1>5, <2>2 DEF TruncateVersion, WriteVersion
    <2>4. /\ DOMAIN stored' = DOMAIN stored \cup {plan[w].id}
          /\ stored' \in [DOMAIN stored' -> Versions \cup {Torn}]
        BY <2>2, <2>3 DEF With
    <2> QED
        BY <1>5, <2>1, <2>2, <2>4 DEF TruncateVersion, WriteVersion, Goto, Steps
<1>6. ASSUME NEW w \in Writers, MoveHead(w) PROVE StoreInv'
    <2>1. plan[w] \in Plans /\ plan[w].id \in Ids
        BY <1>6 DEF MoveHead, Plans
    <2> QED
        BY <1>6, <2>1 DEF MoveHead, Return, Replies, Steps
<1>7. ASSUME NEW w \in Writers, LoseResponse(w) PROVE StoreInv'
    <2>1. plan[w] \in Plans /\ plan[w].id \in Ids
        BY <1>7 DEF LoseResponse, Plans
    <2> QED
        BY <1>7, <2>1 DEF LoseResponse, callVars
<1>8. ASSUME NEW w \in Writers, Crash(w) PROVE StoreInv'
    BY <1>8 DEF Crash, Return, Replies, Steps
<1> QED
    BY <1>1, <1>2, <1>3, <1>4, <1>5, <1>6, <1>7, <1>8 DEF StoreNext, CommitStep

LEMMA Invariance == StoreSpec => []StoreInv
BY InitEstablishes, StepPreserves, PTL DEF StoreSpec

\* Every variable keeps its type, whatever the backend and however many
\* writers commit at once.
THEOREM StoreTypeCorrect == StoreSpec => []StoreTypeOK
<1>1. StoreInv => StoreTypeOK
    BY DEF StoreInv
<1> QED
    BY <1>1, Invariance, PTL

\* On S3, HEAD names a version that can be loaded, at every moment: between
\* any two accesses of any writers and after any crash.
THEOREM HeadAlwaysReadable ==
    ASSUME ConditionalWrites PROVE StoreSpec => []HeadIsReadable
<1>1. StoreInv => HeadIsReadable
    BY StoreConstants DEF StoreInv, Underway, Conditional, HeadIsReadable
<1> QED
    BY <1>1, Invariance, PTL

-----------------------------------------------------------------------------
\* On S3, only PutVersion writes a version, and only under an id that is free:
\* a stored version stays as it is, whatever ids the writers minted.
THEOREM StoredVersionsNeverChange ==
    ASSUME ConditionalWrites PROVE StoreSpec => VersionsAreImmutable
<1>1. StoreInv /\ [StoreNext]_storeVars => [KeepVersions]_storeVars
    <2> SUFFICES ASSUME StoreInv, StoreNext PROVE KeepVersions
        BY DEF storeVars
    <2>1. PICK w \in Writers :
              \/ ReadHead(w)
              \/ \E id \in Ids, version \in Versions : Begin(w, id, version)
              \/ CommitStep(w) \/ LoseResponse(w) \/ Crash(w)
        BY DEF StoreNext
    <2>2. ~TruncateVersion(w) /\ ~WriteVersion(w)
        BY DEF StoreInv, Conditional, TruncateVersion, WriteVersion
    <2>3. CASE PutVersion(w)
        BY <2>3 DEF PutVersion, With, KeepVersions
    <2>4. CASE UNCHANGED stored
        BY <2>4 DEF KeepVersions
    <2> QED
        BY <2>1, <2>2, <2>3, <2>4
           DEF ReadHead, Begin, CommitStep, MoveHead, LoseResponse, Crash
<1> QED
    BY <1>1, Invariance, PTL DEF StoreSpec, VersionsAreImmutable

\* On S3, the head moves only in MoveHead and LoseResponse, under the ETag of
\* the head that the writer named: nobody's commit is discarded unseen.
THEOREM NoCommitIsEverDiscarded ==
    ASSUME ConditionalWrites PROVE StoreSpec => NoCommitIsDiscarded
<1>1. StoreInv /\ [StoreNext]_storeVars => [MoveKnowingly]_storeVars
    <2> SUFFICES ASSUME StoreInv, StoreNext, head' # head PROVE MoveKnowingly
        BY DEF storeVars, MoveKnowingly
    <2>1. PICK w \in Writers : MoveHead(w) \/ LoseResponse(w)
        BY DEF StoreNext, ReadHead, Begin, CommitStep, PutVersion, TruncateVersion,
               WriteVersion, Crash
    <2>2. pc[w] = "move" /\ head = etag[w] /\ head' = plan[w].id
        BY <2>1 DEF MoveHead, HeadMayMove, LoseResponse
    <2>3. etag[w] = seen[w]
        BY <2>2 DEF StoreInv, Conditional
    <2> QED
        BY <2>2, <2>3 DEF MoveKnowingly
<1> QED
    BY <1>1, Invariance, PTL DEF StoreSpec, NoCommitIsDiscarded

\* On S3, the accesses of a commit, its lost responses and its crashes are
\* steps or stutters of a store whose commits are atomic.
THEOREM CommitsAreAtomic ==
    ASSUME ConditionalWrites PROVE StoreSpec => ImplementsOptimisticHead
<1>1. StoreInit => Abstract!Init
    BY DEF StoreInit, Abstract!Init
<1>2. StoreInv /\ [StoreNext]_storeVars => [Abstract!Next]_Abstract!vars
    <2> SUFFICES ASSUME StoreInv, [StoreNext]_storeVars PROVE [Abstract!Next]_Abstract!vars
        OBVIOUS
    <2>1. CASE UNCHANGED storeVars
        BY <2>1 DEF storeVars, Abstract!vars
    <2>2. ASSUME NEW w \in Writers, ReadHead(w) PROVE Abstract!Next
        BY <2>2 DEF ReadHead, Abstract!ReadHead, Abstract!Next
    <2>3. ASSUME NEW w \in Writers, NEW id \in Ids, NEW version \in Versions,
                 Begin(w, id, version)
          PROVE  Abstract!Next
        <3>1. CASE reply' = [reply EXCEPT ![w] = "none"]
            BY <2>3, <3>1 DEF Begin, Abstract!Forget, Abstract!Next
        <3>2. ASSUME NEW answer \in {"conflict", "error"}, Return(w, answer) PROVE Abstract!Next
            BY <2>3, <3>2 DEF Begin, Return, Abstract!Refuse, Abstract!Next
        <3> QED
            BY <2>3, <3>1, <3>2 DEF Begin
    <2>4. ASSUME NEW w \in Writers, PutVersion(w) PROVE [Abstract!Next]_Abstract!vars
        <3>1. plan[w].id \in Ids /\ plan[w].version \in Versions
            BY <2>4 DEF PutVersion, StoreInv, Underway, Plans
        <3>2. CASE plan[w].id \notin DOMAIN stored
            BY <2>4, <3>1, <3>2 DEF PutVersion, Goto, With, Abstract!Keep, Abstract!Next
        <3>3. CASE Goto(w, "move") /\ UNCHANGED <<stored, head, seen>>
            BY <2>4, <3>3 DEF PutVersion, Goto, Abstract!vars
        <3>4. CASE Return(w, "conflict") /\ UNCHANGED <<stored, head, seen>>
            BY <2>4, <3>4 DEF PutVersion, Return, Abstract!Refuse, Abstract!Next
        <3> QED
            BY <2>4, <3>2, <3>3, <3>4 DEF PutVersion
    <2>5. ASSUME NEW w \in Writers, TruncateVersion(w) \/ WriteVersion(w) PROVE Abstract!Next
        BY <2>5 DEF TruncateVersion, WriteVersion, StoreInv, Conditional
    <2>6. ASSUME NEW w \in Writers, MoveHead(w) PROVE Abstract!Next
        <3>1. plan[w].id \in Ids /\ plan[w].id \in DOMAIN stored /\ etag[w] = seen[w]
            BY <2>6 DEF MoveHead, StoreInv, Underway, Conditional, Plans
        <3>2. CASE HeadMayMove(w)
            BY <2>6, <3>1, <3>2
               DEF MoveHead, HeadMayMove, Return, Abstract!Accept, Abstract!Next
        <3>3. CASE ~HeadMayMove(w)
            BY <2>6, <3>3 DEF MoveHead, Return, Abstract!Refuse, Abstract!Next
        <3> QED
            BY <3>2, <3>3
    <2>7. ASSUME NEW w \in Writers, LoseResponse(w) PROVE Abstract!Next
        <3>1. plan[w].id \in Ids /\ plan[w].id \in DOMAIN stored /\ etag[w] = seen[w]
            BY <2>7 DEF LoseResponse, StoreInv, Underway, Conditional, Plans
        <3> QED
            BY <2>7, <3>1 DEF LoseResponse, Abstract!Accept, Abstract!Next
    <2>8. ASSUME NEW w \in Writers, Crash(w) PROVE Abstract!Next
        BY <2>8 DEF Crash, Return, Abstract!Forget, Abstract!Next
    <2> QED
        BY <2>1, <2>2, <2>3, <2>4, <2>5, <2>6, <2>7, <2>8 DEF StoreNext, CommitStep
<1> QED
    BY <1>1, <1>2, Invariance, PTL DEF StoreSpec, ImplementsOptimisticHead, Abstract!Spec

-----------------------------------------------------------------------------
(* The handlers.                                                           *)

\* What can be recorded, and by which requests.
Appending == {"book", "cancel", "claim", "started", "overran", "outage"}
Recorded == {"booked", "cancelled", "claimed", "offered", "started", "overran", "outage"}
Entries == [kind : Recorded, job : Nat, who : Fitters \cup {None}, at : Nat]
Requests == [kind : AllKinds \cup {"none"}, job : Nat, who : Fitters \cup {None}, at : Nat,
             force : BOOLEAN]

\* What a booking still does once it is recorded, and what any request does
\* that has nothing left to record but an offer.
Booking == {"world", "base", "mintplan", "head", "commit", "place", "float"}
Working == Booking \cup {"choose", "quiet", "reroute"}
Stages == Working \cup {"idle", "mint", "append"}

HandlerTypes ==
    /\ log \in Seq(Entries) /\ clock \in Nat
    /\ step \in [Writers -> Stages]
    /\ req \in [Writers -> Requests]

\* Who records what.
Roles ==
    /\ \A w \in Writers : step[w] = "append" => req[w].kind \in Appending
    /\ \A w \in Writers : step[w] \in {"mint", "place", "float"} => req[w].kind = "book"
    /\ \A w \in Writers : step[w] \in Working \ Booking => req[w].kind # "book"

\* A stamp is on one event at most, if offers are left aside: they carry the
\* stamp of the booking they are about.
Stamps ==
    /\ \A i \in DOMAIN log : log[i].at \in 1..clock
    /\ \A i, k \in DOMAIN log :
         log[i].kind # "offered" /\ log[k].kind # "offered" /\ log[i].at = log[k].at => i = k

\* The stamps of events about to be recorded.
Pending ==
    /\ \A w \in Writers : step[w] = "append" => req[w].at \in 1..clock
    /\ \A w \in Writers : step[w] = "append" =>
         \A i \in DOMAIN log : log[i].kind # "offered" => log[i].at # req[w].at
    /\ \A v, w \in Writers :
         step[v] = "append" /\ step[w] = "append" /\ req[v].at = req[w].at => v = w

IsBooked(events, j, at) ==
    \E i \in DOMAIN events : events[i].kind = "booked" /\ events[i].job = j /\ events[i].at = at

\* An offer is for a job whose booking carries the same stamp.
Offers ==
    /\ \A w \in Writers : req[w].kind = "book" /\ step[w] \in Booking => IsBooked(log, req[w].job, req[w].at)
    /\ \A i \in DOMAIN log : log[i].kind = "offered" => IsBooked(log, log[i].job, log[i].at)

StampInv == HandlerTypes /\ Roles /\ Stamps /\ Pending /\ Offers

-----------------------------------------------------------------------------
(* The world.                                                              *)

LEMMA EventsAreEntries ==
    ASSUME HandlerTypes PROVE Events(Now) \subseteq Entries /\ Now \in Nat /\ DOMAIN log = 1..Now
<1>1. Now \in Nat /\ DOMAIN log = 1..Now
    BY DEF HandlerTypes, Now
<1>2. \A i \in 1..Now : log[i] \in Entries
    BY <1>1 DEF HandlerTypes
<1> QED
    BY <1>1, <1>2 DEF Events

LEMMA JobsAreNumbers ==
    ASSUME HandlerTypes PROVE Jobs(Now) \subseteq Nat /\ Active(Now) \subseteq Nat
                              /\ Schedulable(Now) \subseteq Nat
<1>1. Jobs(Now) \subseteq Nat
    BY EventsAreEntries DEF Jobs, Entries
<1> QED
    BY <1>1 DEF Active, Schedulable

\* Job ids are bounded, so one more than the highest is new.
LEMMA NextJobIsNew ==
    ASSUME HandlerTypes
    PROVE  HighestJob + 1 \in Nat /\ \A j \in Jobs(Now) : j < HighestJob + 1
<1>1. CASE Jobs(Now) = {}
    BY <1>1 DEF HighestJob
<1>2. CASE Jobs(Now) # {}
    <2> DEFINE f == [i \in 1..Now |-> log[i].job]
    <2>1. f \in [1..Now -> Nat] /\ Now \in Nat
        <3>1. \A i \in 1..Now : log[i] \in Entries
            BY EventsAreEntries DEF Events
        <3>2. \A e \in Entries : e.job \in Nat
            BY DEF Entries
        <3> QED
            BY <3>1, <3>2, EventsAreEntries
    <2>2. PICK m \in Nat : \A i \in 1..Now : f[i] <= m
        <3> HIDE DEF f
        <3> QED
            BY <2>1, ValuesAreBounded
    <2>3. \A i \in 1..Now : log[i].job <= m
        BY <2>2
    <2>4. \A j \in Jobs(Now) : j \in Nat /\ j <= m
        BY <2>3, JobsAreNumbers DEF Jobs, Events
    <2>5. Jobs(Now) \in SUBSET (0..m)
        BY <2>4
    <2>6. \E j \in Jobs(Now) : \A k \in Jobs(Now) : k <= j
        BY <1>2, <2>5, BoundedHaveGreatest
    <2>7. HighestJob \in Jobs(Now) /\ \A k \in Jobs(Now) : k <= HighestJob
        BY <1>2, <2>6 DEF HighestJob
    <2>8. HighestJob \in Nat
        BY <2>7, JobsAreNumbers
    <2> QED
        BY <2>7, <2>8, JobsAreNumbers
<1> QED
    BY <1>1, <1>2

\* The latest of some events is one of them, and none has a later stamp.
LEMMA LatestIsLast ==
    ASSUME NEW m \in Nat, NEW events, events # {}, \A e \in events : e.at \in 1..m
    PROVE  Latest(events) \in events /\ \A e \in events : e.at <= Latest(events).at
<1> DEFINE T == {e.at : e \in events}
<1>1. T \in SUBSET (0..m) /\ T # {}
    OBVIOUS
<1>2. \E x \in T : \A y \in T : y <= x
    <2> HIDE DEF T
    <2> QED
        BY <1>1, BoundedHaveGreatest
<1>3. PICK e \in events : \A f \in events : f.at <= e.at
    BY <1>2
<1> QED
    BY <1>3 DEF Latest

\* An offer that stands in a log whose stamps are as they should be is for an
\* active job: its booking carries its stamp, so a cancellation of the job is
\* either older than the booking, which then has the last word, or pops the
\* offer.
LEMMA StandingOffersAreActive == StampInv => OffersAreForActiveJobs
<1> SUFFICES ASSUME StampInv, NEW j \in Jobs(Now), HasOffer(Now, j), j \notin Active(Now)
             PROVE  FALSE
    BY DEF OffersAreForActiveJobs
<1> DEFINE Cancels == About(Now, j, {"cancelled"})
           Turns == About(Now, j, {"booked", "started", "cancelled"})
           OffersOf == About(Now, j, {"offered"})
<1>1. Now \in Nat /\ DOMAIN log = 1..Now /\ clock \in Nat
    BY EventsAreEntries DEF StampInv, HandlerTypes
<1>2. \A e \in Events(Now) : e \in Entries /\ e.at \in 1..clock /\ e.at \in Nat
    BY <1>1, EventsAreEntries DEF StampInv, Stamps, Events
<1>3. \A e, f \in Events(Now) :
        e.kind # "offered" /\ f.kind # "offered" /\ e.at = f.at => e = f
    BY <1>1 DEF StampInv, Stamps, Events
<1>4. \A kinds : About(Now, j, kinds) \subseteq Events(Now)
    BY DEF About
<1>5. PICK o \in OffersOf : o = Latest(OffersOf) /\ o = OfferOf(Now, j)
    <2>1. OffersOf # {}
        <3> SUFFICES ASSUME OffersOf = {} PROVE FALSE
            OBVIOUS
        <3>1. Latest(OffersOf) = [kind |-> "none", at |-> 0, job |-> 0, who |-> None]
            BY DEF Latest
        <3>2. Latest({}).kind = "none"
            BY DEF Latest
        <3> QED
            BY <3>1, <3>2 DEF HasOffer, OfferOf
    <2>2. Latest(OffersOf) \in OffersOf
        BY <1>1, <1>2, <1>4, <2>1, LatestIsLast
    <2>3. Latest({}).kind = "none"
        BY DEF Latest
    <2>4. OfferOf(Now, j) = Latest(OffersOf)
        BY <2>3 DEF HasOffer, OfferOf
    <2> QED
        BY <2>2, <2>4
<1>6. ~(Latest(Cancels).at > o.at)
    <2>1. Latest({}).kind = "none"
        BY DEF Latest
    <2> QED
        BY <1>5, <2>1 DEF HasOffer, OfferOf
<1>7. PICK b \in Events(Now) : b.kind = "booked" /\ b.job = j /\ b.at = o.at
    <2>1. o \in Events(Now) /\ o.kind = "offered" /\ o.job = j
        BY <1>5 DEF About
    <2>2. PICK i \in 1..Now : o = log[i]
        BY <2>1 DEF Events
    <2>3. PICK k \in 1..Now : log[k].kind = "booked" /\ log[k].job = j /\ log[k].at = o.at
        BY <1>1, <2>1, <2>2 DEF StampInv, Offers, IsBooked
    <2> QED
        BY <2>3 DEF Events
<1>8. PICK c \in Turns : c = Latest(Turns) /\ \A e \in Turns : e.at <= c.at
    <2>1. b \in Turns
        BY <1>7 DEF About
    <2>2. \A e \in Turns : e.at \in 1..clock
        BY <1>2, <1>4
    <2> QED
        BY <1>1, <2>1, <2>2, LatestIsLast
<1>9. c.kind = "cancelled"
    <2>1. JobState(Now, j) = "cancelled"
        BY DEF Active
    <2>2. c.kind \in {"booked", "started", "cancelled"}
        BY <1>8 DEF About
    <2>3. c.kind # "booked" /\ c.kind # "started"
        BY <1>8, <2>1 DEF JobState
    <2> QED
        BY <2>2, <2>3
<1>10. c \in Cancels /\ b \in Turns
    BY <1>7, <1>8, <1>9 DEF About
<1>11. c.at <= Latest(Cancels).at /\ Latest(Cancels) \in Events(Now)
    <2>1. \A e \in Cancels : e.at \in 1..clock
        BY <1>2, <1>4
    <2> QED
        BY <1>1, <1>4, <1>10, <2>1, LatestIsLast
<1>12. b.at <= c.at
    BY <1>8, <1>10
<1>13. c \in Events(Now) /\ o \in Events(Now)
    BY <1>4, <1>5, <1>8
<1>14. c.at = b.at
    BY <1>2, <1>6, <1>7, <1>11, <1>12, <1>13
<1> QED
    BY <1>3, <1>7, <1>9, <1>13, <1>14
-----------------------------------------------------------------------------
(* What a step does to the log, the clock and its own request.             *)

OnlyMoves(w) ==
    /\ step' \in [Writers -> Stages] /\ req' \in [Writers -> Requests]
    /\ \A v \in Writers \ {w} : step'[v] = step[v] /\ req'[v] = req[v]

\* A request comes in.
Asks(w) ==
    /\ OnlyMoves(w) /\ log' = log /\ clock' = clock
    /\ \/ step'[w] = "mint" /\ req'[w].kind = "book"
       \/ step'[w] \in {"world", "base"} /\ req'[w].kind # "book"

\* An event is given its stamp, which is new.
Stamped(w) ==
    /\ OnlyMoves(w) /\ log' = log /\ clock' = clock + 1
    /\ step'[w] = "append" /\ req'[w].kind \in Appending /\ req'[w].at = clock + 1

\* The event is recorded.
Records(w) ==
    /\ OnlyMoves(w) /\ clock' = clock
    /\ step[w] = "append" /\ log' = Append(log, Event(w, EventKind(req[w].kind)))
    /\ \/ step'[w] = "idle" /\ req'[w] = NoReq
       \/ step'[w] = "world" /\ req'[w] = req[w] /\ req[w].kind \in {"book", "cancel", "claim"}
       \/ step'[w] = "quiet" /\ req'[w] = req[w] /\ req[w].kind = "outage"

\* An offer is recorded.
Floats(w) ==
    /\ OnlyMoves(w) /\ clock' = clock
    /\ step[w] = "float" /\ log' = Append(log, [Event(w, "offered") EXCEPT !.at = req[w].at])
    /\ step'[w] = "idle" /\ req'[w] = NoReq

\* Everything else leaves the log alone.
Goes(w) ==
    /\ OnlyMoves(w) /\ log' = log /\ clock' = clock
    /\ \/ step'[w] = step[w] /\ req'[w] = req[w]
       \/ step'[w] = "idle" /\ req'[w] = NoReq
       \/ /\ step[w] \in Working /\ step'[w] \in Working
          /\ req'[w].kind = req[w].kind /\ req'[w].job = req[w].job /\ req'[w].at = req[w].at
          /\ step'[w] \in {"place", "float"} => req[w].kind = "book"
          /\ step'[w] \in Working \ Booking => req[w].kind # "book"

LEMMA NoReqIsARequest == NoReq \in Requests
BY DEF NoReq, Requests

LEMMA DoneGoes ==
    ASSUME HandlerTypes, NEW w \in Writers, Done(w), log' = log, clock' = clock PROVE Goes(w)
<1>1. step' \in [Writers -> Stages] /\ step'[w] = "idle" /\ \A v \in Writers \ {w} : step'[v] = step[v]
    BY DEF HandlerTypes, Done, GoTo, Stages
<1>2. req' \in [Writers -> Requests] /\ req'[w] = NoReq /\ \A v \in Writers \ {w} : req'[v] = req[v]
    BY NoReqIsARequest DEF HandlerTypes, Done
<1> QED
    BY <1>1, <1>2 DEF Goes, OnlyMoves

\* A step that only takes a request from one stage to another.
LEMMA GoingOn ==
    ASSUME HandlerTypes, NEW w \in Writers, NEW s \in Working, GoTo(w, s), req' = req,
           log' = log, clock' = clock, step[w] \in Working,
           s \in {"place", "float"} => req[w].kind = "book",
           s \in Working \ Booking => req[w].kind # "book"
    PROVE  Goes(w)
<1>1. step' \in [Writers -> Stages] /\ step'[w] = s /\ \A v \in Writers \ {w} : step'[v] = step[v]
    BY DEF HandlerTypes, GoTo, Stages
<1>2. req' \in [Writers -> Requests] /\ \A v \in Writers \ {w} : req'[v] = req[v]
    BY DEF HandlerTypes
<1> QED
    BY <1>1, <1>2 DEF Goes, OnlyMoves

LEMMA StayingPut ==
    ASSUME HandlerTypes, NEW w \in Writers, step' = step, req' = req, log' = log, clock' = clock
    PROVE  Goes(w)
BY DEF HandlerTypes, Goes, OnlyMoves

LEMMA AskAsks ==
    ASSUME HandlerTypes, NEW w \in Writers, NEW kind, NEW j \in Nat, NEW who \in Fitters \cup {None},
           NEW s, Ask(w, kind, j, who, s),
           \/ s = "mint" /\ kind = "book"
           \/ s \in {"world", "base"} /\ kind # "book"
    PROVE  Asks(w)
<1>1. s \in Stages /\ kind \in AllKinds
    BY DispatchConstants DEF Ask, Stages, Working, Booking
<1>2. step' \in [Writers -> Stages] /\ step'[w] = s /\ \A v \in Writers \ {w} : step'[v] = step[v]
    BY <1>1 DEF HandlerTypes, Ask, GoTo
<1> DEFINE new == [NoReq EXCEPT !.kind = kind, !.job = j, !.who = who]
<1>3. new \in Requests /\ new.kind = kind
    BY <1>1 DEF NoReq, Requests
<1>4. req' = [req EXCEPT ![w] = new]
    BY DEF Ask
<1>5. req' \in [Writers -> Requests] /\ req'[w].kind = kind /\ \A v \in Writers \ {w} : req'[v] = req[v]
    <2> HIDE DEF new
    <2> QED
        BY <1>3, <1>4 DEF HandlerTypes
<1>6. log' = log /\ clock' = clock
    BY DEF Ask
<1> QED
    BY <1>2, <1>5, <1>6 DEF Asks, OnlyMoves

LEMMA AskStampedStamps ==
    ASSUME HandlerTypes, NEW w \in Writers, NEW kind \in Appending, NEW j \in Nat,
           NEW who \in Fitters \cup {None}, AskStamped(w, kind, j, who)
    PROVE  Stamped(w)
<1>1. kind \in AllKinds /\ clock' = clock + 1 /\ clock' \in Nat /\ "append" \in Stages
    BY DispatchConstants DEF AskStamped, Stages, HandlerTypes
<1>2. step' \in [Writers -> Stages] /\ step'[w] = "append" /\ \A v \in Writers \ {w} : step'[v] = step[v]
    BY <1>1 DEF HandlerTypes, AskStamped, GoTo
<1> DEFINE new == [NoReq EXCEPT !.kind = kind, !.job = j, !.who = who, !.at = clock']
<1>3. new \in Requests /\ new.kind = kind /\ new.at = clock + 1
    BY <1>1 DEF NoReq, Requests
<1>4. req' = [req EXCEPT ![w] = new]
    BY DEF AskStamped
<1>5. /\ req' \in [Writers -> Requests]
      /\ req'[w].kind = kind /\ req'[w].at = clock + 1
      /\ \A v \in Writers \ {w} : req'[v] = req[v]
    <2> HIDE DEF new
    <2> QED
        BY <1>3, <1>4 DEF HandlerTypes
<1>6. log' = log
    BY DEF AskStamped
<1> QED
    BY <1>1, <1>2, <1>5, <1>6 DEF Stamped, OnlyMoves

LEMMA MintStamps ==
    ASSUME HandlerTypes, Roles, NEW w \in Writers, MintJob(w) PROVE Stamped(w)
<1>1. clock' = clock + 1 /\ clock' \in Nat /\ "append" \in Stages /\ log' = log
    BY DEF MintJob, Stages, HandlerTypes
<1>2. step' \in [Writers -> Stages] /\ step'[w] = "append" /\ \A v \in Writers \ {w} : step'[v] = step[v]
    BY <1>1 DEF HandlerTypes, MintJob, GoTo
<1>3. req[w].kind = "book" /\ req[w] \in Requests
    BY DEF MintJob, Roles, HandlerTypes
<1> DEFINE new == [req[w] EXCEPT !.job = HighestJob + 1, !.at = clock']
<1>4. new \in Requests /\ new.kind = "book" /\ new.at = clock + 1
    BY <1>1, <1>3, NextJobIsNew DEF Requests
<1>5. req' = [req EXCEPT ![w] = new]
    BY DEF MintJob, HandlerTypes
<1>6. /\ req' \in [Writers -> Requests]
      /\ req'[w].kind = "book" /\ req'[w].at = clock + 1
      /\ \A v \in Writers \ {w} : req'[v] = req[v]
    <2> HIDE DEF new
    <2> QED
        BY <1>4, <1>5 DEF HandlerTypes
<1> QED
    BY <1>1, <1>2, <1>6 DEF Stamped, OnlyMoves, Appending

LEMMA AppendRecords ==
    ASSUME HandlerTypes, Roles, NEW w \in Writers, AppendEvent(w) PROVE Records(w)
<1>1. step[w] = "append" /\ clock' = clock /\ log' = Append(log, Event(w, EventKind(req[w].kind)))
    BY DEF AppendEvent
<1>2. req[w].kind \in Appending
    BY <1>1 DEF Roles
<1>3. CASE AfterAppend(req[w].kind) = "idle"
    <2>1. Done(w)
        BY <1>3 DEF AppendEvent
    <2>2. step' \in [Writers -> Stages] /\ step'[w] = "idle" /\ \A v \in Writers \ {w} : step'[v] = step[v]
        BY <2>1 DEF HandlerTypes, Done, GoTo, Stages
    <2>3. req' \in [Writers -> Requests] /\ req'[w] = NoReq /\ \A v \in Writers \ {w} : req'[v] = req[v]
        BY <2>1, NoReqIsARequest DEF HandlerTypes, Done
    <2> QED
        BY <1>1, <2>2, <2>3 DEF Records, OnlyMoves
<1>4. CASE AfterAppend(req[w].kind) # "idle"
    <2>1. step' = [step EXCEPT ![w] = AfterAppend(req[w].kind)] /\ req' = req
        BY <1>4 DEF AppendEvent, GoTo
    <2>2. \/ AfterAppend(req[w].kind) = "world" /\ req[w].kind \in {"book", "cancel", "claim"}
          \/ AfterAppend(req[w].kind) = "quiet" /\ req[w].kind = "outage"
        BY <1>4 DEF AfterAppend
    <2>3. AfterAppend(req[w].kind) \in Stages
        BY <2>2 DEF Stages, Working, Booking
    <2>4. /\ step' \in [Writers -> Stages] /\ step'[w] = AfterAppend(req[w].kind)
          /\ \A v \in Writers \ {w} : step'[v] = step[v]
        BY <2>1, <2>3 DEF HandlerTypes
    <2> QED
        BY <1>1, <2>1, <2>2, <2>4 DEF Records, OnlyMoves, HandlerTypes
<1> QED
    BY <1>3, <1>4

\* The response was lost: it is recorded all the same.
LEMMA UnheardRecords ==
    ASSUME HandlerTypes, NEW w \in Writers, AppendUnheard(w) PROVE Records(w)
<1>1. step[w] = "append" /\ clock' = clock /\ log' = Append(log, Event(w, EventKind(req[w].kind)))
      /\ Done(w)
    BY DEF AppendUnheard
<1>2. step' \in [Writers -> Stages] /\ step'[w] = "idle" /\ \A v \in Writers \ {w} : step'[v] = step[v]
    BY <1>1 DEF HandlerTypes, Done, GoTo, Stages
<1>3. req' \in [Writers -> Requests] /\ req'[w] = NoReq /\ \A v \in Writers \ {w} : req'[v] = req[v]
    BY <1>1, NoReqIsARequest DEF HandlerTypes, Done
<1> QED
    BY <1>1, <1>2, <1>3 DEF Records, OnlyMoves

LEMMA FloatFloats ==
    ASSUME HandlerTypes, NEW w \in Writers, Float(w) PROVE Floats(w)
<1>1. Done(w) /\ clock' = clock /\ step[w] = "float"
      /\ log' = Append(log, [Event(w, "offered") EXCEPT !.at = req[w].at])
    BY DEF Float, OfferStamp
<1>2. step' \in [Writers -> Stages] /\ step'[w] = "idle" /\ \A v \in Writers \ {w} : step'[v] = step[v]
    BY <1>1 DEF HandlerTypes, Done, GoTo, Stages
<1>3. req' \in [Writers -> Requests] /\ req'[w] = NoReq /\ \A v \in Writers \ {w} : req'[v] = req[v]
    BY <1>1, NoReqIsARequest DEF HandlerTypes, Done
<1> QED
    BY <1>1, <1>2, <1>3 DEF Floats, OnlyMoves

LEMMA ReadingGoes ==
    ASSUME HandlerTypes, Roles, NEW w \in Writers,
           \/ ReadWorld(w) \/ ReadBase(w) \/ RereadHead(w) \/ ReadForReroute(w) \/ ReadPlacement(w)
    PROVE  Goes(w)
<1> USE DEF Working, Booking
<1>1. CASE ReadWorld(w)
    <2>1. CASE req[w].kind = "repair"
        BY <1>1, <2>1, GoingOn DEF ReadWorld
    <2>2. CASE req[w].kind # "repair"
        BY <1>1, <2>2, GoingOn DEF ReadWorld
    <2> QED
        BY <2>1, <2>2
<1>2. CASE ReadBase(w)
    <2>1. step[w] = "base" /\ log' = log /\ clock' = clock
        BY <1>2 DEF ReadBase
    <2>2. CASE Done(w)
        BY <2>1, <2>2, DoneGoes
    <2>3. CASE ~Done(w)
        <3> DEFINE next == CASE req[w].kind = "repair" -> "world"
                             [] req[w].kind = "outage" -> "reroute"
                             [] OTHER -> "mintplan"
        <3>1. GoTo(w, next) /\ req' = req
            BY <1>2, <2>3 DEF ReadBase
        <3>2. next \in Working /\ next \notin {"place", "float"}
            OBVIOUS
        <3>3. next = "reroute" => req[w].kind # "book"
            OBVIOUS
        <3>4. next \notin {"choose", "quiet"}
            OBVIOUS
        <3> HIDE DEF next
        <3> QED
            BY <2>1, <3>1, <3>2, <3>3, <3>4, GoingOn
    <2> QED
        BY <2>2, <2>3
<1>3. CASE RereadHead(w)
    <2>1. CASE HeadUnreadable
        BY <1>3, <2>1, DoneGoes DEF RereadHead
    <2>2. CASE ~HeadUnreadable
        BY <1>3, <2>2, GoingOn DEF RereadHead
    <2> QED
        BY <2>1, <2>2
<1>4. CASE ReadForReroute(w)
    <2>1. CASE Done(w)
        BY <1>4, <2>1, DoneGoes DEF ReadForReroute
    <2>2. CASE ~Done(w)
        BY <1>4, <2>2, GoingOn DEF ReadForReroute
    <2> QED
        BY <2>1, <2>2
<1>5. CASE ReadPlacement(w)
    <2>1. CASE Done(w)
        BY <1>5, <2>1, DoneGoes DEF ReadPlacement
    <2>2. CASE ~Done(w)
        <3>1. req[w].kind = "book"
            BY <1>5 DEF ReadPlacement, Roles
        <3> QED
            BY <1>5, <2>2, <3>1, GoingOn DEF ReadPlacement
    <2> QED
        BY <2>1, <2>2
<1> QED
    BY <1>1, <1>2, <1>3, <1>4, <1>5

LEMMA PlanningGoes ==
    ASSUME HandlerTypes, Roles, NEW w \in Writers, Plan(w) \/ Choose(w) \/ Reroute(w)
    PROVE  Goes(w)
<1> USE DEF Working, Booking
<1>1. CASE Done(w) /\ log' = log /\ clock' = clock
    BY <1>1, DoneGoes
<1>2. CASE Plan(w) /\ ~Done(w)
    <2>1. CASE req[w].kind = "cli"
        BY <1>2, <2>1, GoingOn DEF Plan
    <2>2. CASE req[w].kind # "cli"
        BY <1>2, <2>2, GoingOn DEF Plan
    <2> QED
        BY <2>1, <2>2
<1>3. CASE Choose(w) /\ ~Done(w)
    <2>1. PICK content : req' = [req EXCEPT ![w].force = NeedsForce(w, content)]
        BY <1>3 DEF Choose
    <2>2. GoTo(w, "commit") /\ step[w] = "choose" /\ log' = log /\ clock' = clock
        BY <1>3 DEF Choose
    <2>3. NeedsForce(w, content) \in BOOLEAN
        BY DEF NeedsForce
    <2>4. req[w] \in Requests /\ req' = [req EXCEPT ![w] = [req[w] EXCEPT !.force = NeedsForce(w, content)]]
        BY <2>1 DEF HandlerTypes
    <2> DEFINE new == [req[w] EXCEPT !.force = NeedsForce(w, content)]
    <2>5. new \in Requests /\ new.kind = req[w].kind /\ new.job = req[w].job /\ new.at = req[w].at
        BY <2>3, <2>4 DEF Requests
    <2>6. /\ req' \in [Writers -> Requests] /\ req'[w] = new
          /\ \A v \in Writers \ {w} : req'[v] = req[v]
        <3>1. req' = [req EXCEPT ![w] = new]
            BY <2>4
        <3> HIDE DEF new
        <3> QED
            BY <2>5, <3>1 DEF HandlerTypes
    <2>7. step' \in [Writers -> Stages] /\ step'[w] = "commit" /\ \A v \in Writers \ {w} : step'[v] = step[v]
        BY <2>2 DEF HandlerTypes, GoTo, Stages
    <2> HIDE DEF new
    <2> QED
        BY <2>2, <2>5, <2>6, <2>7 DEF Goes, OnlyMoves
<1>4. CASE Reroute(w) /\ ~Done(w)
    BY <1>4, GoingOn DEF Reroute
<1>5. (Plan(w) \/ Choose(w) \/ Reroute(w)) => log' = log /\ clock' = clock
    BY DEF Plan, Choose, Reroute
<1> QED
    BY <1>1, <1>2, <1>3, <1>4, <1>5

LEMMA CommittingGoes ==
    ASSUME HandlerTypes, NEW w \in Writers, Commit(w) PROVE Goes(w)
<1>1. step[w] = "commit" /\ log' = log /\ clock' = clock /\ AfterCommit(w)
    BY DEF Commit
<1>2. CASE Done(w)
    BY <1>1, <1>2, DoneGoes
<1>3. CASE pc'[w] # "idle"
    BY <1>1, <1>3, StayingPut DEF AfterCommit
<1>4. CASE ~Done(w) /\ pc'[w] = "idle"
    BY <1>1, <1>4, GoingOn DEF AfterCommit, Working, Booking
<1> QED
    BY <1>2, <1>3, <1>4

\* Every step is one of the five.
Effect(w) == Asks(w) \/ Stamped(w) \/ Records(w) \/ Floats(w) \/ Goes(w)

LEMMA RequestsHaveEffect ==
    ASSUME HandlerTypes, NEW w \in Writers, Request(w) PROVE Effect(w)
<1> USE DEF Appending, Effect
<1>1. Jobs(Now) \subseteq Nat /\ Active(Now) \subseteq Nat /\ Schedulable(Now) \subseteq Nat
    BY JobsAreNumbers
<1>2. 0 \in Nat /\ None \in Fitters \cup {None}
    OBVIOUS
<1>3. CASE Book(w)
    BY <1>2, <1>3, AskAsks DEF Book
<1>4. CASE Cancel(w)
    <2>1. PICK j \in Active(Now) : AskStamped(w, "cancel", j, None)
        BY <1>4 DEF Cancel
    <2> QED
        BY <1>1, <1>2, <2>1, AskStampedStamps
<1>5. CASE Claim(w)
    <2>1. PICK j \in Jobs(Now), f \in Fitters : AskStamped(w, "claim", j, f)
        BY <1>5 DEF Claim
    <2>2. f \in Fitters \cup {None} /\ j \in Nat
        BY <1>1
    <2> QED
        BY <2>1, <2>2, AskStampedStamps
<1>6. CASE CommitPlan(w)
    BY <1>2, <1>6, AskAsks DEF CommitPlan
<1>7. CASE SetCrew(w)
    <2>1. PICK j \in Active(Now) : Ask(w, "crew", j, None, "world")
        BY <1>7 DEF SetCrew
    <2> QED
        BY <1>1, <1>2, <2>1, AskAsks
<1>8. CASE Repair(w)
    BY <1>2, <1>8, AskAsks DEF Repair
<1>9. CASE CommitFromCLI(w)
    BY <1>2, <1>9, AskAsks DEF CommitFromCLI
<1>10. CASE Record(w)
    <2>1. CASE \E j \in Schedulable(Now) : AskStamped(w, "started", j, None)
        BY <1>1, <1>2, <2>1, AskStampedStamps
    <2>2. CASE \E j \in Active(Now) : AskStamped(w, "overran", j, None)
        BY <1>1, <1>2, <2>2, AskStampedStamps
    <2> QED
        BY <1>10, <2>1, <2>2 DEF Record
<1>11. CASE Outage(w)
    BY <1>2, <1>11, AskStampedStamps DEF Outage
<1> QED
    BY <1>3, <1>4, <1>5, <1>6, <1>7, <1>8, <1>9, <1>10, <1>11 DEF Request

\* What is already there only goes on.
LEMMA WorkHasEffect ==
    ASSUME HandlerTypes, Roles, NEW w \in Writers,
           (HandlerStep(w) /\ ~MintJob(w)) \/ LoseReply(w) \/ Die(w)
    PROVE  Records(w) \/ Floats(w) \/ Goes(w)
<1>3. CASE AppendEvent(w)
    BY <1>3, AppendRecords
<1>4. CASE AppendRefused(w)
    BY <1>4, DoneGoes DEF AppendRefused
<1>5. CASE \/ ReadWorld(w) \/ ReadBase(w) \/ RereadHead(w) \/ ReadForReroute(w) \/ ReadPlacement(w)
    BY <1>5, ReadingGoes
<1>6. CASE Plan(w) \/ Choose(w) \/ Reroute(w)
    BY <1>6, PlanningGoes
<1>7. CASE Commit(w)
    BY <1>7, CommittingGoes
<1>8. CASE Float(w)
    BY <1>8, FloatFloats
<1>9. CASE LoseReply(w)
    BY <1>9, StayingPut DEF LoseReply, handlerVars
<1>10. CASE Die(w)
    BY <1>10, DoneGoes DEF Die
<1>11. CASE AppendUnheard(w)
    BY <1>11, UnheardRecords
<1> QED
    BY <1>3, <1>4, <1>5, <1>6, <1>7, <1>8, <1>9, <1>10, <1>11 DEF HandlerStep

LEMMA StepsHaveEffect ==
    ASSUME HandlerTypes, Roles, NEW w \in Writers,
           Request(w) \/ HandlerStep(w) \/ LoseReply(w) \/ Die(w)
    PROVE  Effect(w)
<1>1. CASE Request(w)
    BY <1>1, RequestsHaveEffect
<1>2. CASE MintJob(w)
    BY <1>2, MintStamps DEF Effect
<1>3. CASE (HandlerStep(w) /\ ~MintJob(w)) \/ LoseReply(w) \/ Die(w)
    BY <1>3, WorkHasEffect DEF Effect
<1> QED
    BY <1>1, <1>2, <1>3

LEMMA NextHasEffect ==
    ASSUME HandlerTypes, Roles, Next PROVE \E w \in Writers : Effect(w)
BY StepsHaveEffect DEF Next
-----------------------------------------------------------------------------
(* Each effect preserves the invariant.                                    *)

\* Nothing that is booked is forgotten.
LEMMA BookingsStay ==
    ASSUME HandlerTypes, NEW j, NEW at, IsBooked(log, j, at),
           log' = log \/ \E e : log' = Append(log, e)
    PROVE  IsBooked(log', j, at)
<1>1. PICK i \in DOMAIN log : log[i].kind = "booked" /\ log[i].job = j /\ log[i].at = at
    BY DEF IsBooked
<1>2. i \in DOMAIN log' /\ log'[i] = log[i]
    BY DEF HandlerTypes
<1> QED
    BY <1>1, <1>2 DEF IsBooked

\* What an append makes of the log.
LEMMA Appended ==
    ASSUME HandlerTypes, NEW e \in Entries, log' = Append(log, e)
    PROVE  /\ log' \in Seq(Entries)
           /\ DOMAIN log' = DOMAIN log \cup {Len(log) + 1}
           /\ Len(log) + 1 \notin DOMAIN log
           /\ log'[Len(log) + 1] = e
           /\ \A i \in DOMAIN log : log'[i] = log[i]
BY DEF HandlerTypes

LEMMA EventIsAnEntry ==
    ASSUME HandlerTypes, NEW w \in Writers, NEW kind \in Recorded
    PROVE  /\ Event(w, kind) \in Entries
           /\ Event(w, kind).kind = kind
           /\ Event(w, kind).job = req[w].job
           /\ Event(w, kind).at = req[w].at
<1>1. req[w] \in Requests
    BY DEF HandlerTypes
<1> QED
    BY <1>1 DEF Event, Entries, Requests

LEMMA EventKinds ==
    ASSUME NEW kind \in Appending
    PROVE  /\ EventKind(kind) \in Recorded /\ EventKind(kind) # "offered"
           /\ EventKind(kind) = "booked" <=> kind = "book"
           /\ EventKind(kind) = "cancelled" <=> kind = "cancel"
           /\ EventKind(kind) = "started" <=> kind = "started"
BY DEF Appending, Recorded, EventKind

LEMMA AskingKeepsStamps ==
    ASSUME StampInv, NEW w \in Writers, Asks(w) PROVE StampInv'
<1> USE DEF StampInv, Asks, OnlyMoves
<1>1. HandlerTypes'
    BY DEF HandlerTypes
<1>2. Roles'
    BY DEF Roles, Working, Booking
<1>3. Stamps'
    BY DEF Stamps
<1>4. Pending'
    BY DEF Pending
<1>5. Offers'
    <2>1. \A j, at : IsBooked(log', j, at) <=> IsBooked(log, j, at)
        OBVIOUS
    <2>2. \A v \in Writers : req'[v].kind = "book" /\ step'[v] \in Booking =>
              v # w /\ req[v] = req'[v] /\ step[v] = step'[v]
        BY DEF Booking
    <2> QED
        BY <2>1, <2>2 DEF Offers
<1> QED
    BY <1>1, <1>2, <1>3, <1>4, <1>5

LEMMA StampingKeepsStamps ==
    ASSUME StampInv, NEW w \in Writers, Stamped(w) PROVE StampInv'
<1> USE DEF StampInv, Stamped, OnlyMoves
<1>0. clock \in Nat /\ clock' = clock + 1 /\ clock' \in Nat
    BY DEF HandlerTypes
<1>1. HandlerTypes'
    BY <1>0 DEF HandlerTypes
<1>2. Roles'
    BY DEF Roles, Working, Booking, Appending
<1>3. Stamps'
    BY <1>0 DEF Stamps
<1>4. Pending'
    <2>1. ASSUME NEW v \in Writers, step'[v] = "append"
          PROVE  /\ req'[v].at \in 1..clock'
                 /\ \A i \in DOMAIN log : log[i].kind # "offered" => log[i].at # req'[v].at
                 /\ v # w => req'[v].at \in 1..clock
        <3>1. CASE v = w
            <4>1. \A i \in DOMAIN log : log[i].at # clock + 1
                BY <1>0 DEF Stamps
            <4> QED
                BY <1>0, <3>1, <4>1
        <3>2. CASE v # w
            BY <1>0, <2>1, <3>2 DEF Pending
        <3> QED
            BY <3>1, <3>2
    <2>2. ASSUME NEW u \in Writers, NEW v \in Writers, step'[u] = "append", step'[v] = "append",
                 req'[u].at = req'[v].at, u # v
          PROVE  FALSE
        <3>1. CASE u = w
            BY <1>0, <2>1, <2>2, <3>1
        <3>2. CASE v = w
            BY <1>0, <2>1, <2>2, <3>2
        <3>3. CASE u # w /\ v # w
            BY <2>2, <3>3 DEF Pending
        <3> QED
            BY <3>1, <3>2, <3>3
    <2> QED
        BY <2>1, <2>2 DEF Pending
<1>5. Offers'
    <2>1. \A j, at : IsBooked(log', j, at) <=> IsBooked(log, j, at)
        OBVIOUS
    <2>2. \A v \in Writers : req'[v].kind = "book" /\ step'[v] \in Booking =>
              v # w /\ req[v] = req'[v] /\ step[v] = step'[v]
        BY DEF Booking
    <2> QED
        BY <2>1, <2>2 DEF Offers
<1> QED
    BY <1>1, <1>2, <1>3, <1>4, <1>5

LEMMA GoingKeepsStamps ==
    ASSUME StampInv, NEW w \in Writers, Goes(w) PROVE StampInv'
<1> USE DEF StampInv, Goes, OnlyMoves
<1>1. HandlerTypes'
    BY DEF HandlerTypes
<1>2. Roles'
    BY DEF Roles, Working, Booking
<1>3. Stamps'
    BY DEF Stamps
<1>4. \A v \in Writers : step'[v] = "append" => step[v] = "append" /\ req'[v] = req[v]
    BY DEF Working, Booking
<1>5. Pending'
    BY <1>4 DEF Pending
<1>6. Offers'
    <2>1. \A j, at : IsBooked(log', j, at) <=> IsBooked(log, j, at)
        OBVIOUS
    <2>2. \A v \in Writers : req'[v].kind = "book" /\ step'[v] \in Booking =>
              /\ req[v].kind = "book" /\ step[v] \in Booking
              /\ req[v].job = req'[v].job /\ req[v].at = req'[v].at
        BY DEF Booking, Working, Roles
    <2> QED
        BY <2>1, <2>2 DEF Offers
<1> QED
    BY <1>1, <1>2, <1>3, <1>5, <1>6

LEMMA RecordingKeepsStamps ==
    ASSUME StampInv, NEW w \in Writers, Records(w) PROVE StampInv'
<1> DEFINE e == Event(w, EventKind(req[w].kind))
           n == Len(log) + 1
<1>1. /\ HandlerTypes /\ req[w].kind \in Appending /\ req[w].at \in 1..clock
      /\ step[w] = "append" /\ log' = Append(log, e) /\ clock' = clock
    BY DEF StampInv, Records, Roles, Pending
<1>2. e \in Entries /\ e.kind # "offered" /\ e.job = req[w].job /\ e.at = req[w].at
      /\ (e.kind = "booked" <=> req[w].kind = "book")
    BY <1>1, EventKinds, EventIsAnEntry
<1> HIDE DEF e
<1>3. /\ log' \in Seq(Entries) /\ DOMAIN log' = DOMAIN log \cup {n} /\ n \notin DOMAIN log
      /\ log'[n] = e /\ \A i \in DOMAIN log : log'[i] = log[i]
    BY <1>1, <1>2, Appended
<1> HIDE DEF n
<1>4. \A v \in Writers : step'[v] = "append" => v # w /\ step[v] = "append" /\ req'[v] = req[v]
    BY DEF Records, OnlyMoves
<1>5. HandlerTypes'
    BY <1>1, <1>3 DEF HandlerTypes, Records, OnlyMoves
<1>6. Roles'
    BY DEF StampInv, Records, OnlyMoves, Roles, Working, Booking
<1>7. Stamps'
    <2>1. \A i \in DOMAIN log : log[i].kind # "offered" => log[i].at # e.at
        BY <1>1, <1>2 DEF StampInv, Pending
    <2>2. \A i \in DOMAIN log' : log'[i].at \in 1..clock'
        BY <1>1, <1>2, <1>3 DEF StampInv, Stamps
    <2>3. \A i, k \in DOMAIN log' :
            log'[i].kind # "offered" /\ log'[k].kind # "offered" /\ log'[i].at = log'[k].at => i = k
        BY <1>3, <2>1 DEF StampInv, Stamps
    <2> QED
        BY <2>2, <2>3 DEF Stamps
<1>8. Pending'
    <2>1. \A v \in Writers : step'[v] = "append" =>
            req'[v].at \in 1..clock /\ req[v].at # req[w].at
        BY <1>1, <1>4 DEF StampInv, Pending
    <2>2. \A v \in Writers : step'[v] = "append" =>
            \A i \in DOMAIN log' : log'[i].kind # "offered" => log'[i].at # req'[v].at
        BY <1>2, <1>3, <1>4, <2>1 DEF StampInv, Pending
    <2>3. \A u, v \in Writers :
            step'[u] = "append" /\ step'[v] = "append" /\ req'[u].at = req'[v].at => u = v
        BY <1>4 DEF StampInv, Pending
    <2> QED
        BY <1>1, <2>1, <2>2, <2>3 DEF Pending
<1>9. Offers'
    <2>1. \A j, at : IsBooked(log, j, at) => IsBooked(log', j, at)
        BY <1>1, BookingsStay
    <2>2. req[w].kind = "book" => IsBooked(log', req[w].job, req[w].at)
        BY <1>2, <1>3 DEF IsBooked
    <2>3. \A i \in DOMAIN log' : log'[i].kind = "offered" => IsBooked(log', log'[i].job, log'[i].at)
        BY <1>2, <1>3, <2>1 DEF StampInv, Offers
    <2>4. ASSUME NEW v \in Writers, req'[v].kind = "book", step'[v] \in Booking
          PROVE  IsBooked(log', req'[v].job, req'[v].at)
        <3>1. CASE v = w
            BY <2>2, <2>4, <3>1 DEF Records, Booking
        <3>2. CASE v # w
            BY <2>1, <2>4, <3>2 DEF Records, OnlyMoves, StampInv, Offers
        <3> QED
            BY <3>1, <3>2
    <2> QED
        BY <2>3, <2>4 DEF Offers
<1> QED
    BY <1>5, <1>6, <1>7, <1>8, <1>9 DEF StampInv

LEMMA FloatingKeepsStamps ==
    ASSUME StampInv, NEW w \in Writers, Floats(w) PROVE StampInv'
<1> DEFINE e == [Event(w, "offered") EXCEPT !.at = req[w].at]
           n == Len(log) + 1
<1>1. /\ HandlerTypes /\ req[w].kind = "book" /\ IsBooked(log, req[w].job, req[w].at)
      /\ step[w] = "float" /\ log' = Append(log, e) /\ clock' = clock
    BY DEF StampInv, Floats, Roles, Offers, Booking
<1>2. e \in Entries /\ e.kind = "offered" /\ e.job = req[w].job /\ e.at = req[w].at
    <2>1. req[w] \in Requests
        BY <1>1 DEF HandlerTypes
    <2> QED
        BY <2>1 DEF Event, Entries, Requests, Recorded
<1> HIDE DEF e
<1>3. /\ log' \in Seq(Entries) /\ DOMAIN log' = DOMAIN log \cup {n} /\ n \notin DOMAIN log
      /\ log'[n] = e /\ \A i \in DOMAIN log : log'[i] = log[i]
    BY <1>1, <1>2, Appended
<1> HIDE DEF n
<1>4. \A v \in Writers : step'[v] # "idle" => v # w /\ step[v] = step'[v] /\ req'[v] = req[v]
    BY DEF Floats, OnlyMoves
<1>5. HandlerTypes'
    BY <1>1, <1>3 DEF HandlerTypes, Floats, OnlyMoves
<1>6. Roles'
    BY <1>4 DEF StampInv, Roles, Working, Booking
<1>7. Stamps'
    <2>1. e.at \in 1..clock
        <3>1. PICK i \in DOMAIN log : log[i].at = e.at
            BY <1>1, <1>2 DEF IsBooked
        <3> QED
            BY <3>1 DEF StampInv, Stamps
    <2>2. \A i \in DOMAIN log' : log'[i].at \in 1..clock'
        BY <1>1, <1>3, <2>1 DEF StampInv, Stamps
    <2>3. \A i, k \in DOMAIN log' :
            log'[i].kind # "offered" /\ log'[k].kind # "offered" /\ log'[i].at = log'[k].at => i = k
        BY <1>2, <1>3 DEF StampInv, Stamps
    <2> QED
        BY <2>2, <2>3 DEF Stamps
<1>8. Pending'
    <2>1. \A v \in Writers : step'[v] = "append" => v # w /\ step[v] = "append" /\ req'[v] = req[v]
        BY <1>4
    <2> QED
        BY <1>1, <1>2, <1>3, <2>1 DEF StampInv, Pending
<1>9. Offers'
    <2>1. \A j, at : IsBooked(log, j, at) => IsBooked(log', j, at)
        BY <1>1, BookingsStay
    <2>2. \A i \in DOMAIN log' : log'[i].kind = "offered" => IsBooked(log', log'[i].job, log'[i].at)
        BY <1>1, <1>2, <1>3, <2>1 DEF StampInv, Offers
    <2>3. \A v \in Writers : req'[v].kind = "book" /\ step'[v] \in Booking =>
            IsBooked(log', req'[v].job, req'[v].at)
        BY <1>4, <2>1 DEF StampInv, Offers, Booking
    <2> QED
        BY <2>2, <2>3 DEF Offers
<1> QED
    BY <1>5, <1>6, <1>7, <1>8, <1>9 DEF StampInv

LEMMA InitStamps == Init => StampInv
<1> SUFFICES ASSUME Init PROVE StampInv
    OBVIOUS
<1>1. log = <<>> /\ DOMAIN log = {} /\ clock = 0
    BY DEF Init
<1>2. HandlerTypes
    BY <1>1, NoReqIsARequest DEF Init, HandlerTypes, Stages
<1>3. \A w \in Writers : step[w] = "idle"
    BY DEF Init
<1>4. Roles
    BY <1>3 DEF Roles, Working, Booking
<1>5. Stamps
    BY <1>1 DEF Stamps
<1>6. Pending
    BY <1>3 DEF Pending
<1>7. Offers
    BY <1>1, <1>3 DEF Offers, Booking
<1> QED
    BY <1>2, <1>4, <1>5, <1>6, <1>7 DEF StampInv

LEMMA StepKeepsStamps == StampInv /\ [Next]_vars => StampInv'
<1> SUFFICES ASSUME StampInv, [Next]_vars PROVE StampInv'
    OBVIOUS
<1>1. CASE UNCHANGED vars
    <2>1. log' = log /\ clock' = clock /\ step' = step /\ req' = req
        BY <1>1 DEF vars, handlerVars
    <2>2. HandlerTypes'
        BY <2>1 DEF StampInv, HandlerTypes
    <2>3. Roles' /\ Stamps'
        BY <2>1 DEF StampInv, Roles, Stamps
    <2>4. Pending'
        BY <2>1 DEF StampInv, Pending
    <2>5. Offers'
        BY <2>1 DEF StampInv, Offers, IsBooked
    <2> QED
        BY <2>2, <2>3, <2>4, <2>5 DEF StampInv
<1>2. CASE Next
    <2>1. PICK w \in Writers : Effect(w)
        BY <1>2, NextHasEffect DEF StampInv
    <2> QED
        BY <2>1, AskingKeepsStamps, StampingKeepsStamps, RecordingKeepsStamps,
           FloatingKeepsStamps, GoingKeepsStamps DEF Effect
<1> QED
    BY <1>1, <1>2

LEMMA StampInvariance == Spec => []StampInv
BY InitStamps, StepKeepsStamps, PTL DEF Spec

\* Nobody is asked to stay late for a job that was cancelled (cancel_job,
\* _float_overtime_offer and the fold that pops the offer), however many
\* handlers run at once, in whatever order their events reach the log, on
\* either backend and whether or not processes stop.
THEOREM OffersAreForJobsThatStand == Spec => []OffersAreForActiveJobs
BY StampInvariance, StandingOffersAreActive, PTL
-----------------------------------------------------------------------------
(* The plans the handlers make, and the store they commit them to.  From   *)
(* here on ids and versions are whatever the handlers can make of them,    *)
(* and the store is the one in S3, or files that one process writes.       *)

Contents == [minutes : UNION {[js -> Nat] : js \in SUBSET Nat}, left : SUBSET Nat]

IdsAreMinted ==
    /\ Ids \subseteq Seq(Nat) \ {<<>>}
    /\ \A n \in Nat : <<n>> \in Ids
    /\ \A id \in Ids, strategy \in Strategies : Append(id, strategy) \in Ids
VersionsAreMade == Versions = [parent : Ids \cup {None}, content : Contents]

Alone == \A v, w \in Writers : v = w
Deployed == IdsAreMinted /\ VersionsAreMade /\ (ConditionalWrites \/ Alone)

Mentions(content) == DOMAIN content.minutes \cup content.left
JobsOf(events) == {events[i].job : i \in {k \in DOMAIN events : events[k].kind = "booked"}}

\* Whether a handler holds the base it plans against, and a plan to commit.
HasBase(w) == \/ step[w] \in {"mintplan", "head", "choose", "reroute", "commit"}
              \/ step[w] = "world" /\ req[w].kind = "repair"
HasPlan(w) == step[w] \in {"head", "commit"}

PlanTypes ==
    /\ base \in [Writers -> Ids \cup {None}]
    /\ view \in [Writers -> Nat] /\ \A w \in Writers : view[w] <= Len(log)
    /\ cand \in [Writers -> Plans \cup {NoPlan}]
    /\ IsFiniteSet(DOMAIN stored)

\* Minted ids are no higher than the number of versions there are, and plans
\* are about jobs that were booked.
Shelf ==
    \A id \in DOMAIN stored :
        /\ Len(id) = 1 => id[1] <= Cardinality(DOMAIN stored)
        /\ stored[id] \in Versions => Mentions(stored[id].content) \subseteq JobsOf(log)

RoleOf(w) ==
    /\ step[w] = "choose" => req[w].kind = "repair"
    /\ step[w] \in {"quiet", "reroute"} => req[w].kind = "outage"
    /\ step[w] = "mintplan" => req[w].kind \notin {"repair", "outage"}
    /\ step[w] = "head" => ~NamesItsBase(req[w].kind)

BaseOf(w) == HasBase(w) =>
    /\ base[w] # None => base[w] \in DOMAIN stored /\ stored[base[w]] \in Versions
    /\ req[w].kind \in {"repair", "outage"} => base[w] # None
    /\ NamesItsBase(req[w].kind) => seen[w] = base[w]

PlanOf(w) == HasPlan(w) =>
    /\ cand[w] \in Plans /\ cand[w].version.parent = base[w] /\ cand[w].id # base[w]
    /\ Len(cand[w].id) = 1 => cand[w].id[1] <= Cardinality(DOMAIN stored) + 1
    /\ Mentions(cand[w].version.content) \subseteq JobsOf(log)

CallOf(w) ==
    /\ pc[w] # "idle" => step[w] = "commit" /\ plan[w] = cand[w]
    /\ pc[w] = "move" => /\ stored[plan[w].id] \in Versions
                         /\ stored[plan[w].id].content = plan[w].version.content
                         /\ ~ConditionalWrites => stored[plan[w].id] = plan[w].version

Good(w) == RoleOf(w) /\ BaseOf(w) /\ PlanOf(w) /\ CallOf(w)

WorkInv == StampInv /\ StoreInv /\ PlanTypes /\ Shelf /\ \A w \in Writers : Good(w)

-----------------------------------------------------------------------------
(* What the planner returns.                                               *)

LEMMA EventsAreFinite ==
    ASSUME HandlerTypes, NEW n \in 0..Now
    PROVE  IsFiniteSet(Events(n)) /\ Events(n) \subseteq Events(Now)
<1> DEFINE S == {k \in 0..Now : IsFiniteSet(Events(k))}
<1>1. Now \in Nat
    BY EventsAreEntries
<1>2. 0 \in S
    <2>1. Events(0) = {}
        BY DEF Events
    <2> QED
        BY <1>1, <2>1, FS_EmptySet
<1>3. ASSUME NEW k \in 0..Now - 1, k \in S PROVE k + 1 \in S
    <2>1. Events(k + 1) = Events(k) \cup {log[k + 1]}
        <3>1. 1..k + 1 = 1..k \cup {k + 1}
            BY <1>1
        <3> QED
            BY <3>1 DEF Events
    <2>2. IsFiniteSet(Events(k))
        BY <1>3
    <2>3. IsFiniteSet(Events(k + 1))
        BY <2>1, <2>2, FS_AddElement
    <2> QED
        BY <1>1, <2>3
<1>4. n \in S
    <2> HIDE DEF S
    <2>1. \A k \in 0..Now : k \in S
        BY <1>1, <1>2, <1>3, IntervalInduction
    <2> QED
        BY <2>1
<1>5. Events(n) \subseteq Events(Now)
    BY <1>1 DEF Events
<1> QED
    BY <1>4, <1>5

LEMMA MinutesAreNumbers ==
    ASSUME HandlerTypes, NEW n \in 0..Now, NEW j PROVE Minutes(n, j) \in Nat
<1>1. IsFiniteSet(Events(n))
    BY EventsAreFinite
<1> DEFINE T == {e \in About(n, j, {"overran"}) : e.at > Latest(About(n, j, {"booked"})).at}
<1>2. T \in SUBSET Events(n)
    BY DEF About
<1>3. IsFiniteSet(T)
    <2> HIDE DEF T
    <2> QED
        BY <1>1, <1>2, FS_Subset
<1>4. Cardinality(T) \in Nat
    <2> HIDE DEF T
    <2> QED
        BY <1>3, FS_CardinalityType
<1> QED
    BY <1>4 DEF Minutes

LEMMA KnownJobs ==
    ASSUME HandlerTypes, NEW n \in 0..Now
    PROVE  Jobs(n) \subseteq JobsOf(log) /\ Schedulable(n) \subseteq Jobs(n)
           /\ JobsOf(log) \subseteq Nat
<1>1. DOMAIN log = 1..Now /\ Now \in Nat
    BY EventsAreEntries
<1>2. \A i \in DOMAIN log : log[i].job \in Nat
    <2>1. \A i \in DOMAIN log : log[i] \in Entries
        BY DEF HandlerTypes
    <2> QED
        BY <2>1 DEF Entries
<1>3. Jobs(n) \subseteq JobsOf(log)
    BY <1>1 DEF Jobs, Events, JobsOf
<1>4. JobsOf(log) \subseteq Nat
    BY <1>2 DEF JobsOf
<1> QED
    BY <1>3, <1>4 DEF Schedulable

\* Whatever is carried of the base and whatever is added, a plan is about jobs
\* of the base and jobs to schedule.
LEMMA PlansAreMade ==
    ASSUME HandlerTypes, NEW n \in 0..Now, NEW id, NEW carve,
           id # None => stored[id].content \in Contents,
           \A c \in carve : c \subseteq Placed(id),
           NEW content \in Solutions(id, n, carve)
    PROVE  /\ content \in Contents
           /\ \E carried \in carve : \E new \in SUBSET (Schedulable(n) \ carried) :
                /\ DOMAIN content.minutes = carried \cup new
                /\ content.left = (Schedulable(n) \ carried) \ new
                /\ \A j \in new : content.minutes[j] = Minutes(n, j)
<1>1. PICK carried \in carve :
         \E new \in SUBSET (Schedulable(n) \ carried) : content = Horizon(id, n, carried, new)
    BY DEF Solutions
<1>2. PICK new \in SUBSET (Schedulable(n) \ carried) : content = Horizon(id, n, carried, new)
    BY <1>1
<1>3. /\ DOMAIN content.minutes = carried \cup new
      /\ content.left = (Schedulable(n) \ carried) \ new
      /\ \A j \in new : content.minutes[j] = Minutes(n, j)
    BY <1>2 DEF Horizon
<1>4. Schedulable(n) \subseteq Nat
    BY KnownJobs
<1>5. \A j \in Placed(id) : j \in Nat /\ stored[id].content.minutes[j] \in Nat
    <2>1. CASE id = None
        BY <2>1 DEF Placed
    <2>2. CASE id # None
        <3>1. PICK js \in SUBSET Nat : stored[id].content.minutes \in [js -> Nat]
            BY <2>2 DEF Contents
        <3> QED
            BY <2>2, <3>1 DEF Placed
    <2> QED
        BY <2>1, <2>2
<1>6. carried \cup new \in SUBSET Nat
    BY <1>4, <1>5
<1> DEFINE m == [j \in carried \cup new |->
                   IF j \in carried THEN stored[id].content.minutes[j] ELSE Minutes(n, j)]
<1>7. content = [minutes |-> m, left |-> (Schedulable(n) \ carried) \ new]
    BY <1>2 DEF Horizon
<1>8. m \in [carried \cup new -> Nat]
    BY <1>5, MinutesAreNumbers
<1>9. m \in UNION {[js -> Nat] : js \in SUBSET Nat}
    <2> HIDE DEF m
    <2> QED
        BY <1>6, <1>8
<1>10. content \in Contents
    <2> HIDE DEF m
    <2> QED
        BY <1>4, <1>7, <1>9 DEF Contents
<1> QED
    BY <1>3, <1>10

LEMMA CarvesArePlaced ==
    ASSUME NEW id, NEW n
    PROVE  /\ \A c \in Carried(id, n) : c \subseteq Placed(id)
           /\ \A c \in CarryNothing(id, n) : c \subseteq Placed(id)
BY DEF Carried, CarryNothing

\* A content fit to be stored: about jobs that were booked.
LEMMA PlansMention ==
    ASSUME HandlerTypes, NEW n \in 0..Now, NEW id, NEW carve,
           id # None => stored[id].content \in Contents /\ Mentions(stored[id].content) \subseteq JobsOf(log),
           \A c \in carve : c \subseteq Placed(id),
           NEW content \in Solutions(id, n, carve)
    PROVE  content \in Contents /\ Mentions(content) \subseteq JobsOf(log)
<1>0. \E carried \in carve : \E new \in SUBSET (Schedulable(n) \ carried) :
        /\ DOMAIN content.minutes = carried \cup new
        /\ content.left = (Schedulable(n) \ carried) \ new
        /\ \A j \in new : content.minutes[j] = Minutes(n, j)
    BY PlansAreMade, SMTT(30)
<1>1. PICK carried \in carve : \E new \in SUBSET (Schedulable(n) \ carried) :
        /\ DOMAIN content.minutes = carried \cup new
        /\ content.left = (Schedulable(n) \ carried) \ new
    BY <1>0
<1>2. carried \subseteq JobsOf(log)
    <2>1. Placed(id) \subseteq JobsOf(log)
        BY DEF Placed, Mentions
    <2> QED
        BY <2>1
<1>3. Schedulable(n) \subseteq JobsOf(log)
    BY KnownJobs
<1>4. content \in Contents
    BY PlansAreMade
<1> QED
    BY <1>1, <1>2, <1>3, <1>4 DEF Mentions
-----------------------------------------------------------------------------
(* What a step leaves alone.                                               *)

NewLog == log' = log \/ \E e \in Entries : log' = Append(log, e)

Elsewhere(w) == \A v \in Writers \ {w} :
    /\ step'[v] = step[v] /\ req'[v] = req[v] /\ base'[v] = base[v] /\ view'[v] = view[v]
    /\ cand'[v] = cand[v] /\ pc'[v] = pc[v] /\ plan'[v] = plan[v] /\ seen'[v] = seen[v]

\* At most the version being committed is written.
Shelves(w) ==
    \/ stored' = stored
    \/ pc[w] # "idle" /\ \E x \in {Torn, plan[w].version} : stored' = With(stored, plan[w].id, x)

\* Only the files of a single process are ever written twice.
Grows(w) ==
    /\ DOMAIN stored \subseteq DOMAIN stored'
    /\ \A id \in DOMAIN stored :
         stored'[id] = stored[id] \/ (~ConditionalWrites /\ pc[w] # "idle" /\ id = plan[w].id)
    /\ Cardinality(DOMAIN stored) \in Nat /\ Cardinality(DOMAIN stored') \in Nat
    /\ Cardinality(DOMAIN stored) <= Cardinality(DOMAIN stored')

Result(w) ==
    /\ base' \in [Writers -> Ids \cup {None}]
    /\ view' \in [Writers -> Nat] /\ \A v \in Writers : view'[v] <= Len(log')
    /\ cand' \in [Writers -> Plans \cup {NoPlan}]
    /\ Elsewhere(w) /\ Good(w)'

LEMMA LogGrowing ==
    ASSUME HandlerTypes, NewLog
    PROVE  JobsOf(log) \subseteq JobsOf(log') /\ Len(log) \in Nat /\ Len(log') \in Nat
           /\ Len(log) <= Len(log')
<1>1. CASE log' = log
    BY <1>1 DEF HandlerTypes
<1>2. ASSUME NEW e \in Entries, log' = Append(log, e)
      PROVE  JobsOf(log) \subseteq JobsOf(log') /\ Len(log') = Len(log) + 1
    <2>1. DOMAIN log \subseteq DOMAIN log' /\ \A i \in DOMAIN log : log'[i] = log[i]
        BY <1>2, Appended
    <2>2. Len(log') = Len(log) + 1
        BY <1>2 DEF HandlerTypes
    <2> QED
        BY <2>1, <2>2 DEF JobsOf
<1>3. Len(log) \in Nat
    BY DEF HandlerTypes
<1> QED
    BY <1>1, <1>2, <1>3 DEF NewLog

LEMMA ShelfIsKept ==
    ASSUME Deployed, WorkInv, NewLog, NEW w \in Writers, Shelves(w),
           ConditionalWrites /\ stored' # stored => plan[w].id \notin DOMAIN stored
    PROVE  Shelf' /\ IsFiniteSet(DOMAIN stored)' /\ Grows(w)
<1> DEFINE id == plan[w].id
           N == Cardinality(DOMAIN stored)
<1>1. IsFiniteSet(DOMAIN stored) /\ N \in Nat
    BY FS_CardinalityType DEF WorkInv, PlanTypes
<1>2. JobsOf(log) \subseteq JobsOf(log')
    BY LogGrowing DEF WorkInv, StampInv
<1>3. CASE stored' = stored
    <2>1. Shelf'
        BY <1>2, <1>3 DEF WorkInv, Shelf
    <2> QED
        BY <1>1, <1>3, <2>1 DEF Grows
<1>4. CASE stored' # stored
    <2>1. PICK x \in {Torn, plan[w].version} : stored' = With(stored, id, x)
        BY <1>4 DEF Shelves
    <2>2. pc[w] # "idle" /\ plan[w] = cand[w] /\ HasPlan(w)
        BY <1>4 DEF Shelves, WorkInv, Good, CallOf, HasPlan
    <2>3. /\ Len(id) = 1 => id[1] <= N + 1
          /\ Mentions(plan[w].version.content) \subseteq JobsOf(log) /\ plan[w] \in Plans
        BY <2>2 DEF WorkInv, Good, PlanOf
    <2>4. DOMAIN stored' = DOMAIN stored \cup {id} /\ stored'[id] = x
          /\ \A i \in DOMAIN stored : i # id => stored'[i] = stored[i]
        BY <2>1 DEF With
    <2>5. IsFiniteSet(DOMAIN stored \cup {id})
          /\ Cardinality(DOMAIN stored \cup {id}) = IF id \in DOMAIN stored THEN N ELSE N + 1
        BY <1>1, FS_AddElement
    <2> DEFINE N2 == Cardinality(DOMAIN stored')
    <2>6. IsFiniteSet(DOMAIN stored') /\ N2 = IF id \in DOMAIN stored THEN N ELSE N + 1
        BY <2>4, <2>5
    <2>7. ASSUME NEW i \in DOMAIN stored', Len(i) = 1 PROVE i[1] <= N2
        <3>1. DOMAIN stored \subseteq Ids /\ id \in Ids
            BY <2>3 DEF WorkInv, StoreInv, StoreTypeOK, Plans
        <3>2. i \in Ids
            BY <2>4, <3>1
        <3>3. i[1] \in Nat
            BY <2>7, <3>2 DEF Deployed, IdsAreMinted
        <3>4. CASE i \in DOMAIN stored
            <4>1. i[1] <= N
                BY <2>7, <3>4 DEF WorkInv, Shelf
            <4> HIDE DEF N, N2
            <4> QED
                BY <1>1, <2>6, <3>3, <4>1
        <3>5. CASE i \notin DOMAIN stored
            <4>1. i = id /\ i[1] <= N + 1
                BY <2>3, <2>4, <2>7, <3>5
            <4> HIDE DEF N, N2
            <4> QED
                BY <2>6, <3>5, <4>1
        <3> QED
            BY <3>4, <3>5
    <2>8. ASSUME NEW i \in DOMAIN stored', stored'[i] \in Versions
          PROVE  Mentions(stored'[i].content) \subseteq JobsOf(log')
        <3>1. CASE i = id
            BY <1>2, <2>3, <2>4, <2>8, <3>1, StoreConstants
        <3>2. CASE i # id
            BY <1>2, <2>4, <2>8, <3>2 DEF WorkInv, Shelf
        <3> QED
            BY <3>1, <3>2
    <2>9. Shelf'
        BY <2>7, <2>8 DEF Shelf
    <2>10. N2 \in Nat /\ N <= N2
        <3> HIDE DEF N, N2
        <3> QED
            BY <1>1, <2>6
    <2>11. \A i \in DOMAIN stored :
             stored'[i] = stored[i] \/ (~ConditionalWrites /\ pc[w] # "idle" /\ i = plan[w].id)
        BY <1>4, <2>2, <2>4
    <2> QED
        BY <1>1, <2>4, <2>6, <2>9, <2>10, <2>11 DEF Grows
<1> QED
    BY <1>3, <1>4

\* What the others hold stays good.
LEMMA OthersStayGood ==
    ASSUME Deployed, WorkInv, NewLog, NEW w \in Writers, Elsewhere(w), Grows(w),
           NEW v \in Writers \ {w}
    PROVE  Good(v)'
<1>1. ConditionalWrites /\ v \in Writers
    BY DEF Deployed, Alone
<1>2. \A id \in DOMAIN stored : id \in DOMAIN stored' /\ stored'[id] = stored[id]
    BY <1>1 DEF Grows
<1>3. JobsOf(log) \subseteq JobsOf(log')
    BY LogGrowing DEF WorkInv, StampInv
<1>4. /\ step'[v] = step[v] /\ req'[v] = req[v] /\ base'[v] = base[v]
      /\ cand'[v] = cand[v] /\ pc'[v] = pc[v] /\ plan'[v] = plan[v] /\ seen'[v] = seen[v]
    BY DEF Elsewhere
<1>5. Good(v)
    BY <1>1 DEF WorkInv
<1>6. RoleOf(v)'
    BY <1>4, <1>5 DEF Good, RoleOf, NamesItsBase
<1>7. BaseOf(v)'
    BY <1>2, <1>4, <1>5 DEF Good, BaseOf, NamesItsBase, HasBase
<1>8. PlanOf(v)'
    <2> SUFFICES ASSUME HasPlan(v)' PROVE
            /\ cand[v] \in Plans /\ cand[v].version.parent = base[v] /\ cand[v].id # base[v]
            /\ Len(cand[v].id) = 1 => cand[v].id[1] <= Cardinality(DOMAIN stored') + 1
            /\ Mentions(cand[v].version.content) \subseteq JobsOf(log')
        BY <1>4 DEF PlanOf
    <2>1. /\ cand[v] \in Plans /\ cand[v].version.parent = base[v] /\ cand[v].id # base[v]
          /\ Len(cand[v].id) = 1 => cand[v].id[1] <= Cardinality(DOMAIN stored) + 1
          /\ Mentions(cand[v].version.content) \subseteq JobsOf(log)
        BY <1>4, <1>5 DEF Good, PlanOf, HasPlan
    <2>2. cand[v].id \in Ids
        BY <2>1 DEF Plans
    <2>3. Len(cand[v].id) = 1 => cand[v].id[1] \in Nat
        BY <2>2 DEF Deployed, IdsAreMinted
    <2>4. Len(cand[v].id) = 1 => cand[v].id[1] <= Cardinality(DOMAIN stored') + 1
        <3> DEFINE N == Cardinality(DOMAIN stored)
                   N2 == Cardinality(DOMAIN stored')
        <3>1. N \in Nat /\ N2 \in Nat /\ N <= N2
            BY DEF Grows
        <3>2. Len(cand[v].id) = 1 => cand[v].id[1] <= N + 1
            BY <2>1
        <3> HIDE DEF N, N2
        <3>3. Len(cand[v].id) = 1 => cand[v].id[1] <= N2 + 1
            BY <2>3, <3>1, <3>2
        <3> QED
            BY <3>3 DEF N2
    <2> QED
        BY <1>3, <2>1, <2>4
<1>9. CallOf(v)'
    <2>1. pc[v] = "move" => plan[v].id \in DOMAIN stored
        BY <1>1 DEF WorkInv, StoreInv, Underway
    <2> QED
        BY <1>1, <1>2, <1>4, <1>5, <2>1 DEF Good, CallOf
<1> QED
    BY <1>6, <1>7, <1>8, <1>9 DEF Good

LEMMA ResultKeeps ==
    ASSUME Deployed, WorkInv, StampInv', StoreInv', NewLog, NEW w \in Writers, Result(w), Shelves(w),
           ConditionalWrites /\ stored' # stored => plan[w].id \notin DOMAIN stored
    PROVE  WorkInv'
<1>1. Shelf' /\ IsFiniteSet(DOMAIN stored)' /\ Grows(w)
    BY ShelfIsKept
<1>2. \A v \in Writers \ {w} : Good(v)'
    BY <1>1, OthersStayGood DEF Result
<1>3. Good(w)'
    BY DEF Result
<1>4. PlanTypes'
    BY <1>1 DEF PlanTypes, Result
<1>5. \A v \in Writers : Good(v)'
    BY <1>2, <1>3
<1> QED
    BY <1>1, <1>4, <1>5 DEF WorkInv
-----------------------------------------------------------------------------
(* Each action, as far as the store goes: its StoreMove is one of the      *)
(* store's own, or none.                                                   *)

StoreMove(w) == (storeVars' = storeVars) \/ StoreNext

Outcome(w) ==
    /\ Result(w) /\ Shelves(w) /\ StoreMove(w)
    /\ ConditionalWrites /\ stored' # stored => plan[w].id \notin DOMAIN stored

LEMMA EffectsGrowLogs ==
    ASSUME StampInv, NEW w \in Writers, Effect(w) PROVE NewLog
<1>1. CASE Records(w)
    <2>1. req[w].kind \in Appending
        BY <1>1 DEF Records, StampInv, Roles
    <2>2. Event(w, EventKind(req[w].kind)) \in Entries
        BY <2>1, EventKinds, EventIsAnEntry DEF StampInv
    <2> QED
        BY <1>1, <2>2 DEF Records, NewLog
<1>2. CASE Floats(w)
    <2>1. req[w] \in Requests
        BY DEF StampInv, HandlerTypes
    <2>2. [Event(w, "offered") EXCEPT !.at = req[w].at] \in Entries
        BY <2>1 DEF Event, Entries, Requests, Recorded
    <2> QED
        BY <1>2, <2>2 DEF Floats, NewLog
<1> QED
    BY <1>1, <1>2 DEF Effect, Asks, Stamped, Goes, NewLog

\* A step that touches neither the store nor the handler's own plan.
LEMMA StoreUntouched ==
    ASSUME WorkInv, NEW w \in Writers, storeVars' = storeVars
    PROVE  /\ Shelves(w) /\ StoreMove(w) /\ stored' = stored /\ head' = head /\ seen' = seen
           /\ reply' = reply /\ pc' = pc /\ plan' = plan /\ etag' = etag
BY DEF storeVars, Shelves, StoreMove

LEMMA CallsAreCommits ==
    ASSUME WorkInv, NEW w \in Writers, step[w] # "commit" PROVE pc[w] = "idle"
BY DEF WorkInv, Good, CallOf

LEMMA EasyOutcome ==
    ASSUME Deployed, WorkInv, NewLog, NEW w \in Writers, OnlyMoves(w), step[w] # "commit",
           base' = base, view' = view, cand' = cand, storeVars' = storeVars,
           \/ step'[w] \in {"idle", "mint", "append", "base", "place", "float"}
           \/ step'[w] = "world" /\ req'[w].kind # "repair"
           \/ step'[w] = "quiet" /\ req'[w].kind = "outage"
    PROVE  Outcome(w)
<1>1. pc[w] = "idle"
    BY CallsAreCommits
<1>2. /\ Shelves(w) /\ StoreMove(w) /\ stored' = stored
      /\ seen' = seen /\ pc' = pc /\ plan' = plan
    BY StoreUntouched
<1>3. Good(w)'
    BY <1>1, <1>2 DEF Good, RoleOf, BaseOf, PlanOf, CallOf, HasBase, HasPlan
<1>4. Elsewhere(w)
    BY <1>2 DEF Elsewhere, OnlyMoves
<1>5. \A v \in Writers : view'[v] <= Len(log')
    <2>1. Len(log) \in Nat /\ Len(log') \in Nat /\ Len(log) <= Len(log')
        BY LogGrowing DEF WorkInv, StampInv
    <2>2. \A v \in Writers : view[v] \in Nat /\ view[v] <= Len(log)
        BY DEF WorkInv, PlanTypes
    <2> QED
        BY <2>1, <2>2
<1>6. Result(w)
    BY <1>3, <1>4, <1>5 DEF Result, WorkInv, PlanTypes
<1> QED
    BY <1>2, <1>6 DEF Outcome

\* A handler that lets go of its plan holds nothing any more.
LEMMA EndOutcome ==
    ASSUME Deployed, WorkInv, NewLog, NEW w \in Writers, NEW s \in {"idle", "place"}, GoTo(w, s),
           \A v \in Writers \ {w} : req'[v] = req[v],
           view' = [view EXCEPT ![w] = 0], base' = [base EXCEPT ![w] = None],
           cand' = [cand EXCEPT ![w] = NoPlan],
           stored' = stored, pc'[w] = "idle", StoreMove(w),
           \A v \in Writers \ {w} : pc'[v] = pc[v] /\ plan'[v] = plan[v] /\ seen'[v] = seen[v]
    PROVE  Outcome(w)
<1>2. step'[w] = s /\ step' = [step EXCEPT ![w] = s]
    BY DEF GoTo, WorkInv, StampInv, HandlerTypes
<1>3. Good(w)'
    BY <1>2 DEF Good, RoleOf, BaseOf, PlanOf, CallOf, HasBase, HasPlan
<1>4. Elsewhere(w)
    BY <1>2 DEF Elsewhere, WorkInv, StampInv, HandlerTypes, PlanTypes
<1>5. view' \in [Writers -> Nat] /\ \A v \in Writers : view'[v] <= Len(log')
    <2>1. Len(log) \in Nat /\ Len(log') \in Nat /\ Len(log) <= Len(log')
        BY LogGrowing DEF WorkInv, StampInv
    <2>2. view \in [Writers -> Nat] /\ \A v \in Writers : view[v] <= Len(log)
        BY DEF WorkInv, PlanTypes
    <2>3. \A v \in Writers : view'[v] = 0 \/ view'[v] = view[v]
        BY <2>2
    <2>4. view' \in [Writers -> Nat]
        BY <2>2
    <2> QED
        BY <2>1, <2>2, <2>3, <2>4
<1>6. base' \in [Writers -> Ids \cup {None}] /\ cand' \in [Writers -> Plans \cup {NoPlan}]
    BY DEF WorkInv, PlanTypes
<1>7. Result(w)
    BY <1>3, <1>4, <1>5, <1>6 DEF Result
<1> QED
    BY <1>7 DEF Outcome, Shelves

LEMMA DoneOutcome ==
    ASSUME Deployed, WorkInv, NewLog, NEW w \in Writers, Done(w),
           \/ storeVars' = storeVars /\ step[w] # "commit"
           \/ Crash(w)
           \/ storeVars' = storeVars /\ pc[w] = "idle"
    PROVE  Outcome(w)
<1>1. /\ stored' = stored /\ pc'[w] = "idle" /\ StoreMove(w)
      /\ \A v \in Writers \ {w} : pc'[v] = pc[v] /\ plan'[v] = plan[v] /\ seen'[v] = seen[v]
    <2>1. CASE storeVars' = storeVars /\ ~Crash(w)
        <3>1. pc[w] = "idle"
            BY <2>1, CallsAreCommits
        <3> QED
            BY <2>1, <3>1, StoreUntouched
    <2>2. CASE Crash(w)
        BY <2>2 DEF Crash, Return, StoreMove, StoreNext, WorkInv, StoreInv, StoreTypeOK
    <2> QED
        BY <2>1, <2>2
<1>2. \A v \in Writers \ {w} : req'[v] = req[v]
    BY DEF Done, WorkInv, StampInv, HandlerTypes
<1> QED
    BY <1>1, <1>2, EndOutcome DEF Done

LEMMA RequestOutcome ==
    ASSUME Deployed, WorkInv, NewLog, NEW w \in Writers, OnlyMoves(w), Request(w) PROVE Outcome(w)
<1>1. ASSUME NEW kind, NEW j, NEW who, NEW s \in {"mint", "base", "world"}, Ask(w, kind, j, who, s),
             s = "world" => kind # "repair"
      PROVE  Outcome(w)
    <2>1. step'[w] = s /\ req'[w].kind = kind
        BY <1>1 DEF Ask, GoTo, WorkInv, StampInv, HandlerTypes, NoReq
    <2> QED
        BY <1>1, <2>1, EasyOutcome DEF Ask
<1>2. ASSUME NEW kind, NEW j, NEW who, AskStamped(w, kind, j, who) PROVE Outcome(w)
    <2>1. step'[w] = "append"
        BY <1>2 DEF AskStamped, GoTo, WorkInv, StampInv, HandlerTypes
    <2> QED
        BY <1>2, <2>1, EasyOutcome DEF AskStamped
<1>3. CASE Book(w)
    BY <1>1, <1>3 DEF Book
<1>4. CASE Cancel(w)
    BY <1>2, <1>4 DEF Cancel
<1>5. CASE Claim(w)
    BY <1>2, <1>5 DEF Claim
<1>6. CASE CommitPlan(w)
    BY <1>1, <1>6 DEF CommitPlan
<1>7. CASE SetCrew(w)
    BY <1>1, <1>7 DEF SetCrew
<1>8. CASE Repair(w)
    BY <1>1, <1>8 DEF Repair
<1>9. CASE CommitFromCLI(w)
    BY <1>1, <1>9 DEF CommitFromCLI
<1>10. CASE Record(w)
    BY <1>2, <1>10 DEF Record
<1>11. CASE Outage(w)
    BY <1>2, <1>11 DEF Outage
<1> QED
    BY <1>3, <1>4, <1>5, <1>6, <1>7, <1>8, <1>9, <1>10, <1>11 DEF Request

LEMMA RecordingOutcome ==
    ASSUME Deployed, WorkInv, NewLog, NEW w \in Writers, OnlyMoves(w),
           MintJob(w) \/ AppendEvent(w) \/ AppendRefused(w) \/ AppendUnheard(w) \/ Float(w)
    PROVE  Outcome(w)
<1>1. CASE MintJob(w)
    <2>1. step'[w] = "append"
        BY <1>1 DEF MintJob, GoTo, WorkInv, StampInv, HandlerTypes
    <2> QED
        BY <1>1, <2>1, EasyOutcome DEF MintJob
<1>2. CASE AppendEvent(w)
    <2>1. step[w] = "append" /\ storeVars' = storeVars
        BY <1>2 DEF AppendEvent
    <2>2. CASE Done(w)
        BY <2>1, <2>2, DoneOutcome
    <2>3. CASE ~Done(w)
        <3>1. GoTo(w, AfterAppend(req[w].kind)) /\ req' = req /\ view' = view /\ base' = base
              /\ cand' = cand /\ AfterAppend(req[w].kind) # "idle"
            BY <1>2, <2>3 DEF AppendEvent
        <3>2. step'[w] = AfterAppend(req[w].kind)
            BY <3>1 DEF GoTo, WorkInv, StampInv, HandlerTypes
        <3>3. \/ step'[w] = "world" /\ req'[w].kind # "repair"
              \/ step'[w] = "quiet" /\ req'[w].kind = "outage"
            BY <3>1, <3>2 DEF AfterAppend
        <3> QED
            BY <2>1, <3>1, <3>3, EasyOutcome
    <2> QED
        BY <2>2, <2>3
<1>3. CASE AppendRefused(w)
    BY <1>3, DoneOutcome DEF AppendRefused
<1>4. CASE AppendUnheard(w)
    BY <1>4, DoneOutcome DEF AppendUnheard
<1>5. CASE Float(w)
    BY <1>5, DoneOutcome DEF Float
<1> QED
    BY <1>1, <1>2, <1>3, <1>4, <1>5

\* The head a handler reads can be loaded.
LEMMA HeadsCanBeLoaded ==
    ASSUME WorkInv, ~HeadUnreadable
    PROVE  head \in Ids \cup {None} /\ (head # None => head \in DOMAIN stored /\ stored[head] \in Versions)
<1>1. head \in DOMAIN stored \cup {None} /\ DOMAIN stored \subseteq Ids
      /\ stored \in [DOMAIN stored -> Versions \cup {Torn}]
    BY DEF WorkInv, StoreInv, StoreTypeOK, Underway
<1> QED
    BY <1>1 DEF HeadUnreadable

LEMMA ReadingOutcome ==
    ASSUME Deployed, WorkInv, NewLog, NEW w \in Writers, OnlyMoves(w), log' = log,
           \/ ReadWorld(w) \/ ReadBase(w) \/ RereadHead(w) \/ ReadForReroute(w) \/ ReadPlacement(w)
    PROVE  Outcome(w)
<1>0. /\ step \in [Writers -> Stages] /\ req \in [Writers -> Requests] /\ Len(log) \in Nat
      /\ base \in [Writers -> Ids \cup {None}] /\ view \in [Writers -> Nat]
      /\ cand \in [Writers -> Plans \cup {NoPlan}] /\ \A v \in Writers : view[v] <= Len(log)
      /\ seen \in [Writers -> Ids \cup {None}]
    BY DEF WorkInv, StampInv, HandlerTypes, PlanTypes, StoreInv, StoreTypeOK
<1>1. Good(w)
    BY DEF WorkInv
<1>2. CASE ReadWorld(w) \/ (ReadForReroute(w) /\ ~Done(w))
    <2>1. /\ view' = [view EXCEPT ![w] = Len(log)] /\ req' = req /\ base' = base /\ cand' = cand
          /\ storeVars' = storeVars
          /\ \/ step[w] = "world" /\ req[w].kind = "repair" /\ step' = [step EXCEPT ![w] = "choose"]
             \/ step' = [step EXCEPT ![w] = "base"] /\ step[w] \in {"world", "quiet"}
        BY <1>2 DEF ReadWorld, ReadForReroute, GoTo, Now
    <2>2. /\ Shelves(w) /\ StoreMove(w) /\ stored' = stored /\ seen' = seen /\ pc' = pc
          /\ plan' = plan /\ pc[w] = "idle"
        BY <2>1, StoreUntouched, CallsAreCommits
    <2>3. view' \in [Writers -> Nat] /\ \A v \in Writers : view'[v] <= Len(log')
        BY <1>0, <2>1
    <2>4. RoleOf(w)'
        BY <1>0, <2>1 DEF RoleOf
    <2>5. BaseOf(w)'
        BY <1>0, <1>1, <2>1, <2>2 DEF BaseOf, HasBase, Good, NamesItsBase
    <2>6. PlanOf(w)' /\ CallOf(w)'
        BY <1>0, <2>1, <2>2 DEF PlanOf, HasPlan, CallOf
    <2>7. Elsewhere(w)
        BY <1>0, <2>1, <2>2 DEF Elsewhere
    <2> QED
        BY <1>0, <2>1, <2>2, <2>3, <2>4, <2>5, <2>6, <2>7 DEF Outcome, Result, Good
<1>3. CASE ReadBase(w) /\ ~(HeadUnreadable \/ (head = None /\ req[w].kind \in {"repair", "outage"}))
    <2> DEFINE next == CASE req[w].kind = "repair" -> "world"
                         [] req[w].kind = "outage" -> "reroute"
                         [] OTHER -> "mintplan"
    <2>1. /\ base' = [base EXCEPT ![w] = head] /\ GoTo(w, next) /\ req' = req /\ view' = view
          /\ cand' = cand /\ step[w] = "base"
          /\ IF NamesItsBase(req[w].kind) THEN ReadHead(w) ELSE UNCHANGED storeVars
        BY <1>3 DEF ReadBase
    <2>2. step' = [step EXCEPT ![w] = next]
          /\ \/ next = "world" /\ req[w].kind = "repair"
             \/ next = "reroute" /\ req[w].kind = "outage"
             \/ next = "mintplan" /\ req[w].kind \notin {"repair", "outage"}
        BY <2>1 DEF GoTo
    <2> HIDE DEF next
    <2>3. /\ head \in Ids \cup {None} /\ (head # None => head \in DOMAIN stored /\ stored[head] \in Versions)
          /\ req[w].kind \in {"repair", "outage"} => head # None
        BY <1>3, HeadsCanBeLoaded
    <2>4. /\ Shelves(w) /\ StoreMove(w) /\ stored' = stored /\ pc' = pc /\ plan' = plan /\ pc[w] = "idle"
          /\ \A v \in Writers \ {w} : seen'[v] = seen[v]
          /\ NamesItsBase(req[w].kind) => seen'[w] = head
        <3>1. pc[w] = "idle"
            BY <2>1, CallsAreCommits
        <3>2. CASE NamesItsBase(req[w].kind)
            <4>1. ReadHead(w)
                BY <2>1, <3>2
            <4>2. StoreMove(w)
                BY <4>1 DEF StoreMove, StoreNext
            <4> QED
                BY <1>0, <3>1, <4>1, <4>2 DEF ReadHead, Shelves, callVars
        <3>3. CASE ~NamesItsBase(req[w].kind)
            BY <2>1, <3>1, <3>3, StoreUntouched
        <3> QED
            BY <3>2, <3>3
    <2>5. RoleOf(w)'
        BY <1>0, <2>1, <2>2 DEF RoleOf
    <2>6. BaseOf(w)'
        <3>1. base'[w] = head /\ req'[w] = req[w]
            BY <1>0, <2>1
        <3> QED
            BY <2>3, <2>4, <3>1 DEF BaseOf, NamesItsBase
    <2>7. PlanOf(w)' /\ CallOf(w)'
        BY <1>0, <2>2, <2>4 DEF PlanOf, HasPlan, CallOf
    <2>8. Elsewhere(w)
        BY <1>0, <2>1, <2>2, <2>4 DEF Elsewhere
    <2> QED
        BY <1>0, <2>1, <2>3, <2>4, <2>5, <2>6, <2>7, <2>8 DEF Outcome, Result, Good
<1>4. CASE RereadHead(w) /\ ~HeadUnreadable
    <2>1. /\ step[w] = "head" /\ ReadHead(w) /\ step' = [step EXCEPT ![w] = "commit"]
          /\ req' = req /\ view' = view /\ base' = base /\ cand' = cand
        BY <1>4 DEF RereadHead, GoTo
    <2>2. StoreMove(w)
        BY <2>1 DEF StoreMove, StoreNext
    <2>3. /\ Shelves(w) /\ stored' = stored /\ pc' = pc /\ plan' = plan /\ pc[w] = "idle"
          /\ \A v \in Writers \ {w} : seen'[v] = seen[v]
        BY <1>0, <2>1 DEF ReadHead, Shelves, callVars
    <2>4. ~NamesItsBase(req[w].kind)
        BY <1>1, <2>1 DEF Good, RoleOf
    <2>5. RoleOf(w)'
        BY <1>0, <2>1 DEF RoleOf
    <2>6. BaseOf(w)'
        BY <1>0, <1>1, <2>1, <2>3, <2>4 DEF BaseOf, HasBase, Good, NamesItsBase
    <2>7. PlanOf(w)'
        BY <1>0, <1>1, <2>1, <2>3 DEF PlanOf, HasPlan, Good
    <2>8. CallOf(w)'
        BY <2>3 DEF CallOf
    <2>9. Elsewhere(w)
        BY <1>0, <2>1, <2>3 DEF Elsewhere
    <2> QED
        BY <1>0, <2>1, <2>2, <2>3, <2>5, <2>6, <2>7, <2>8, <2>9 DEF Outcome, Result, Good
<1>5. CASE ReadPlacement(w) /\ ~Done(w)
    <2>1. /\ step' = [step EXCEPT ![w] = "float"] /\ step[w] = "place"
          /\ view' = view /\ base' = base /\ cand' = cand /\ storeVars' = storeVars
        BY <1>5 DEF ReadPlacement, GoTo
    <2> QED
        BY <1>0, <2>1, EasyOutcome
<1>6. CASE Done(w) /\ storeVars' = storeVars /\ step[w] # "commit"
    BY <1>6, DoneOutcome
<1> QED
    BY <1>2, <1>3, <1>4, <1>5, <1>6 DEF ReadWorld, ReadBase, RereadHead, ReadForReroute, ReadPlacement
\* The plan a handler is about to commit: the id is its own, and a base is
\* behind it that is not it.
LEMMA ContentsOfBase ==
    ASSUME Deployed, WorkInv, NEW w \in Writers, HasBase(w)
    PROVE  /\ base[w] \in Ids \cup {None} /\ view[w] \in 0..Now
           /\ base[w] # None => /\ base[w] \in DOMAIN stored /\ stored[base[w]] \in Versions
                                /\ stored[base[w]].content \in Contents
                                /\ Mentions(stored[base[w]].content) \subseteq JobsOf(log)
<1>1. base[w] \in Ids \cup {None} /\ view[w] \in Nat /\ view[w] <= Len(log)
    BY DEF WorkInv, PlanTypes
<1>2. Now = Len(log) /\ Now \in Nat
    BY EventsAreEntries DEF WorkInv, StampInv, Now
<1>3. base[w] # None => base[w] \in DOMAIN stored /\ stored[base[w]] \in Versions
    BY DEF WorkInv, Good, BaseOf
<1>4. \A v \in Versions : v.content \in Contents
    BY DEF Deployed, VersionsAreMade
<1> QED
    BY <1>1, <1>2, <1>3, <1>4 DEF WorkInv, Shelf

LEMMA MintedPlan ==
    ASSUME Deployed, WorkInv, NEW w \in Writers, HasBase(w), NEW content \in Contents,
           Mentions(content) \subseteq JobsOf(log),
           NEW new, new = [id |-> <<Cardinality(DOMAIN stored) + 1>>,
                           version |-> [parent |-> base[w], content |-> content]]
    PROVE  /\ new \in Plans /\ new.version.parent = base[w] /\ new.id # base[w]
           /\ Len(new.id) = 1 /\ new.id[1] <= Cardinality(DOMAIN stored) + 1
           /\ new.version.content = content
<1> DEFINE N == Cardinality(DOMAIN stored)
<1>1. N \in Nat
    BY FS_CardinalityType DEF WorkInv, PlanTypes
<1> HIDE DEF N
<1>2. <<N + 1>> \in Ids
    BY <1>1 DEF Deployed, IdsAreMinted
<1>3. new = [id |-> <<N + 1>>, version |-> [parent |-> base[w], content |-> content]]
    BY DEF N
<1>4. base[w] \in Ids \cup {None} /\ (base[w] # None => base[w] \in DOMAIN stored)
    BY ContentsOfBase
<1>5. <<N + 1>> # base[w]
    <2>1. \A id \in DOMAIN stored : Len(id) = 1 => id[1] <= N
        BY DEF WorkInv, Shelf, N
    <2>2. Len(<<N + 1>>) = 1 /\ <<N + 1>>[1] = N + 1 /\ ~(N + 1 <= N)
        BY <1>1
    <2>3. <<N + 1>> \notin DOMAIN stored
        BY <2>1, <2>2
    <2>4. <<N + 1>> # None
        BY <1>2, StoreConstants
    <2> QED
        BY <1>4, <2>3, <2>4
<1>6. [parent |-> base[w], content |-> content] \in Versions
    BY <1>4 DEF Deployed, VersionsAreMade
<1>7. new \in Plans
    BY <1>2, <1>3, <1>6 DEF Plans
<1>8. Len(new.id) = 1 /\ new.id[1] = N + 1
    BY <1>3
<1> QED
    BY <1>1, <1>3, <1>5, <1>7, <1>8 DEF N

LEMMA DerivedPlan ==
    ASSUME Deployed, WorkInv, NEW w \in Writers, HasBase(w), base[w] # None, NEW content \in Contents,
           NEW strategy \in Strategies, NEW new, new = Candidate(w, strategy, content)
    PROVE  /\ new \in Plans /\ new.version.parent = base[w] /\ new.id # base[w]
           /\ Len(new.id) # 1 /\ new.version.content = content
<1>1. base[w] \in Ids
    BY ContentsOfBase
<1>2. base[w] \in Seq(Nat) /\ base[w] # <<>> /\ Append(base[w], strategy) \in Ids /\ strategy \in Nat
    BY <1>1, DispatchConstants DEF Deployed, IdsAreMinted
<1>3. Len(base[w]) # 0 /\ Len(base[w]) \in Nat /\ Len(Append(base[w], strategy)) = Len(base[w]) + 1
    BY <1>2
<1>4. Append(base[w], strategy) # base[w] /\ Len(Append(base[w], strategy)) # 1
    BY <1>3
<1>5. [parent |-> base[w], content |-> content] \in Versions
    BY <1>1 DEF Deployed, VersionsAreMade
<1>6. new \in Plans
    BY <1>2, <1>5 DEF Plans, Candidate
<1> QED
    BY <1>4, <1>6 DEF Candidate

\* A handler that has made a plan has a good one.
LEMMA PlannedOutcome ==
    ASSUME Deployed, WorkInv, NEW w \in Writers, OnlyMoves(w), log' = log, storeVars' = storeVars,
           step[w] \in {"mintplan", "choose", "reroute"}, HasBase(w),
           step'[w] \in {"head", "commit"}, req'[w].kind = req[w].kind,
           base' = base, view' = view,
           NEW new \in Plans, cand' = [cand EXCEPT ![w] = new],
           new.version.parent = base[w], new.id # base[w],
           Len(new.id) = 1 => new.id[1] <= Cardinality(DOMAIN stored) + 1,
           Mentions(new.version.content) \subseteq JobsOf(log),
           step'[w] = "head" => ~NamesItsBase(req[w].kind)
    PROVE  Outcome(w)
<1>1. /\ Shelves(w) /\ StoreMove(w) /\ stored' = stored /\ seen' = seen /\ pc' = pc
      /\ plan' = plan /\ pc[w] = "idle"
    BY StoreUntouched, CallsAreCommits
<1>2. cand'[w] = new /\ cand' \in [Writers -> Plans \cup {NoPlan}]
      /\ \A v \in Writers \ {w} : cand'[v] = cand[v]
    BY DEF WorkInv, PlanTypes
<1>3. RoleOf(w)'
    BY DEF RoleOf, NamesItsBase
<1>4. BaseOf(w)'
    BY <1>1 DEF WorkInv, Good, BaseOf, NamesItsBase
<1>5. PlanOf(w)'
    BY <1>1, <1>2 DEF PlanOf
<1>6. CallOf(w)'
    BY <1>1 DEF CallOf
<1>7. Elsewhere(w)
    BY <1>1, <1>2 DEF Elsewhere, OnlyMoves
<1> QED
    BY <1>1, <1>2, <1>3, <1>4, <1>5, <1>6, <1>7 DEF Outcome, Result, Good, WorkInv, PlanTypes

LEMMA PlanningOutcome ==
    ASSUME Deployed, WorkInv, NewLog, NEW w \in Writers, OnlyMoves(w), log' = log,
           Plan(w) \/ Choose(w) \/ Reroute(w)
    PROVE  Outcome(w)
<1>0. storeVars' = storeVars /\ step \in [Writers -> Stages] /\ req \in [Writers -> Requests]
      /\ HandlerTypes /\ Good(w)
    BY DEF Plan, Choose, Reroute, WorkInv, StampInv, HandlerTypes
<1>1. CASE Done(w)
    <2>1. step[w] # "commit"
        BY DEF Plan, Choose, Reroute
    <2> QED
        BY <1>0, <1>1, <2>1, DoneOutcome
<1>2. HasBase(w)
    BY DEF Plan, Choose, Reroute, HasBase
<1>3. view[w] \in 0..Now /\ Now \in 0..Now
      /\ (base[w] # None => /\ stored[base[w]].content \in Contents
                            /\ Mentions(stored[base[w]].content) \subseteq JobsOf(log))
    BY <1>0, <1>2, ContentsOfBase, EventsAreEntries
<1>4. ASSUME NEW n \in 0..Now, NEW content \in Solutions(base[w], n, Carried(base[w], n))
      PROVE  content \in Contents /\ Mentions(content) \subseteq JobsOf(log)
    BY <1>0, <1>3, CarvesArePlaced, PlansMention
<1>5. ASSUME NEW n \in 0..Now, NEW content \in Solutions(base[w], n, CarryNothing(base[w], n))
      PROVE  content \in Contents /\ Mentions(content) \subseteq JobsOf(log)
    BY <1>0, <1>3, CarvesArePlaced, PlansMention
<1>6. CASE Plan(w) /\ ~Done(w)
    <2>1. PICK content \in Solutions(base[w], view[w],
                                     IF req[w].kind = "cli" THEN CarryNothing(base[w], view[w])
                                                            ELSE Carried(base[w], view[w])) :
              cand' = [cand EXCEPT ![w] =
                         [id |-> <<Cardinality(DOMAIN stored) + 1>>,
                          version |-> [parent |-> base[w], content |-> content]]]
        BY <1>6 DEF Plan
    <2>2. content \in Contents /\ Mentions(content) \subseteq JobsOf(log)
        BY <1>3, <1>4, <1>5, <2>1
    <2>3. PICK new : new = [id |-> <<Cardinality(DOMAIN stored) + 1>>,
                            version |-> [parent |-> base[w], content |-> content]]
        OBVIOUS
    <2>4. /\ new \in Plans /\ new.version.parent = base[w] /\ new.id # base[w]
          /\ Len(new.id) = 1 => new.id[1] <= Cardinality(DOMAIN stored) + 1
          /\ new.version.content = content
        BY <1>2, <2>2, <2>3, MintedPlan
    <2>5. /\ step[w] = "mintplan" /\ req' = req /\ view' = view /\ base' = base
          /\ step' = [step EXCEPT ![w] = IF req[w].kind = "cli" THEN "commit" ELSE "head"]
        BY <1>6 DEF Plan, GoTo
    <2>6. step'[w] \in {"head", "commit"} /\ (step'[w] = "head" => req[w].kind # "cli")
        BY <1>0, <2>5
    <2>7. step'[w] = "head" => ~NamesItsBase(req[w].kind)
        BY <1>0, <2>5, <2>6 DEF Good, RoleOf, NamesItsBase
    <2> QED
        BY <1>0, <1>2, <2>1, <2>2, <2>3, <2>4, <2>5, <2>6, <2>7, PlannedOutcome
<1>7. CASE (Choose(w) \/ Reroute(w)) /\ ~Done(w)
    <2>0. PICK n \in 0..Now : \E content \in Solutions(base[w], n, Carried(base[w], n)) :
              \E strategy \in Strategies : cand' = [cand EXCEPT ![w] = Candidate(w, strategy, content)]
        <3>1. CASE Choose(w)
            BY <1>3, <1>7, <3>1 DEF Choose
        <3>2. CASE Reroute(w)
            BY <1>3, <1>7, <3>2 DEF Reroute
        <3> QED
            BY <1>7, <3>1, <3>2
    <2>1. PICK content \in Solutions(base[w], n, Carried(base[w], n)), strategy \in Strategies :
              cand' = [cand EXCEPT ![w] = Candidate(w, strategy, content)]
        BY <2>0
    <2>2. content \in Contents /\ Mentions(content) \subseteq JobsOf(log)
        BY <1>4, <2>1
    <2>3. /\ step[w] \in {"choose", "reroute"} /\ view' = view /\ base' = base
          /\ step' = [step EXCEPT ![w] = "commit"]
        BY <1>7 DEF Choose, Reroute, GoTo
    <2>4. base[w] # None
        BY <1>0, <1>2, <2>3 DEF Good, BaseOf, RoleOf
    <2>5. PICK new : new = Candidate(w, strategy, content)
        OBVIOUS
    <2>6. /\ new \in Plans /\ new.version.parent = base[w] /\ new.id # base[w]
          /\ Len(new.id) # 1 /\ new.version.content = content
        BY <1>2, <2>2, <2>4, <2>5, DerivedPlan
    <2>7. req'[w].kind = req[w].kind
        <3>1. CASE Choose(w)
            <4>1. PICK c : req' = [req EXCEPT ![w].force = NeedsForce(w, c)]
                BY <1>7, <3>1 DEF Choose
            <4>2. req[w] \in Requests /\ req'[w] = [req[w] EXCEPT !.force = NeedsForce(w, c)]
                BY <1>0, <4>1
            <4> QED
                BY <4>2 DEF Requests
        <3>2. CASE Reroute(w)
            BY <1>7, <3>2 DEF Reroute
        <3> QED
            BY <1>7, <3>1, <3>2
    <2>8. step'[w] = "commit"
        BY <1>0, <2>3
    <2> QED
        BY <1>0, <1>2, <2>1, <2>2, <2>3, <2>5, <2>6, <2>7, <2>8, PlannedOutcome
<1> QED
    BY <1>1, <1>6, <1>7
-----------------------------------------------------------------------------
(* The commit.                                                             *)

\* A commit that goes on.
LEMMA CommitGoesOn ==
    ASSUME Deployed, WorkInv, NEW w \in Writers, step[w] = "commit", log' = log,
           step' = step, req' = req, view' = view, base' = base, cand' = cand,
           Shelves(w), StoreMove(w), seen' = seen,
           \A v \in Writers \ {w} : pc'[v] = pc[v] /\ plan'[v] = plan[v],
           plan'[w] = cand[w], stored' # stored => plan'[w] = plan[w],
           ConditionalWrites /\ stored' # stored => plan[w].id \notin DOMAIN stored,
           pc'[w] = "move" => /\ stored'[cand[w].id] \in Versions
                              /\ stored'[cand[w].id].content = cand[w].version.content
                              /\ ~ConditionalWrites => stored'[cand[w].id] = cand[w].version
    PROVE  Outcome(w)
<1>1. Good(w) /\ NewLog
    BY DEF WorkInv, NewLog
<1>2. Grows(w)
    BY <1>1, ShelfIsKept
<1>3. RoleOf(w)'
    BY DEF RoleOf
<1>4. HasBase(w) /\ HasPlan(w)
    BY DEF HasBase, HasPlan
<1>5. cand[w] \in Plans /\ cand[w].id # base[w]
    BY <1>1, <1>4 DEF Good, PlanOf
<1>6. base[w] # None => base[w] \in DOMAIN stored' /\ stored'[base[w]] \in Versions
    <2>1. base[w] # None => base[w] \in DOMAIN stored /\ stored[base[w]] \in Versions
        BY <1>1, <1>4 DEF Good, BaseOf
    <2>2. CASE stored' = stored
        BY <2>1, <2>2
    <2>3. CASE stored' # stored
        BY <1>2, <1>5, <2>1, <2>3 DEF Grows
    <2> QED
        BY <2>2, <2>3
<1>7. BaseOf(w)'
    BY <1>1, <1>4, <1>6 DEF Good, BaseOf, NamesItsBase
<1>8. PlanOf(w)'
    <2>1. /\ cand[w] \in Plans /\ cand[w].version.parent = base[w] /\ cand[w].id # base[w]
          /\ Len(cand[w].id) = 1 => cand[w].id[1] <= Cardinality(DOMAIN stored) + 1
          /\ Mentions(cand[w].version.content) \subseteq JobsOf(log)
        BY <1>1, <1>4 DEF Good, PlanOf
    <2>2. Len(cand[w].id) = 1 => cand[w].id[1] \in Nat
        BY <2>1 DEF Deployed, IdsAreMinted, Plans
    <2>3. Len(cand[w].id) = 1 => cand[w].id[1] <= Cardinality(DOMAIN stored') + 1
        <3> DEFINE N == Cardinality(DOMAIN stored)
                   N2 == Cardinality(DOMAIN stored')
        <3>1. N \in Nat /\ N2 \in Nat /\ N <= N2
            BY <1>2 DEF Grows
        <3>2. Len(cand[w].id) = 1 => cand[w].id[1] <= N + 1
            BY <2>1
        <3> HIDE DEF N, N2
        <3>3. Len(cand[w].id) = 1 => cand[w].id[1] <= N2 + 1
            BY <2>2, <3>1, <3>2
        <3> QED
            BY <3>3 DEF N2
    <2> QED
        BY <2>1, <2>3 DEF PlanOf
<1>9. CallOf(w)'
    BY DEF CallOf
<1>10. Elsewhere(w)
    BY DEF Elsewhere
<1> QED
    BY <1>3, <1>7, <1>8, <1>9, <1>10 DEF Outcome, Result, Good, WorkInv, PlanTypes

LEMMA CommitEnds ==
    ASSUME Deployed, WorkInv, NEW w \in Writers, log' = log, AfterCommit(w),
           stored' = stored, pc'[w] = "idle", StoreMove(w), seen' = seen,
           \A v \in Writers \ {w} : pc'[v] = pc[v] /\ plan'[v] = plan[v]
    PROVE  Outcome(w)
<1>1. NewLog
    BY DEF NewLog
<1>2. CASE Done(w)
    <2>1. \A v \in Writers \ {w} : req'[v] = req[v]
        BY <1>2 DEF Done, WorkInv, StampInv, HandlerTypes
    <2> QED
        BY <1>1, <1>2, <2>1, EndOutcome DEF Done
<1>3. CASE ~Done(w)
    BY <1>1, <1>3, EndOutcome DEF AfterCommit
<1> QED
    BY <1>2, <1>3

LEMMA CommitOutcome ==
    ASSUME Deployed, WorkInv, NEW w \in Writers, Commit(w) PROVE Outcome(w)
<1>1. step[w] = "commit" /\ log' = log /\ AfterCommit(w)
    BY DEF Commit
<1>2. Good(w) /\ HasPlan(w) /\ cand[w] \in Plans
    BY <1>1 DEF WorkInv, Good, PlanOf, HasPlan
<1>3. cand[w].id \in Ids /\ cand[w].version \in Versions
      /\ cand[w] = [id |-> cand[w].id, version |-> cand[w].version]
    BY <1>2 DEF Plans
<1>4. /\ pc \in [Writers -> Steps] /\ plan \in [Writers -> Plans \cup {NoPlan}]
      /\ DOMAIN stored \subseteq Ids
    BY DEF WorkInv, StoreInv, StoreTypeOK
<1>5. pc'[w] # "idle" => /\ step' = step /\ req' = req /\ view' = view /\ base' = base /\ cand' = cand
    BY <1>1 DEF AfterCommit
<1>6. CASE Begin(w, cand[w].id, cand[w].version)
    <2>1. StoreMove(w)
        BY <1>3, <1>6 DEF StoreMove, StoreNext
    <2>2. stored' = stored /\ seen' = seen
        BY <1>6 DEF Begin
    <2>3. CASE pc' = [pc EXCEPT ![w] = "put"]
               /\ plan' = [plan EXCEPT ![w] = [id |-> cand[w].id, version |-> cand[w].version]]
        <3>1. pc'[w] = "put" /\ plan'[w] = cand[w]
              /\ \A v \in Writers \ {w} : pc'[v] = pc[v] /\ plan'[v] = plan[v]
            BY <1>3, <1>4, <2>3
        <3>2. Shelves(w)
            BY <2>2 DEF Shelves
        <3> QED
            BY <1>1, <1>5, <2>1, <2>2, <3>1, <3>2, CommitGoesOn
    <2>4. CASE Return(w, "conflict") \/ Return(w, "error")
        <3>1. pc'[w] = "idle" /\ \A v \in Writers \ {w} : pc'[v] = pc[v] /\ plan'[v] = plan[v]
            BY <1>4, <2>4 DEF Return
        <3> QED
            BY <1>1, <2>1, <2>2, <3>1, CommitEnds
    <2> QED
        BY <1>6, <2>3, <2>4 DEF Begin
<1>7. CASE CommitStep(w)
    <2>1. pc[w] # "idle" /\ seen' = seen
        BY <1>7 DEF CommitStep, PutVersion, TruncateVersion, WriteVersion, MoveHead
    <2>2. plan[w] = cand[w]
        BY <1>2, <2>1 DEF Good, CallOf
    <2>3. StoreMove(w)
        BY <1>7 DEF StoreMove, StoreNext
    <2>4. ASSUME NEW answer, Return(w, answer), stored' = stored PROVE Outcome(w)
        <3>1. pc'[w] = "idle" /\ \A v \in Writers \ {w} : pc'[v] = pc[v] /\ plan'[v] = plan[v]
            BY <1>4, <2>4 DEF Return
        <3> QED
            BY <1>1, <2>1, <2>3, <2>4, <3>1, CommitEnds
    <2>5. ASSUME NEW s \in {"write", "move"}, Goto(w, s)
          PROVE  pc'[w] = s /\ plan' = plan /\ \A v \in Writers \ {w} : pc'[v] = pc[v]
        BY <1>4, <2>5 DEF Goto
    <2>6. CASE PutVersion(w)
        <3>1. CASE plan[w].id \notin DOMAIN stored
            <4>1. stored' = With(stored, cand[w].id, cand[w].version) /\ Goto(w, "move")
                BY <2>2, <2>6, <3>1 DEF PutVersion
            <4>2. stored'[cand[w].id] = cand[w].version
                BY <4>1 DEF With
            <4>3. Shelves(w)
                BY <2>1, <2>2, <4>1 DEF Shelves
            <4> QED
                BY <1>1, <1>3, <1>5, <2>1, <2>2, <2>3, <2>5, <3>1, <4>1, <4>2, <4>3, CommitGoesOn
        <3>2. CASE plan[w].id \in DOMAIN stored /\ SameContent(plan[w].id, plan[w].version)
            <4>1. CASE Return(w, "conflict") /\ stored' = stored
                BY <2>4, <4>1
            <4>2. CASE Goto(w, "move") /\ stored' = stored
                <5>1. ConditionalWrites /\ stored[cand[w].id] \in Versions
                    BY <2>2, <2>6, <3>2 DEF PutVersion, WorkInv, StoreInv, Conditional
                <5>2. stored[cand[w].id].content = cand[w].version.content
                    BY <2>2, <3>2 DEF SameContent
                <5>3. Shelves(w)
                    BY <4>2 DEF Shelves
                <5> QED
                    BY <1>1, <1>5, <2>1, <2>2, <2>3, <2>5, <4>2, <5>1, <5>2, <5>3, CommitGoesOn
            <4> QED
                BY <2>6, <3>2, <4>1, <4>2 DEF PutVersion
        <3>3. CASE plan[w].id \in DOMAIN stored /\ ~SameContent(plan[w].id, plan[w].version)
            BY <2>4, <2>6, <3>3 DEF PutVersion
        <3> QED
            BY <3>1, <3>2, <3>3
    <2>7. CASE TruncateVersion(w)
        <3>1. ~ConditionalWrites /\ stored' = With(stored, plan[w].id, Torn) /\ Goto(w, "write")
            BY <2>7 DEF TruncateVersion
        <3>2. Shelves(w)
            BY <2>1, <3>1 DEF Shelves
        <3> QED
            BY <1>1, <1>5, <2>1, <2>2, <2>3, <2>5, <3>1, <3>2, CommitGoesOn
    <2>8. CASE WriteVersion(w)
        <3>1. stored' = With(stored, cand[w].id, cand[w].version) /\ Goto(w, "move") /\ pc[w] = "write"
            BY <2>2, <2>8 DEF WriteVersion
        <3>2. ~ConditionalWrites
            BY <3>1 DEF WorkInv, StoreInv, Conditional
        <3>3. stored'[cand[w].id] = cand[w].version
            BY <3>1 DEF With
        <3>4. Shelves(w)
            BY <2>1, <2>2, <3>1 DEF Shelves
        <3> QED
            BY <1>1, <1>3, <1>5, <2>1, <2>2, <2>3, <2>5, <3>1, <3>2, <3>3, <3>4, CommitGoesOn
    <2>9. CASE MoveHead(w)
        BY <2>4, <2>9 DEF MoveHead
    <2> QED
        BY <1>7, <2>6, <2>7, <2>8, <2>9 DEF CommitStep
<1> QED
    BY <1>6, <1>7 DEF Commit

LEMMA LostReplyOutcome ==
    ASSUME Deployed, WorkInv, NEW w \in Writers, LoseReply(w) PROVE Outcome(w)
<1>1. /\ log' = log /\ step' = step /\ req' = req /\ view' = view /\ base' = base /\ cand' = cand
      /\ stored' = stored /\ seen' = seen /\ pc' = pc /\ plan' = plan /\ pc[w] = "move"
    BY DEF LoseReply, LoseResponse, handlerVars, callVars
<1>2. StoreMove(w) /\ Shelves(w)
    BY <1>1 DEF StoreMove, StoreNext, LoseReply, Shelves
<1>3. Good(w)
    BY DEF WorkInv
<1> QED
    BY <1>1, <1>2, <1>3, CommitGoesOn DEF Good, CallOf

LEMMA StepsHaveOutcome ==
    ASSUME Deployed, WorkInv, NEW w \in Writers,
           Request(w) \/ HandlerStep(w) \/ LoseReply(w) \/ Die(w)
    PROVE  Outcome(w) /\ NewLog
<1>0. HandlerTypes /\ Roles /\ StampInv
    BY DEF WorkInv, StampInv
<1>1. Effect(w)
    BY <1>0, StepsHaveEffect
<1>2. NewLog
    BY <1>0, <1>1, EffectsGrowLogs
<1>3. OnlyMoves(w)
    BY <1>1 DEF Effect, Asks, Stamped, Records, Floats, Goes
<1>4. CASE Request(w)
    BY <1>2, <1>3, <1>4, RequestOutcome
<1>5. CASE MintJob(w) \/ AppendEvent(w) \/ AppendRefused(w) \/ AppendUnheard(w) \/ Float(w)
    BY <1>2, <1>3, <1>5, RecordingOutcome
<1>6. CASE \/ ReadWorld(w) \/ ReadBase(w) \/ RereadHead(w) \/ ReadForReroute(w) \/ ReadPlacement(w)
    <2>1. log' = log
        BY <1>6 DEF ReadWorld, ReadBase, RereadHead, ReadForReroute, ReadPlacement
    <2> QED
        BY <1>2, <1>3, <1>6, <2>1, ReadingOutcome
<1>7. CASE Plan(w) \/ Choose(w) \/ Reroute(w)
    <2>1. log' = log
        BY <1>7 DEF Plan, Choose, Reroute
    <2> QED
        BY <1>2, <1>3, <1>7, <2>1, PlanningOutcome
<1>8. CASE Commit(w)
    BY <1>2, <1>8, CommitOutcome
<1>9. CASE LoseReply(w)
    BY <1>2, <1>9, LostReplyOutcome
<1>10. CASE Die(w)
    <2>1. Done(w) /\ IF pc[w] = "idle" THEN storeVars' = storeVars ELSE Crash(w)
        BY <1>10 DEF Die
    <2> QED
        BY <1>2, <2>1, DoneOutcome
<1> QED
    BY <1>2, <1>4, <1>5, <1>6, <1>7, <1>8, <1>9, <1>10 DEF HandlerStep

LEMMA StepKeepsWork ==
    ASSUME Deployed, WorkInv, [Next]_vars PROVE WorkInv' /\ [StoreNext]_storeVars
<1>1. StampInv'
    BY StepKeepsStamps DEF WorkInv
<1>2. CASE UNCHANGED vars
    <2>1. /\ log' = log /\ step' = step /\ req' = req /\ view' = view /\ base' = base /\ cand' = cand
          /\ storeVars' = storeVars
        BY <1>2 DEF vars, handlerVars
    <2>2. /\ stored' = stored /\ head' = head /\ seen' = seen
          /\ pc' = pc /\ plan' = plan
        BY <2>1 DEF storeVars
    <2>3. StoreInv'
        BY <2>1, StepPreserves DEF WorkInv
    <2>4. PlanTypes' /\ Shelf'
        BY <2>1, <2>2 DEF WorkInv, PlanTypes, Shelf
    <2>5. \A w \in Writers : Good(w)'
        BY <2>1, <2>2 DEF WorkInv, Good, RoleOf, BaseOf, PlanOf, CallOf, HasBase, HasPlan, NamesItsBase
    <2> QED
        BY <1>1, <2>1, <2>3, <2>4, <2>5 DEF WorkInv
<1>3. CASE Next
    <2>1. PICK w \in Writers : Request(w) \/ HandlerStep(w) \/ LoseReply(w) \/ Die(w)
        BY <1>3 DEF Next
    <2>2. Outcome(w) /\ NewLog
        BY <2>1, StepsHaveOutcome
    <2>3. [StoreNext]_storeVars
        BY <2>2 DEF Outcome, StoreMove
    <2>4. StoreInv'
        BY <2>3, StepPreserves DEF WorkInv
    <2> QED
        BY <1>1, <2>2, <2>3, <2>4, ResultKeeps DEF Outcome
<1> QED
    BY <1>2, <1>3

LEMMA InitWorks == ASSUME Deployed PROVE Init => WorkInv
<1> SUFFICES ASSUME Init PROVE WorkInv
    OBVIOUS
<1>1. StampInv /\ StoreInv
    BY InitStamps, InitEstablishes DEF Init
<1>2. DOMAIN stored = {} /\ log = <<>> /\ Len(log) = 0
    BY DEF Init, StoreInit
<1>3. IsFiniteSet(DOMAIN stored)
    BY <1>2, FS_EmptySet
<1>4. PlanTypes
    BY <1>2, <1>3 DEF Init, PlanTypes
<1>5. Shelf
    BY <1>2 DEF Shelf
<1>6. \A w \in Writers : step[w] = "idle" /\ pc[w] = "idle"
    BY DEF Init, StoreInit
<1>7. \A w \in Writers : Good(w)
    BY <1>6 DEF Good, RoleOf, BaseOf, PlanOf, CallOf, HasBase, HasPlan
<1> QED
    BY <1>1, <1>4, <1>5, <1>7 DEF WorkInv

LEMMA WorkInvariance == ASSUME Deployed PROVE Spec => []WorkInv
<1>1. Init => WorkInv
    BY InitWorks
<1>2. WorkInv /\ [Next]_vars => WorkInv'
    BY StepKeepsWork
<1> QED
    BY <1>1, <1>2, PTL DEF Spec

\* Whatever the handlers do, and wherever they stop, they use the store the
\* way its own specification allows: api/main.py and the CLI are callers of
\* the PlanStore protocol, so what is proved of the store holds under them.
THEOREM HandlersUseTheStore == ASSUME Deployed PROVE Spec => StoreSpec
<1>1. Init => StoreInit
    BY DEF Init
<1>2. WorkInv /\ [Next]_vars => [StoreNext]_storeVars
    BY StepKeepsWork
<1> QED
    BY <1>1, <1>2, WorkInvariance, PTL DEF Spec, StoreSpec
-----------------------------------------------------------------------------
(* Where no crew has set out yet, a job that was cancelled stays so.       *)

\* The same words over a set of events.
EventsOf(events, n) == {events[i] : i \in 1..n}
Turned(events, j) == {e \in events : e.job = j /\ e.kind \in {"booked", "started", "cancelled"}}
ActiveIn(events) ==
    {j \in {e.job : e \in {f \in events : f.kind = "booked"}} :
        Latest(Turned(events, j)).kind # "cancelled"}

\* A cancellation is younger than every booking of its job, also those that
\* are still on their way to the log.
Undisturbed ==
    /\ \A i \in DOMAIN log : log[i].kind # "started"
    /\ \A i \in DOMAIN log : log[i].kind = "cancelled" => log[i].job \in JobsOf(log)
    /\ \A w \in Writers : req[w].kind # "started"
    /\ \A w \in Writers : step[w] = "append" /\ req[w].kind = "cancel" => req[w].job \in JobsOf(log)
    /\ \A w \in Writers : step[w] = "append" /\ req[w].kind = "book" =>
         \A i \in DOMAIN log :
             log[i].kind = "cancelled" /\ log[i].job = req[w].job => req[w].at < log[i].at
    /\ \A v, w \in Writers :
         /\ step[w] = "append" /\ req[w].kind = "book"
         /\ step[v] = "append" /\ req[v].kind = "cancel" /\ req[v].job = req[w].job
         => req[w].at < req[v].at

LEMMA ActiveIsActiveIn ==
    ASSUME StampInv, NEW n \in 0..Now
    PROVE  Events(n) = EventsOf(log, n) /\ Active(n) = ActiveIn(EventsOf(log, n))
<1>1. Events(n) = EventsOf(log, n)
    BY DEF Events, EventsOf
<1>2. HandlerTypes /\ clock \in Nat
    BY DEF StampInv, HandlerTypes
<1>3. \A e \in Events(n) : e.at \in 1..clock
    <2>1. Events(n) \subseteq Events(Now) /\ DOMAIN log = 1..Now
        BY <1>2, EventsAreFinite, EventsAreEntries
    <2> QED
        BY <2>1 DEF StampInv, Stamps, Events
<1>4. \A j : About(n, j, {"booked", "started", "cancelled"}) = Turned(Events(n), j)
    BY DEF About, Turned
<1>5. ASSUME NEW j \in Jobs(n)
      PROVE  JobState(n, j) # "cancelled" <=> Latest(Turned(Events(n), j)).kind # "cancelled"
    <2>1. Turned(Events(n), j) # {}
        BY <1>5 DEF Jobs, Turned
    <2>2. \A e \in Turned(Events(n), j) : e.at \in 1..clock
        BY <1>3 DEF Turned
    <2>3. Latest(Turned(Events(n), j)) \in Turned(Events(n), j)
        BY <1>2, <2>1, <2>2, LatestIsLast
    <2>4. Latest(Turned(Events(n), j)).kind \in {"booked", "started", "cancelled"}
        BY <2>3 DEF Turned
    <2> QED
        BY <1>4, <1>5, <2>4 DEF JobState
<1> QED
    BY <1>1, <1>5 DEF Active, ActiveIn, Jobs

\* Nobody set out: active jobs are to be scheduled and none is locked.
LEMMA NobodySetOut ==
    ASSUME StampInv, Undisturbed, NEW n \in 0..Now
    PROVE  Schedulable(n) = Active(n) /\ Locked(n) = {}
<1>1. HandlerTypes /\ clock \in Nat
    BY DEF StampInv, HandlerTypes
<1>2. Events(n) \subseteq Events(Now) /\ DOMAIN log = 1..Now
    BY <1>1, EventsAreFinite, EventsAreEntries
<1>3. \A e \in Events(n) : e.at \in 1..clock /\ e.kind # "started"
    BY <1>2 DEF StampInv, Stamps, Events, Undisturbed
<1> DEFINE T(j) == About(n, j, {"booked", "started", "cancelled"})
<1>4. ASSUME NEW j \in Jobs(n) PROVE Latest(T(j)).kind \in {"booked", "cancelled"}
    <2>1. T(j) # {} /\ \A e \in T(j) : e \in Events(n) /\ e.kind \in {"booked", "started", "cancelled"}
        BY <1>4 DEF Jobs, About
    <2>2. \A e \in T(j) : e.at \in 1..clock
        BY <1>3, <2>1
    <2>3. Latest(T(j)) \in T(j)
        <3> HIDE DEF T
        <3> QED
            BY <1>1, <2>1, <2>2, LatestIsLast
    <2> QED
        BY <1>3, <2>1, <2>3
<1>5. \A j \in Jobs(n) : JobState(n, j) \in {"confirmed", "cancelled"}
    BY <1>4 DEF JobState
<1> QED
    BY <1>5 DEF Schedulable, Active, Locked

\* What was not active and is known does not come back.
LEMMA CancelledForGood ==
    ASSUME StampInv, Undisturbed, NEW w \in Writers, Effect(w), NEW j \in JobsOf(log),
           j \in ActiveIn(EventsOf(log', Len(log')))
    PROVE  j \in ActiveIn(EventsOf(log, Len(log)))
<1> DEFINE E == EventsOf(log, Len(log))
           E2 == EventsOf(log', Len(log'))
<1>1. HandlerTypes /\ clock \in Nat /\ DOMAIN log = 1..Len(log) /\ Len(log) \in Nat
    BY DEF StampInv, HandlerTypes
<1>2. j \in {e.job : e \in {f \in E : f.kind = "booked"}}
    BY <1>1 DEF JobsOf, EventsOf
<1>3. \A e \in E : e.at \in 1..clock
    BY <1>1 DEF EventsOf, StampInv, Stamps
<1>4. \A e, f \in E : e.kind # "offered" /\ f.kind # "offered" /\ e.at = f.at => e = f
    BY <1>1 DEF EventsOf, StampInv, Stamps
<1>5. CASE log' = log
    BY <1>5
<1>6. ASSUME NEW e, log' = Append(log, e) PROVE E2 = E \cup {e}
    <2>1. Len(log') = Len(log) + 1 /\ log'[Len(log) + 1] = e /\ \A i \in 1..Len(log) : log'[i] = log[i]
        BY <1>1, <1>6 DEF HandlerTypes
    <2>2. 1..Len(log) + 1 = 1..Len(log) \cup {Len(log) + 1}
        BY <1>1
    <2> QED
        BY <2>1, <2>2 DEF EventsOf
<1>7. ASSUME NEW e, e.at \in 1..clock, E2 = E \cup {e},
             e.job = j /\ e.kind = "booked" => \A c \in E : c.kind = "cancelled" /\ c.job = j => e.at < c.at,
             e.kind # "started",
             Latest(Turned(E, j)).kind = "cancelled"
      PROVE  FALSE
    <2> DEFINE T == Turned(E, j)
               T2 == Turned(E2, j)
    <2>1. T # {} /\ \A f \in T : f \in E /\ f.at \in 1..clock /\ f.kind # "offered"
        BY <1>2, <1>3 DEF Turned
    <2>2. T2 # {} /\ T \subseteq T2 /\ \A f \in T2 : f.at \in 1..clock
        BY <1>3, <1>7, <2>1 DEF Turned
    <2>3. \A f \in T2 : f \in T \/ (f = e /\ e.job = j /\ e.kind \in {"booked", "started", "cancelled"})
        BY <1>7 DEF Turned
    <2>4. PICK c : c = Latest(T)
        OBVIOUS
    <2>5. PICK l : l = Latest(T2)
        OBVIOUS
    <2> HIDE DEF T, T2
    <2>6. c \in T /\ \A f \in T : f.at <= c.at
        BY <1>1, <2>1, <2>4, LatestIsLast
    <2>7. l \in T2 /\ \A f \in T2 : f.at <= l.at
        BY <1>1, <2>2, <2>5, LatestIsLast
    <2>8. l.kind # "cancelled"
        BY <2>5 DEF ActiveIn, T2
    <2>9. c.kind = "cancelled" /\ c.job = j
        BY <1>7, <2>4, <2>6 DEF T, Turned
    <2>10. CASE l \in T
        <3>1. l.at = c.at
            BY <1>1, <2>1, <2>2, <2>6, <2>7, <2>10
        <3> QED
            BY <1>4, <2>1, <2>6, <2>8, <2>9, <2>10, <3>1
    <2>11. CASE l \notin T
        <3>1. l = e /\ e.job = j /\ e.kind = "booked"
            BY <1>7, <2>3, <2>7, <2>8, <2>11
        <3>2. e.at < c.at /\ c.at <= e.at
            BY <1>7, <2>1, <2>2, <2>6, <2>7, <2>9, <3>1
        <3> QED
            BY <1>1, <1>7, <2>1, <2>6, <3>2
    <2> QED
        BY <2>10, <2>11
<1>8. CASE Records(w)
    <2> DEFINE e == Event(w, EventKind(req[w].kind))
    <2>1. req[w].kind \in Appending /\ step[w] = "append" /\ req[w].kind # "started"
        BY <1>8 DEF Records, StampInv, Roles, Undisturbed
    <2>2. /\ e.at = req[w].at /\ e.job = req[w].job
          /\ e.kind = EventKind(req[w].kind)
          /\ e.kind = "booked" <=> req[w].kind = "book"
          /\ e.kind # "started"
        BY <1>1, <2>1, EventKinds, EventIsAnEntry
    <2>3. e.at \in 1..clock
        BY <2>1, <2>2 DEF StampInv, Pending
    <2>4. e.kind = "booked" => \A c \in E : c.kind = "cancelled" /\ c.job = e.job => e.at < c.at
        BY <1>1, <2>1, <2>2 DEF Undisturbed, EventsOf
    <2>5. log' = Append(log, e)
        BY <1>8 DEF Records
    <2> HIDE DEF e
    <2>6. E2 = E \cup {e}
        BY <1>6, <2>5
    <2> HIDE DEF E, E2
    <2>7. Latest(Turned(E, j)).kind # "cancelled"
        BY <1>7, <2>2, <2>3, <2>4, <2>6
    <2> QED
        BY <1>2, <2>7 DEF ActiveIn, E
<1>9. CASE Floats(w)
    <2> DEFINE e == [Event(w, "offered") EXCEPT !.at = req[w].at]
    <2>1. log' = Append(log, e) /\ req[w].kind = "book" /\ step[w] \in Booking
        BY <1>9 DEF Floats, StampInv, Roles, Booking
    <2>2. e.at = req[w].at /\ e.kind = "offered"
        BY DEF Event
    <2>3. e.at \in 1..clock
        <3>1. IsBooked(log, req[w].job, req[w].at)
            BY <2>1 DEF StampInv, Offers
        <3> QED
            BY <2>2, <3>1 DEF IsBooked, StampInv, Stamps
    <2> HIDE DEF e
    <2>4. E2 = E \cup {e}
        BY <1>6, <2>1
    <2> HIDE DEF E, E2
    <2>5. Latest(Turned(E, j)).kind # "cancelled"
        BY <1>7, <2>2, <2>3, <2>4
    <2> QED
        BY <1>2, <2>5 DEF ActiveIn, E
<1> QED
    BY <1>5, <1>8, <1>9 DEF Effect, Asks, Stamped, Goes
\* What a request asks for is one of the kinds that run, and a cancellation is
\* of a job that is there.
LEMMA WhatIsAsked ==
    ASSUME HandlerTypes, NEW w \in Writers, Request(w)
    PROVE  /\ req'[w].kind \in Kinds
           /\ req'[w].kind = "cancel" => req'[w].job \in Jobs(Now)
           /\ req'[w].kind = "book" => step'[w] = "mint"
<1>1. req \in [Writers -> Requests] /\ step \in [Writers -> Stages]
    BY DEF HandlerTypes
<1>2. ASSUME NEW kind, NEW j, NEW who, NEW s, Ask(w, kind, j, who, s)
      PROVE  req'[w].kind = kind /\ kind \in Kinds /\ req'[w].job = j /\ step'[w] = s
    BY <1>1, <1>2 DEF Ask, GoTo, NoReq
<1>3. ASSUME NEW kind, NEW j, NEW who, AskStamped(w, kind, j, who)
      PROVE  req'[w].kind = kind /\ kind \in Kinds /\ req'[w].job = j
    BY <1>1, <1>3 DEF AskStamped, NoReq
<1>4. CASE Cancel(w)
    BY <1>3, <1>4 DEF Cancel, Active
<1>5. CASE Book(w) \/ CommitPlan(w) \/ SetCrew(w) \/ Repair(w) \/ CommitFromCLI(w)
    BY <1>2, <1>5 DEF Book, CommitPlan, SetCrew, Repair, CommitFromCLI
<1>6. CASE Claim(w) \/ Record(w) \/ Outage(w)
    BY <1>3, <1>6 DEF Claim, Record, Outage
<1> QED
    BY <1>4, <1>5, <1>6 DEF Request

LEMMA JobsAreJobsOf == ASSUME HandlerTypes PROVE Jobs(Now) = JobsOf(log)
<1>1. DOMAIN log = 1..Now
    BY EventsAreEntries
<1> QED
    BY <1>1 DEF Jobs, JobsOf, Events

LEMMA StepKeepsUndisturbed ==
    ASSUME "started" \notin Kinds, StampInv, Undisturbed, NEW w \in Writers,
           Request(w) \/ HandlerStep(w) \/ LoseReply(w) \/ Die(w)
    PROVE  Undisturbed'
<1>1. HandlerTypes /\ Roles /\ clock \in Nat
    BY DEF StampInv, HandlerTypes
<1>2. CASE Request(w) \/ MintJob(w)
    <2>1. Asks(w) \/ Stamped(w)
        <3>1. CASE Request(w)
            <4>1. Effect(w)
                BY <1>1, <3>1, RequestsHaveEffect
            <4>2. step[w] = "idle" /\ req'[w].kind \in Kinds
                <5>1. step[w] = "idle"
                    BY <3>1 DEF Request, Book, Cancel, Claim, CommitPlan, SetCrew, Repair,
                        CommitFromCLI, Record, Outage, Ask, AskStamped
                <5> QED
                    BY <1>1, <3>1, <5>1, WhatIsAsked
            <4>3. "none" \notin Kinds
                BY DispatchConstants DEF AllKinds
            <4>4. step'[w] # "idle"
                BY <1>1, <3>1 DEF Request, Book, Cancel, Claim, CommitPlan, SetCrew, Repair,
                        CommitFromCLI, Record, Outage, Ask, AskStamped, GoTo, HandlerTypes
            <4> QED
                BY <4>1, <4>2, <4>4 DEF Effect, Records, Floats, Goes, Working, Booking
        <3>2. CASE MintJob(w)
            BY <1>1, <3>2, MintStamps
        <3> QED
            BY <1>2, <3>1, <3>2
    <2>2. /\ log' = log /\ OnlyMoves(w)
          /\ step'[w] = "append" => Stamped(w)
        BY <2>1 DEF Asks, Stamped
    <2>3. /\ req'[w].kind # "started"
          /\ req'[w].kind = "cancel" => req'[w].job \in JobsOf(log)
          /\ step'[w] = "append" /\ req'[w].kind = "book" => req'[w].job \notin JobsOf(log)
        <3>1. CASE Request(w)
            <4>1. step'[w] = "append" => req'[w].kind # "book"
                BY <1>1, <3>1, WhatIsAsked
            <4> QED
                BY <1>1, <3>1, <4>1, WhatIsAsked, JobsAreJobsOf
        <3>2. CASE MintJob(w)
            <4>1. req[w].kind = "book" /\ req[w] \in Requests
                BY <1>1, <3>2 DEF MintJob, Roles, HandlerTypes
            <4>2. req'[w] = [req[w] EXCEPT !.job = HighestJob + 1, !.at = clock']
                BY <1>1, <3>2 DEF MintJob, HandlerTypes
            <4>3. req'[w].kind = "book" /\ req'[w].job = HighestJob + 1
                BY <4>1, <4>2 DEF Requests
            <4>4. HighestJob + 1 \in Nat /\ \A j \in Jobs(Now) : j < HighestJob + 1
                BY <1>1, NextJobIsNew
            <4>5. HighestJob + 1 \notin Jobs(Now)
                BY <4>4
            <4> QED
                BY <1>1, <4>3, <4>5, JobsAreJobsOf
        <3> QED
            BY <1>2, <3>1, <3>2
    <2>4. \A v \in Writers \ {w} : step'[v] = step[v] /\ req'[v] = req[v]
        BY <2>2 DEF OnlyMoves
    <2>5. \A v \in Writers : req'[v].kind # "started"
        BY <2>3, <2>4 DEF Undisturbed
    <2>6. \A v \in Writers : step'[v] = "append" /\ req'[v].kind = "cancel" => req'[v].job \in JobsOf(log)
        BY <2>3, <2>4 DEF Undisturbed
    <2>7. ASSUME NEW v \in Writers, step'[v] = "append", req'[v].kind = "book",
                 NEW i \in DOMAIN log, log[i].kind = "cancelled", log[i].job = req'[v].job
          PROVE  req'[v].at < log[i].at
        <3>1. CASE v = w
            BY <2>3, <2>7, <3>1 DEF Undisturbed
        <3>2. CASE v # w
            BY <2>4, <2>7, <3>2 DEF Undisturbed
        <3> QED
            BY <3>1, <3>2
    <2>8. ASSUME NEW u \in Writers, NEW v \in Writers, step'[v] = "append", req'[v].kind = "book",
                 step'[u] = "append", req'[u].kind = "cancel", req'[u].job = req'[v].job
          PROVE  req'[v].at < req'[u].at
        <3>1. CASE v = w
            BY <2>3, <2>6, <2>8, <3>1
        <3>2. CASE v # w /\ u = w
            <4>1. req'[u].at = clock + 1
                BY <2>2, <2>8, <3>2 DEF Stamped
            <4>2. req'[v].at \in 1..clock
                BY <2>4, <2>8, <3>2 DEF StampInv, Pending
            <4> QED
                BY <1>1, <4>1, <4>2
        <3>3. CASE v # w /\ u # w
            BY <2>4, <2>8, <3>3 DEF Undisturbed
        <3> QED
            BY <3>1, <3>2, <3>3
    <2>9. \A i \in DOMAIN log : log[i].kind # "started" /\ (log[i].kind = "cancelled" => log[i].job \in JobsOf(log))
        BY DEF Undisturbed
    <2> QED
        BY <2>2, <2>5, <2>6, <2>7, <2>8, <2>9 DEF Undisturbed
<1>3. CASE (HandlerStep(w) /\ ~MintJob(w)) \/ LoseReply(w) \/ Die(w)
    <2>1. Records(w) \/ Floats(w) \/ Goes(w)
        BY <1>1, <1>3, WorkHasEffect
    <2>2. OnlyMoves(w) /\ (req'[w] = NoReq \/ req'[w].kind = req[w].kind)
          /\ (step'[w] = "append" => step[w] = "append" /\ req'[w] = req[w])
        BY <2>1 DEF Records, Floats, Goes, Working, Booking
    <2>3. \A v \in Writers : req'[v].kind # "started"
        BY <2>2 DEF OnlyMoves, NoReq, Undisturbed
    <2>4. \A v \in Writers : step'[v] = "append" => step[v] = "append" /\ req'[v] = req[v]
        BY <2>2 DEF OnlyMoves
    <2>5. NewLog
        BY <2>1, EffectsGrowLogs DEF Effect
    <2>6. JobsOf(log) \subseteq JobsOf(log')
        BY <1>1, <2>5, LogGrowing
    <2>7. \A v \in Writers : step'[v] = "append" /\ req'[v].kind = "cancel" => req'[v].job \in JobsOf(log')
        BY <2>4, <2>6 DEF Undisturbed
    <2>8. \A u, v \in Writers :
             /\ step'[v] = "append" /\ req'[v].kind = "book"
             /\ step'[u] = "append" /\ req'[u].kind = "cancel" /\ req'[u].job = req'[v].job
             => req'[v].at < req'[u].at
        BY <2>4 DEF Undisturbed
    <2>9. ASSUME NEW i \in DOMAIN log'
          PROVE  /\ log'[i].kind # "started"
                 /\ log'[i].kind = "cancelled" => log'[i].job \in JobsOf(log')
                 /\ \A v \in Writers : step'[v] = "append" /\ req'[v].kind = "book"
                      /\ log'[i].kind = "cancelled" /\ log'[i].job = req'[v].job => req'[v].at < log'[i].at
        <3>1. CASE i \in DOMAIN log /\ log'[i] = log[i]
            BY <2>4, <2>6, <3>1 DEF Undisturbed
        <3>2. CASE Records(w) /\ i \notin DOMAIN log
            <4> DEFINE e == Event(w, EventKind(req[w].kind))
            <4>1. req[w].kind \in Appending /\ step[w] = "append" /\ req[w].kind # "started"
                BY <3>2 DEF Records, StampInv, Roles, Undisturbed
            <4>2. /\ e.at = req[w].at /\ e.job = req[w].job /\ e \in Entries
                  /\ e.kind = "cancelled" <=> req[w].kind = "cancel"
                  /\ e.kind # "started"
                BY <1>1, <4>1, EventKinds, EventIsAnEntry
            <4>3. log' = Append(log, e)
                BY <3>2 DEF Records
            <4> HIDE DEF e
            <4>4. log'[i] = e
                BY <1>1, <3>2, <4>2, <4>3, Appended
            <4>5. e.kind = "cancelled" => e.job \in JobsOf(log')
                BY <2>6, <4>1, <4>2 DEF Undisturbed
            <4>6. ASSUME NEW v \in Writers, step'[v] = "append", req'[v].kind = "book",
                         e.kind = "cancelled", e.job = req'[v].job
                  PROVE  req'[v].at < e.at
                BY <2>4, <4>1, <4>2, <4>6 DEF Undisturbed
            <4> QED
                BY <4>2, <4>4, <4>5, <4>6
        <3>3. CASE Floats(w) /\ i \notin DOMAIN log
            <4> DEFINE e == [Event(w, "offered") EXCEPT !.at = req[w].at]
            <4>1. req[w] \in Requests
                BY <1>1 DEF HandlerTypes
            <4>2. e \in Entries /\ e.kind = "offered"
                BY <4>1 DEF Event, Entries, Requests, Recorded
            <4>3. log' = Append(log, e)
                BY <3>3 DEF Floats
            <4> HIDE DEF e
            <4>4. log'[i] = e
                BY <1>1, <3>3, <4>2, <4>3, Appended
            <4> QED
                BY <4>2, <4>4
        <3>4. CASE Goes(w)
            BY <3>1, <3>4 DEF Goes
        <3>5. i \in DOMAIN log => log'[i] = log[i]
            <4>1. ASSUME NEW e \in Entries, log' = Append(log, e), i \in DOMAIN log PROVE log'[i] = log[i]
                BY <1>1, <4>1, Appended
            <4> QED
                BY <2>5, <4>1 DEF NewLog
        <3> QED
            BY <2>1, <3>1, <3>2, <3>3, <3>4, <3>5
    <2> QED
        BY <2>3, <2>7, <2>8, <2>9 DEF Undisturbed
<1> QED
    BY <1>2, <1>3
-----------------------------------------------------------------------------
(* Repairs and quiet reroutes on the store in S3.                          *)

Wanted == ActiveIn(EventsOf(log, Len(log)))

\* What a repair is about to choose from knows every job of its base that is
\* still wanted, and what it is about to commit answers for each of them; it
\* serves the ones that were served, unless a dispatcher forces it.
Held(w) ==
    /\ step[w] = "choose" =>
         Mentions(stored[base[w]].content) \cap Wanted \subseteq ActiveIn(EventsOf(log, view[w]))
    /\ step[w] = "commit" /\ req[w].kind \in {"repair", "outage"} =>
         /\ Mentions(stored[base[w]].content) \cap Wanted \subseteq Mentions(cand[w].version.content)
         /\ ~req[w].force =>
              DOMAIN stored[base[w]].content.minutes \cap Wanted
                  \subseteq DOMAIN cand[w].version.content.minutes

RepairInv == WorkInv /\ Undisturbed /\ \A w \in Writers : Held(w)

Quiet == Deployed /\ ConditionalWrites /\ "started" \notin Kinds

\* Where nobody has set out, a plan answers for every active job, no less.
LEMMA PlansAnswerForActive ==
    ASSUME StampInv, Undisturbed, NEW n \in 0..Now, NEW id,
           id # None => stored[id].content \in Contents,
           NEW content \in Solutions(id, n, Carried(id, n))
    PROVE  Mentions(content) = ActiveIn(EventsOf(log, n))
<1>1. HandlerTypes
    BY DEF StampInv
<1>2. \E carried \in Carried(id, n) : \E new \in SUBSET (Schedulable(n) \ carried) :
        /\ DOMAIN content.minutes = carried \cup new
        /\ content.left = (Schedulable(n) \ carried) \ new
        /\ \A j \in new : content.minutes[j] = Minutes(n, j)
    BY <1>1, CarvesArePlaced, PlansAreMade, SMTT(30)
<1>3. Carried(id, n) = {{}}
    BY NobodySetOut DEF Carried
<1>4. PICK new \in SUBSET (Schedulable(n) \ {}) :
        DOMAIN content.minutes = {} \cup new /\ content.left = (Schedulable(n) \ {}) \ new
    BY <1>2, <1>3
<1>5. Mentions(content) = Schedulable(n)
    BY <1>4 DEF Mentions
<1> QED
    BY <1>5, NobodySetOut, ActiveIsActiveIn

\* What is held stays held while others work.
LEMMA StillHeld ==
    ASSUME Quiet, RepairInv, NEW w \in Writers, NewLog, Effect(w), Grows(w),
           NEW v \in Writers, Held(v),
           step'[v] = step[v], req'[v] = req[v], base'[v] = base[v], view'[v] = view[v], cand'[v] = cand[v]
    PROVE  Held(v)'
<1>1. CASE ~(step[v] = "choose" \/ (step[v] = "commit" /\ req[v].kind \in {"repair", "outage"}))
    BY <1>1 DEF Held
<1>2. CASE step[v] = "choose" \/ (step[v] = "commit" /\ req[v].kind \in {"repair", "outage"})
    <2>1. HasBase(v) /\ base[v] # None
        BY <1>2 DEF HasBase, RepairInv, WorkInv, Good, BaseOf, RoleOf
    <2>2. /\ base[v] \in DOMAIN stored /\ Mentions(stored[base[v]].content) \subseteq JobsOf(log)
          /\ view[v] \in 0..Now
        BY <2>1, ContentsOfBase DEF RepairInv, Quiet
    <2>3. stored'[base[v]] = stored[base[v]]
        BY <2>2 DEF Grows, Quiet
    <2>4. Mentions(stored[base[v]].content) \cap Wanted' \subseteq Wanted
        <3>1. \A j \in JobsOf(log) : j \in ActiveIn(EventsOf(log', Len(log'))) => j \in Wanted
            BY CancelledForGood DEF RepairInv, WorkInv, Wanted
        <3> QED
            BY <2>2, <3>1 DEF Wanted
    <2>5. EventsOf(log', view[v]) = EventsOf(log, view[v])
        <3>1. HandlerTypes /\ DOMAIN log = 1..Now /\ Now \in Nat
            BY EventsAreEntries DEF RepairInv, WorkInv, StampInv
        <3>2. \A i \in DOMAIN log : log'[i] = log[i]
            BY <3>1, Appended DEF NewLog
        <3>3. \A i \in 1..view[v] : log'[i] = log[i]
            BY <2>2, <3>1, <3>2
        <3> QED
            BY <3>3 DEF EventsOf
    <2>6. DOMAIN stored[base[v]].content.minutes \subseteq Mentions(stored[base[v]].content)
        BY DEF Mentions
    <2> QED
        BY <2>3, <2>4, <2>5, <2>6 DEF Held
<1> QED
    BY <1>1, <1>2

\* The steps by which something comes to be held.
LEMMA NewlyHeld ==
    ASSUME Quiet, RepairInv, NEW w \in Writers, ReadWorld(w) \/ Choose(w) \/ Reroute(w)
    PROVE  Held(w)'
<1>1. /\ step \in [Writers -> Stages] /\ req \in [Writers -> Requests] /\ StampInv /\ HandlerTypes
      /\ base \in [Writers -> Ids \cup {None}] /\ view \in [Writers -> Nat]
      /\ cand \in [Writers -> Plans \cup {NoPlan}] /\ Good(w) /\ Held(w) /\ WorkInv
      /\ Now = Len(log) /\ Now \in 0..Now
    BY EventsAreEntries DEF RepairInv, WorkInv, StampInv, HandlerTypes, PlanTypes, Now
<1>2. CASE ReadWorld(w)
    <2>1. log' = log /\ view'[w] = Len(log) /\ step'[w] # "commit" /\ stored' = stored
        BY <1>1, <1>2 DEF ReadWorld, GoTo, storeVars
    <2> QED
        BY <2>1 DEF Held, Wanted
<1>3. CASE (Choose(w) \/ Reroute(w)) /\ step'[w] # "commit"
    <2>1. Done(w)
        BY <1>1, <1>3 DEF Choose, Reroute, GoTo
    <2>2. step'[w] = "idle"
        BY <1>1, <2>1 DEF Done, GoTo
    <2> QED
        BY <2>2 DEF Held
<1>4. CASE (Choose(w) \/ Reroute(w)) /\ step'[w] = "commit"
    <2>1. ~Done(w) /\ HasBase(w) /\ base[w] # None
        BY <1>1, <1>4 DEF Choose, Reroute, Done, GoTo, HasBase, Good, BaseOf, RoleOf
    <2>2. stored[base[w]].content \in Contents /\ view[w] \in 0..Now
        BY <1>1, <2>1, ContentsOfBase DEF Quiet
    <2>3. stored' = stored /\ log' = log /\ base' = base
        BY <1>4, <2>1 DEF Choose, Reroute, storeVars
    <2>4. Wanted' = Wanted
        BY <2>3 DEF Wanted
    <2>5. \A n \in 0..Now : \A content \in Solutions(base[w], n, Carried(base[w], n)) :
              Mentions(content) = ActiveIn(EventsOf(log, n))
        BY <1>1, <2>2, PlansAnswerForActive DEF RepairInv
    <2>6. Placed(base[w]) = DOMAIN stored[base[w]].content.minutes
        BY <2>1 DEF Placed
    <2>7. CASE Choose(w)
        <3>1. PICK content \in Solutions(base[w], view[w], Carried(base[w], view[w])) :
                \E strategy \in Strategies :
                  /\ cand' = [cand EXCEPT ![w] = Candidate(w, strategy, content)]
                  /\ req' = [req EXCEPT ![w].force = NeedsForce(w, content)]
            BY <2>1, <2>7 DEF Choose
        <3>2. cand'[w].version.content = content
            BY <1>1, <3>1 DEF Candidate
        <3>3. req'[w].force = NeedsForce(w, content)
            BY <1>1, <3>1 DEF Requests
        <3>4. Mentions(content) = ActiveIn(EventsOf(log, view[w]))
            BY <2>2, <2>5
        <3>5. Mentions(stored[base[w]].content) \cap Wanted \subseteq ActiveIn(EventsOf(log, view[w]))
            BY <1>1, <2>7 DEF Choose, Held
        <3>6. Mentions(stored[base[w]].content) \cap Wanted \subseteq Mentions(content)
            BY <3>4, <3>5
        <3>7. ASSUME ~NeedsForce(w, content), NEW j \in Placed(base[w]), j \in Wanted
              PROVE  j \in DOMAIN content.minutes
            <4>1. j \in Mentions(stored[base[w]].content)
                BY <2>6, <3>7 DEF Mentions
            <4>2. j \in ActiveIn(EventsOf(log, view[w]))
                BY <3>5, <3>7, <4>1
            <4>3. j \in Active(view[w])
                BY <1>1, <2>2, <4>2, ActiveIsActiveIn
            <4>4. Drops(w, content, view[w]) = {}
                BY <3>7 DEF NeedsForce
            <4> QED
                BY <3>7, <4>3, <4>4 DEF Drops
        <3>8. ~NeedsForce(w, content) =>
                DOMAIN stored[base[w]].content.minutes \cap Wanted \subseteq DOMAIN content.minutes
            BY <2>6, <3>7
        <3> QED
            BY <1>4, <2>3, <2>4, <3>2, <3>3, <3>6, <3>8 DEF Held
    <2>8. CASE Reroute(w)
        <3>1. PICK content \in Solutions(base[w], Now, Carried(base[w], Now)) :
                \E strategy \in Strategies :
                  /\ KeepsServing(w, content)
                  /\ cand' = [cand EXCEPT ![w] = Candidate(w, strategy, content)]
            BY <2>1, <2>8 DEF Reroute
        <3>2. cand'[w].version.content = content
            BY <1>1, <3>1 DEF Candidate
        <3>3. Mentions(content) = Wanted
            BY <1>1, <2>5 DEF Wanted
        <3>4. DOMAIN stored[base[w]].content.minutes \subseteq DOMAIN content.minutes
            BY <2>6, <3>1 DEF KeepsServing
        <3> QED
            BY <1>4, <2>3, <2>4, <3>2, <3>3, <3>4 DEF Held
    <2> QED
        BY <1>4, <2>7, <2>8
<1> QED
    BY <1>2, <1>3, <1>4

LEMMA StepKeepsHeld ==
    ASSUME Quiet, RepairInv, NEW w \in Writers,
           Request(w) \/ HandlerStep(w) \/ LoseReply(w) \/ Die(w)
    PROVE  \A v \in Writers : Held(v)'
<1>1. /\ Deployed /\ WorkInv /\ StampInv /\ HandlerTypes /\ Roles
      /\ step \in [Writers -> Stages] /\ req \in [Writers -> Requests]
      /\ \A v \in Writers : Held(v)
      /\ Good(w)
    BY DEF Quiet, RepairInv, WorkInv, StampInv, HandlerTypes
<1>2. Effect(w) /\ Outcome(w) /\ NewLog
    BY <1>1, StepsHaveEffect, StepsHaveOutcome
<1>3. Elsewhere(w) /\ Grows(w)
    BY <1>1, <1>2, ShelfIsKept DEF Outcome, Result
<1>4. \A v \in Writers \ {w} : Held(v)'
    BY <1>1, <1>2, <1>3, StillHeld DEF Elsewhere
<1> SUFFICES Held(w)'
    BY <1>4
<1>5. CASE step'[w] = step[w] /\ req'[w] = req[w] /\ base'[w] = base[w] /\ view'[w] = view[w]
           /\ cand'[w] = cand[w]
    BY <1>1, <1>2, <1>3, <1>5, StillHeld
<1>6. CASE ReadWorld(w) \/ Choose(w) \/ Reroute(w)
    BY <1>6, NewlyHeld
<1>7. CASE step'[w] \notin {"choose", "commit"}
    BY <1>7 DEF Held
<1>8. CASE step'[w] = "commit" /\ req'[w].kind \notin {"repair", "outage"}
    BY <1>8 DEF Held
<1>9. CASE Request(w)
    <2>1. step'[w] \in {"mint", "append", "base", "world"}
        BY <1>1, <1>9 DEF Request, Book, Cancel, Claim, CommitPlan, SetCrew, Repair,
            CommitFromCLI, Record, Outage, Ask, AskStamped, GoTo
    <2> QED
        BY <1>7, <2>1
<1>10. CASE Done(w)
    BY <1>1, <1>7, <1>10 DEF Done, GoTo
<1>11. CASE MintJob(w) \/ AppendEvent(w) \/ AppendRefused(w) \/ AppendUnheard(w) \/ Float(w) \/ Die(w)
    <2>1. step'[w] \in {"append", "world", "quiet", "idle"}
        BY <1>1, <1>11 DEF MintJob, AppendEvent, AppendRefused, AppendUnheard, Float, Die, Done, GoTo, AfterAppend
    <2> QED
        BY <1>7, <2>1
<1>12. CASE ReadBase(w) \/ ReadForReroute(w) \/ ReadPlacement(w)
    <2>1. step'[w] \in {"world", "reroute", "mintplan", "base", "float", "idle"}
        BY <1>1, <1>12 DEF ReadBase, ReadForReroute, ReadPlacement, Done, GoTo
    <2> QED
        BY <1>7, <2>1
<1>13. CASE (Plan(w) \/ RereadHead(w)) /\ ~Done(w)
    <2>1. req'[w] = req[w] /\ step[w] \in {"mintplan", "head"}
        BY <1>13 DEF Plan, RereadHead
    <2>2. req'[w].kind \notin {"repair", "outage"}
        BY <1>1, <2>1 DEF Good, RoleOf, NamesItsBase
    <2>3. step'[w] \in {"head", "commit"}
        BY <1>1, <1>13 DEF Plan, RereadHead, GoTo
    <2> QED
        BY <1>7, <1>8, <2>2, <2>3
<1>14. CASE Commit(w) /\ ~Done(w)
    <2>1. AfterCommit(w)
        BY <1>14 DEF Commit
    <2>2. CASE pc'[w] # "idle"
        BY <1>5, <2>1, <2>2 DEF AfterCommit
    <2>3. CASE pc'[w] = "idle"
        BY <1>1, <1>7, <1>14, <2>1, <2>3 DEF AfterCommit, GoTo
    <2> QED
        BY <2>2, <2>3
<1>15. CASE LoseReply(w)
    BY <1>5, <1>15 DEF LoseReply, handlerVars
<1> QED
    BY <1>6, <1>9, <1>10, <1>11, <1>12, <1>13, <1>14, <1>15 DEF HandlerStep

LEMMA RepairInvariance == ASSUME Quiet PROVE Spec => []RepairInv
<1>1. Init => RepairInv
    <2> SUFFICES ASSUME Init PROVE RepairInv
        OBVIOUS
    <2>1. WorkInv
        BY InitWorks DEF Quiet
    <2>2. log = <<>> /\ \A w \in Writers : step[w] = "idle" /\ req[w].kind = "none"
        BY DEF Init, NoReq
    <2> QED
        BY <2>1, <2>2 DEF RepairInv, Undisturbed, Held
<1>2. RepairInv /\ [Next]_vars => RepairInv'
    <2> SUFFICES ASSUME RepairInv, [Next]_vars PROVE RepairInv'
        OBVIOUS
    <2>1. WorkInv'
        BY StepKeepsWork DEF RepairInv, Quiet
    <2>2. CASE Next
        <3>1. PICK w \in Writers : Request(w) \/ HandlerStep(w) \/ LoseReply(w) \/ Die(w)
            BY <2>2 DEF Next
        <3>2. Undisturbed'
            BY <3>1, StepKeepsUndisturbed DEF RepairInv, Quiet, WorkInv
        <3> QED
            BY <2>1, <3>1, <3>2, StepKeepsHeld DEF RepairInv
    <2>3. CASE UNCHANGED vars
        <3>1. /\ log' = log /\ step' = step /\ req' = req /\ base' = base /\ view' = view
              /\ cand' = cand /\ stored' = stored
            BY <2>3 DEF vars, handlerVars, storeVars
        <3>2. Undisturbed'
            BY <3>1 DEF RepairInv, Undisturbed
        <3>3. \A w \in Writers : Held(w)'
            BY <3>1 DEF RepairInv, Held, Wanted
        <3> QED
            BY <2>1, <3>2, <3>3 DEF RepairInv
    <2> QED
        BY <2>2, <2>3
<1> QED
    BY <1>1, <1>2, PTL DEF Spec

\* The head moves at the end of a commit, onto what was committed.
LEMMA MovesAreMine ==
    ASSUME Deployed, WorkInv, [Next]_vars, NEW w \in Writers, head' # head,
           step[w] = "commit", step'[w] # "commit"
    PROVE  /\ pc[w] = "move" /\ HeadMayMove(w) /\ head' = plan[w].id
           /\ stored' = stored /\ log' = log
<1>1. Next
    BY DEF vars, storeVars
<1>2. PICK u \in Writers : Request(u) \/ HandlerStep(u) \/ LoseReply(u) \/ Die(u)
    BY <1>1 DEF Next
<1>3. Elsewhere(u)
    BY <1>2, StepsHaveOutcome DEF Outcome, Result
<1>4. u = w
    BY <1>3 DEF Elsewhere
<1>5. Commit(w)
    <2>1. ~LoseReply(w)
        BY DEF LoseReply, handlerVars
    <2>2. ~Die(w)
        BY DEF Die, Crash, storeVars
    <2>3. ~Request(w)
        BY DEF Request, Book, Cancel, Claim, CommitPlan, SetCrew, Repair, CommitFromCLI, Record,
            Outage, Ask, AskStamped
    <2> QED
        BY <1>2, <1>4, <2>1, <2>2, <2>3 DEF HandlerStep, MintJob, AppendEvent, AppendRefused,
            AppendUnheard, ReadWorld, ReadBase, Plan, RereadHead, Choose, ReadForReroute, Reroute, ReadPlacement, Float
<1>6. MoveHead(w)
    BY <1>5 DEF Commit, Begin, CommitStep, PutVersion, TruncateVersion, WriteVersion
<1> QED
    BY <1>5, <1>6 DEF MoveHead, Commit

InS3 == Deployed /\ ConditionalWrites

\* What a commit that names its base leaves behind is that base.
LEMMA RepairsMoveFromTheirBase ==
    ASSUME InS3, WorkInv, [Next]_vars, NEW w \in Writers, Moves(w, {"repair", "outage"})
    PROVE  /\ head = base[w] /\ base[w] # None /\ base[w] \in Ids /\ log' = log /\ HasPlan(w)
           /\ head' # None /\ head' = cand[w].id /\ head' \in DOMAIN stored /\ stored' = stored
           /\ stored'[head'].content = cand[w].version.content
<1>1. /\ WorkInv /\ Good(w) /\ step[w] = "commit" /\ HasBase(w) /\ Deployed /\ HasPlan(w)
      /\ req[w].kind \in {"repair", "outage"} /\ NamesItsBase(req[w].kind) /\ ConditionalWrites
    BY DEF InS3, WorkInv, Moves, HasBase, HasPlan, NamesItsBase
<1>2. /\ pc[w] = "move" /\ HeadMayMove(w) /\ head' = plan[w].id
      /\ stored' = stored /\ log' = log
    BY <1>1, MovesAreMine DEF Moves
<1>3. head = etag[w] /\ etag[w] = seen[w]
    BY <1>1, <1>2 DEF HeadMayMove, WorkInv, StoreInv, Conditional
<1>4. seen[w] = base[w] /\ base[w] # None /\ base[w] \in Ids
    BY <1>1 DEF Good, BaseOf, WorkInv, PlanTypes
<1>5. plan[w] = cand[w] /\ stored[plan[w].id].content = plan[w].version.content
    BY <1>1, <1>2 DEF Good, CallOf
<1>6. cand[w].id \in Ids /\ cand[w].id # None
    BY <1>1, StoreConstants DEF Good, PlanOf, Plans
<1>7. plan[w].id \in DOMAIN stored
    BY <1>2 DEF WorkInv, StoreInv, Underway
<1> QED
    BY <1>1, <1>2, <1>3, <1>4, <1>5, <1>6, <1>7

LEMMA OwedIsWanted ==
    ASSUME RepairInv, head # None
    PROVE  /\ Owed(head) \subseteq Mentions(stored[head].content) \cap Wanted
           /\ Placed(head) = DOMAIN stored[head].content.minutes
           /\ Active(Now) = Wanted
<1>1. StampInv /\ Undisturbed /\ Now \in 0..Now /\ Now = Len(log)
    BY EventsAreEntries DEF RepairInv, WorkInv, StampInv, Now
<1>2. Active(Now) = Wanted /\ Schedulable(Now) = Wanted
    BY <1>1, NobodySetOut, ActiveIsActiveIn DEF Wanted
<1> QED
    BY <1>2 DEF Owed, Placed, Left, Mentions

\* apply_repair and _quiet_reroute on the store in S3, before any crew has set
\* out, with any number of handlers at work: a repair never takes a job off
\* the board without a word, because it names the head it started from and
\* no job it did not know of can have come onto that head.
THEOREM RepairsDiscardNothing == ASSUME Quiet PROVE Spec => RepairNeverDiscards
<1>1. RepairInv /\ [Next]_vars =>
        [\A w \in Writers : Moves(w, {"repair", "outage"}) => Owed(head) \subseteq Mentioned(head)']_vars
    <2> SUFFICES ASSUME RepairInv, [Next]_vars, NEW w \in Writers, Moves(w, {"repair", "outage"})
                 PROVE  Owed(head) \subseteq Mentioned(head)'
        OBVIOUS
    <2>1. /\ head = base[w] /\ base[w] # None /\ head' # None
          /\ stored'[head'].content = cand[w].version.content
        BY RepairsMoveFromTheirBase DEF Quiet, InS3, RepairInv
    <2>2. Owed(head) \subseteq Mentions(stored[base[w]].content) \cap Wanted
        BY <2>1, OwedIsWanted
    <2>3. Mentions(stored[base[w]].content) \cap Wanted \subseteq Mentions(cand[w].version.content)
        BY DEF RepairInv, Held, Moves
    <2>4. Mentioned(head)' = Mentions(cand[w].version.content)
        BY <2>1 DEF Mentioned, Placed, Left, Mentions
    <2> QED
        BY <2>2, <2>3, <2>4
<1> QED
    BY <1>1, RepairInvariance, PTL DEF Spec, RepairNeverDiscards

\* AutonomyPolicy on the same store: what was served and is still wanted is
\* served after a repair that nobody forced, whatever was booked, cancelled or
\* re-planned between its reads and its commit.
THEOREM UnforcedRepairsKeepPromises == ASSUME Quiet PROVE Spec => OnlyForceDropsPromises
<1>1. RepairInv /\ [Next]_vars =>
        [\A w \in Writers : Moves(w, {"repair", "outage"}) /\ ~req[w].force
           => Placed(head) \cap Active(Now) \subseteq Placed(head)']_vars
    <2> SUFFICES ASSUME RepairInv, [Next]_vars, NEW w \in Writers, Moves(w, {"repair", "outage"}),
                        ~req[w].force
                 PROVE  Placed(head) \cap Active(Now) \subseteq Placed(head)'
        OBVIOUS
    <2>1. /\ head = base[w] /\ base[w] # None /\ head' # None
          /\ stored'[head'].content = cand[w].version.content
        BY RepairsMoveFromTheirBase DEF Quiet, InS3, RepairInv
    <2>2. Placed(head) \cap Active(Now) = DOMAIN stored[base[w]].content.minutes \cap Wanted
        BY <2>1, OwedIsWanted
    <2>3. DOMAIN stored[base[w]].content.minutes \cap Wanted \subseteq DOMAIN cand[w].version.content.minutes
        BY DEF RepairInv, Held, Moves
    <2>4. Placed(head)' = DOMAIN cand[w].version.content.minutes
        BY <2>1 DEF Placed
    <2> QED
        BY <2>2, <2>3, <2>4
<1> QED
    BY <1>1, RepairInvariance, PTL DEF Spec, OnlyForceDropsPromises
-----------------------------------------------------------------------------
(* Repairs and the versions they replace, on the store in S3.              *)

\* A version whose id says what it repairs has that for its parent, and so does
\* the plan a handler is about to commit.
Descent == \A id \in DOMAIN stored, b \in Ids, s \in Strategies : id = Append(b, s) => stored[id].parent = b

Descends(w) == HasPlan(w) =>
    /\ \A b \in Ids, s \in Strategies : cand[w].id = Append(b, s) => b = base[w]
    /\ req[w].kind \in {"repair", "outage"} => \E s \in Strategies : cand[w].id = Append(base[w], s)

LineInv == WorkInv /\ Descent /\ \A w \in Writers : Descends(w)

LEMMA AppendedIds ==
    ASSUME Deployed, NEW b \in Ids, NEW s \in Strategies
    PROVE  /\ \A c \in Ids, t \in Strategies : Append(b, s) = Append(c, t) => c = b
           /\ \A n : Append(b, s) # <<n>>
<1>1. \A c \in Ids : c \in Seq(Nat) /\ c # <<>>
    BY DEF Deployed, IdsAreMinted
<1>2. Strategies \subseteq Nat
    BY DispatchConstants
<1>3. \A c \in Ids, t \in Strategies : Append(b, s) = Append(c, t) => c = b
    <2> SUFFICES ASSUME NEW c \in Ids, NEW t \in Strategies, Append(b, s) = Append(c, t) PROVE c = b
        OBVIOUS
    <2>1. b \in Seq(Nat) /\ c \in Seq(Nat) /\ s \in Nat /\ t \in Nat
        BY <1>1, <1>2
    <2> QED
        BY <2>1, AppendInjective
<1>4. Len(Append(b, s)) # 1
    <2>1. b \in Seq(Nat) /\ b # <<>> /\ s \in Nat
        BY <1>1, <1>2
    <2>2. Len(b) \in Nat /\ Len(b) # 0 /\ Len(Append(b, s)) = Len(b) + 1
        BY <2>1
    <2> QED
        BY <2>2
<1>5. \A n : Len(<<n>>) = 1
    OBVIOUS
<1> QED
    BY <1>3, <1>4, <1>5

\* What a step writes to the store descends from what its id says.
LEMMA StepKeepsDescent ==
    ASSUME InS3, LineInv, NEW w \in Writers, Outcome(w), StoreInv' PROVE Descent'
<1>1. CASE stored' = stored
    BY <1>1 DEF LineInv, Descent
<1>2. CASE stored' # stored
    <2>1. PICK x \in {Torn, plan[w].version} : stored' = With(stored, plan[w].id, x)
        BY <1>2 DEF Outcome, Shelves
    <2>2. pc[w] # "idle" /\ plan[w] = cand[w] /\ step[w] = "commit"
        BY <1>2 DEF Outcome, Shelves, LineInv, WorkInv, Good, CallOf
    <2>3. HasPlan(w) /\ cand[w].version.parent = base[w]
        BY <2>2 DEF HasPlan, LineInv, WorkInv, Good, PlanOf
    <2>4. DOMAIN stored' = DOMAIN stored \cup {cand[w].id} /\ stored'[cand[w].id] = x
          /\ \A i \in DOMAIN stored : i # cand[w].id => stored'[i] = stored[i]
        BY <2>1, <2>2 DEF With
    <2>5. x # Torn
        BY <2>4, StoreConstants DEF InS3, StoreInv, Conditional
    <2>6. stored'[cand[w].id].parent = base[w]
        BY <2>2, <2>3, <2>4, <2>5
    <2>7. \A b \in Ids, s \in Strategies : cand[w].id = Append(b, s) => b = base[w]
        BY <2>3 DEF LineInv, Descends
    <2>8. ASSUME NEW i \in DOMAIN stored', NEW b \in Ids, NEW s \in Strategies, i = Append(b, s)
          PROVE  stored'[i].parent = b
        <3>1. CASE i = cand[w].id
            BY <2>6, <2>7, <2>8, <3>1
        <3>2. CASE i # cand[w].id
            BY <2>4, <2>8, <3>2 DEF LineInv, Descent
        <3> QED
            BY <3>1, <3>2
    <2> QED
        BY <2>8 DEF Descent
<1> QED
    BY <1>1, <1>2

\* A plan that has just been made.
LEMMA NewPlanDescends ==
    ASSUME InS3, LineInv, NEW w \in Writers, Plan(w) \/ Choose(w) \/ Reroute(w), ~Done(w),
           req'[w].kind = req[w].kind
    PROVE  Descends(w)'
<1>0. /\ cand \in [Writers -> Plans \cup {NoPlan}] /\ Good(w) /\ Deployed /\ HasBase(w)
      /\ base' = base
    BY DEF InS3, LineInv, WorkInv, PlanTypes, Plan, Choose, Reroute, HasBase
<1>1. CASE Plan(w)
    <2>1. cand'[w].id = <<Cardinality(DOMAIN stored) + 1>>
        BY <1>0, <1>1 DEF Plan
    <2>2. \A b \in Ids, s \in Strategies : cand'[w].id # Append(b, s)
        BY <1>0, <2>1, AppendedIds
    <2>3. req[w].kind \notin {"repair", "outage"}
        BY <1>0, <1>1 DEF Plan, Good, RoleOf
    <2> QED
        BY <2>2, <2>3 DEF Descends
<1>2. CASE Choose(w) \/ Reroute(w)
    <2>1. PICK s \in Strategies : \E content : cand' = [cand EXCEPT ![w] = Candidate(w, s, content)]
        BY <1>2 DEF Choose, Reroute
    <2>2. cand'[w].id = Append(base[w], s)
        BY <1>0, <2>1 DEF Candidate
    <2>3. base[w] \in Ids
        <3>1. base[w] # None
            BY <1>0, <1>2 DEF Choose, Reroute, Good, RoleOf, BaseOf
        <3> QED
            BY <1>0, <3>1, ContentsOfBase DEF LineInv
    <2>4. \A b \in Ids, t \in Strategies : cand'[w].id = Append(b, t) => b = base[w]
        BY <1>0, <2>2, <2>3, AppendedIds
    <2> QED
        BY <1>0, <2>2, <2>4 DEF Descends
<1> QED
    BY <1>1, <1>2

LEMMA StepKeepsLine ==
    ASSUME InS3, LineInv, NEW w \in Writers,
           Request(w) \/ HandlerStep(w) \/ LoseReply(w) \/ Die(w)
    PROVE  \A v \in Writers : Descends(v)'
<1>1. /\ WorkInv /\ step \in [Writers -> Stages] /\ req \in [Writers -> Requests] /\ Descends(w)
      /\ Deployed
    BY DEF InS3, LineInv, WorkInv, StampInv, HandlerTypes
<1>2. Elsewhere(w)
    BY <1>1, StepsHaveOutcome DEF Outcome, Result
<1>3. ASSUME NEW v \in Writers \ {w} PROVE Descends(v)'
    <2>1. /\ step'[v] = step[v] /\ req'[v] = req[v] /\ cand'[v] = cand[v] /\ base'[v] = base[v]
          /\ Descends(v)
        BY <1>2, <1>3 DEF LineInv, Elsewhere
    <2>2. HasPlan(v)' <=> HasPlan(v)
        BY <2>1 DEF HasPlan
    <2> QED
        BY <2>1, <2>2 DEF Descends
<1> SUFFICES Descends(w)'
    BY <1>3
<1>4. CASE step'[w] \notin {"head", "commit"}
    BY <1>4 DEF Descends, HasPlan
<1>5. CASE HasPlan(w) /\ req'[w] = req[w] /\ base'[w] = base[w] /\ cand'[w] = cand[w]
    BY <1>1, <1>5 DEF Descends
<1>6. CASE Done(w)
    BY <1>1, <1>4, <1>6 DEF Done, GoTo
<1>7. CASE Request(w)
    <2>1. step'[w] \in {"mint", "append", "base", "world"}
        BY <1>1, <1>7 DEF Request, Book, Cancel, Claim, CommitPlan, SetCrew, Repair,
            CommitFromCLI, Record, Outage, Ask, AskStamped, GoTo
    <2> QED
        BY <1>4, <2>1
<1>8. CASE MintJob(w) \/ AppendEvent(w) \/ AppendRefused(w) \/ AppendUnheard(w) \/ Float(w) \/ Die(w)
    <2>1. step'[w] \in {"append", "world", "quiet", "idle"}
        BY <1>1, <1>8 DEF MintJob, AppendEvent, AppendRefused, AppendUnheard, Float, Die, Done, GoTo,
            AfterAppend
    <2> QED
        BY <1>4, <2>1
<1>9. CASE ReadWorld(w) \/ ReadBase(w) \/ ReadForReroute(w) \/ ReadPlacement(w)
    <2>1. step'[w] \in {"world", "reroute", "mintplan", "base", "choose", "float", "idle"}
        BY <1>1, <1>9 DEF ReadWorld, ReadBase, ReadForReroute, ReadPlacement, Done, GoTo
    <2> QED
        BY <1>4, <2>1
<1>10. CASE RereadHead(w) /\ ~Done(w)
    BY <1>5, <1>10 DEF RereadHead, HasPlan
<1>11. CASE (Plan(w) \/ Choose(w) \/ Reroute(w)) /\ ~Done(w)
    <2>1. CASE Choose(w)
        <3>1. PICK c : req' = [req EXCEPT ![w].force = NeedsForce(w, c)]
            BY <1>11, <2>1 DEF Choose
        <3>2. req[w] \in Requests /\ req'[w] = [req[w] EXCEPT !.force = NeedsForce(w, c)]
            BY <1>1, <3>1
        <3>3. req'[w].kind = req[w].kind
            BY <3>2 DEF Requests
        <3> QED
            BY <1>11, <2>1, <3>3, NewPlanDescends
    <2>2. CASE Plan(w) \/ Reroute(w)
        <3>1. req'[w].kind = req[w].kind
            BY <1>11, <2>2 DEF Plan, Reroute
        <3> QED
            BY <1>11, <2>2, <3>1, NewPlanDescends
    <2> QED
        BY <1>11, <2>1, <2>2
<1>12. CASE Commit(w) /\ ~Done(w)
    <2>1. AfterCommit(w) /\ HasPlan(w)
        BY <1>12 DEF Commit, HasPlan
    <2>2. CASE pc'[w] # "idle"
        BY <1>5, <2>1, <2>2 DEF AfterCommit
    <2>3. CASE pc'[w] = "idle"
        BY <1>1, <1>4, <1>12, <2>1, <2>3 DEF AfterCommit, GoTo
    <2> QED
        BY <2>2, <2>3
<1>13. CASE LoseReply(w)
    <2>1. step' = step /\ req' = req /\ base' = base /\ cand' = cand
        BY <1>13 DEF LoseReply, handlerVars
    <2> QED
        BY <1>1, <2>1 DEF Descends, HasPlan
<1> QED
    BY <1>6, <1>7, <1>8, <1>9, <1>10, <1>11, <1>12, <1>13 DEF HandlerStep

LEMMA LineInvariance == ASSUME InS3 PROVE Spec => []LineInv
<1>1. Init => LineInv
    <2> SUFFICES ASSUME Init PROVE LineInv
        OBVIOUS
    <2>1. WorkInv
        BY InitWorks DEF InS3
    <2>2. DOMAIN stored = {} /\ \A w \in Writers : step[w] = "idle"
        BY DEF Init, StoreInit
    <2> QED
        BY <2>1, <2>2 DEF LineInv, Descent, Descends, HasPlan
<1>2. LineInv /\ [Next]_vars => LineInv'
    <2> SUFFICES ASSUME LineInv, [Next]_vars PROVE LineInv'
        OBVIOUS
    <2>1. WorkInv' /\ StoreInv'
        BY StepKeepsWork DEF LineInv, InS3, WorkInv
    <2>2. CASE Next
        <3>1. PICK w \in Writers : Request(w) \/ HandlerStep(w) \/ LoseReply(w) \/ Die(w)
            BY <2>2 DEF Next
        <3>2. Outcome(w)
            BY <3>1, StepsHaveOutcome DEF LineInv, InS3
        <3> QED
            BY <2>1, <3>1, <3>2, StepKeepsDescent, StepKeepsLine DEF LineInv
    <2>3. CASE UNCHANGED vars
        <3>1. step' = step /\ req' = req /\ base' = base /\ cand' = cand /\ stored' = stored
            BY <2>3 DEF vars, handlerVars, storeVars
        <3> QED
            BY <2>1, <3>1 DEF LineInv, Descent, Descends, HasPlan
    <2> QED
        BY <2>2, <2>3
<1> QED
    BY <1>1, <1>2, PTL DEF Spec

\* On S3, whichever handlers run and however they race, a repair or a reroute
\* is committed over the version it names as its parent: the head is the base
\* it was made for, and a version already stored under the id it mints can
\* only be a repair of that same base.
THEOREM RepairsAreChildren == ASSUME InS3 PROVE Spec => RepairsNameWhatTheyReplace
<1>1. LineInv /\ [Next]_vars =>
        [\A w \in Writers : Moves(w, {"repair", "outage"}) => stored'[head'].parent = head]_vars
    <2> SUFFICES ASSUME LineInv, [Next]_vars, NEW w \in Writers, Moves(w, {"repair", "outage"})
                 PROVE  stored'[head'].parent = head
        OBVIOUS
    <2>1. /\ head = base[w] /\ base[w] \in Ids /\ HasPlan(w) /\ head' = cand[w].id
          /\ head' \in DOMAIN stored /\ stored' = stored
        BY RepairsMoveFromTheirBase DEF LineInv
    <2>2. PICK s \in Strategies : cand[w].id = Append(base[w], s)
        BY <2>1 DEF LineInv, Descends, Moves
    <2> QED
        BY <2>1, <2>2 DEF LineInv, Descent
<1> QED
    BY <1>1, LineInvariance, PTL DEF Spec, RepairsNameWhatTheyReplace
-----------------------------------------------------------------------------
(* One process alone on the JSON store.                                    *)

OnFiles == Deployed /\ ~ConditionalWrites /\ Alone

\* What it plans against is the head.
HoldsTheHead(w) == HasBase(w) => base[w] = head

HeadStands == head # None => stored[head] \in Versions

FileInv == WorkInv /\ HeadStands /\ \A w \in Writers : HoldsTheHead(w)

\* The one process writes to the version it is committing, never to the head;
\* when it moves the head, it moves it onto what it has written.
LEMMA CommittingKeepsTheHead ==
    ASSUME OnFiles, FileInv, NEW w \in Writers, Commit(w)
    PROVE  HoldsTheHead(w)' /\ HeadStands'
<1>0. /\ step \in [Writers -> Stages] /\ req \in [Writers -> Requests]
      /\ pc \in [Writers -> Steps]
      /\ Good(w) /\ step[w] = "commit" /\ HasPlan(w) /\ HasBase(w)
      /\ AfterCommit(w) /\ ~ConditionalWrites
    BY DEF FileInv, WorkInv, StampInv, HandlerTypes, StoreInv, StoreTypeOK, Commit, HasPlan, HasBase,
        OnFiles
<1>1. base[w] = head /\ cand[w].id # head
    BY <1>0 DEF FileInv, HoldsTheHead, Good, PlanOf
<1>2. CASE pc'[w] = "idle"
    <2>1. step'[w] \in {"idle", "place"}
        BY <1>0, <1>2 DEF AfterCommit, Done, GoTo
    <2>2. HoldsTheHead(w)'
        BY <2>1 DEF HoldsTheHead, HasBase
    <2>3. CASE MoveHead(w)
        <3>1. pc[w] = "move" /\ stored' = stored
            BY <2>3 DEF MoveHead
        <3>2. head' = plan[w].id
            BY <1>0, <2>3 DEF MoveHead, HeadMayMove
        <3>3. stored[plan[w].id] \in Versions
            BY <1>0, <3>1 DEF Good, CallOf
        <3> QED
            BY <2>2, <3>1, <3>2, <3>3 DEF HeadStands
    <2>4. CASE Begin(w, cand[w].id, cand[w].version)
        BY <2>2, <2>4 DEF Begin, FileInv, HeadStands
    <2>5. ~PutVersion(w) /\ ~TruncateVersion(w) /\ ~WriteVersion(w)
        BY <1>0, <1>2 DEF PutVersion, TruncateVersion, WriteVersion, Goto
    <2> QED
        BY <2>3, <2>4, <2>5 DEF Commit, CommitStep
<1>3. CASE pc'[w] # "idle"
    <2>1. step' = step /\ req' = req /\ base' = base
        BY <1>0, <1>3 DEF AfterCommit
    <2>2. head' = head /\ (head # None => stored'[head] = stored[head])
        <3>1. CASE Begin(w, cand[w].id, cand[w].version)
            BY <3>1 DEF Begin
        <3>2. CASE TruncateVersion(w) \/ WriteVersion(w)
            <4>1. pc[w] # "idle" /\ head' = head /\ \E x : stored' = With(stored, plan[w].id, x)
                BY <3>2 DEF TruncateVersion, WriteVersion
            <4>2. plan[w].id # head
                BY <1>0, <1>1, <4>1 DEF Good, CallOf
            <4>3. head # None => head \in DOMAIN stored
                BY DEF FileInv, WorkInv, StoreInv, Underway, StoreTypeOK
            <4> QED
                BY <4>1, <4>2, <4>3 DEF With
        <3>3. ~PutVersion(w) /\ ~MoveHead(w)
            BY <1>0, <1>3 DEF PutVersion, MoveHead, Return
        <3> QED
            BY <3>1, <3>2, <3>3 DEF Commit, CommitStep
    <2>3. HoldsTheHead(w)'
        BY <1>1, <2>1, <2>2 DEF HoldsTheHead
    <2> QED
        BY <2>2, <2>3 DEF FileInv, HeadStands
<1> QED
    BY <1>2, <1>3

LEMMA StepKeepsTheHead ==
    ASSUME OnFiles, FileInv, NEW w \in Writers,
           Request(w) \/ HandlerStep(w) \/ LoseReply(w) \/ Die(w)
    PROVE  HoldsTheHead(w)' /\ HeadStands'
<1>0. /\ step \in [Writers -> Stages] /\ req \in [Writers -> Requests]
      /\ base \in [Writers -> Ids \cup {None}]
      /\ HoldsTheHead(w) /\ HeadStands /\ ~ConditionalWrites
    BY DEF FileInv, WorkInv, StampInv, HandlerTypes, PlanTypes, OnFiles
<1>1. CASE Commit(w)
    BY <1>1, CommittingKeepsTheHead
<1>2. ~LoseReply(w)
    BY <1>0 DEF LoseReply, LoseResponse
<1>3. CASE ~Commit(w)
    <2>1. head' = head /\ stored' = stored
        BY <1>2, <1>3 DEF Request, Book, Cancel, Claim, CommitPlan, SetCrew, Repair, CommitFromCLI,
            Record, Outage, Ask, AskStamped, HandlerStep, MintJob, AppendEvent, AppendRefused,
            AppendUnheard, ReadWorld, ReadBase, RereadHead, ReadForReroute, ReadHead, Plan, Choose,
            Reroute, ReadPlacement, Float, Die, Crash, storeVars
    <2>2. HeadStands'
        BY <1>0, <2>1 DEF HeadStands
    <2> SUFFICES HoldsTheHead(w)'
        BY <2>2
    <2>3. CASE Done(w)
        BY <1>0, <2>3 DEF Done, GoTo, HoldsTheHead, HasBase
    <2>4. CASE Request(w)
        <3>1. ASSUME NEW kind, NEW j, NEW who, NEW s, Ask(w, kind, j, who, s)
              PROVE  step'[w] = s /\ req'[w].kind = kind
            BY <1>0, <3>1 DEF Ask, GoTo, NoReq
        <3>2. ASSUME NEW kind, NEW j, NEW who, AskStamped(w, kind, j, who) PROVE step'[w] = "append"
            BY <1>0, <3>2 DEF AskStamped, GoTo
        <3>3. \/ step'[w] \in {"mint", "append", "base"}
              \/ step'[w] = "world" /\ req'[w].kind # "repair"
            BY <2>4, <3>1, <3>2 DEF Request, Book, Cancel, Claim, CommitPlan, SetCrew, Repair,
                CommitFromCLI, Record, Outage
        <3> QED
            BY <3>3 DEF HoldsTheHead, HasBase
    <2>5. CASE MintJob(w) \/ ((AppendEvent(w) \/ ReadPlacement(w) \/ ReadForReroute(w)) /\ ~Done(w))
        <3>1. \/ step'[w] \in {"append", "quiet", "float", "base"}
              \/ step'[w] = "world" /\ req'[w].kind # "repair"
            BY <1>0, <2>5 DEF MintJob, AppendEvent, AfterAppend, ReadPlacement, ReadForReroute, GoTo
        <3> QED
            BY <3>1 DEF HoldsTheHead, HasBase
    <2>6. CASE ReadWorld(w)
        <3>1. \/ step[w] = "world" /\ req[w].kind = "repair" /\ base' = base
              \/ step'[w] = "base"
            BY <1>0, <2>6 DEF ReadWorld, GoTo
        <3> QED
            BY <1>0, <2>1, <3>1 DEF HoldsTheHead, HasBase
    <2>7. CASE ReadBase(w) /\ ~Done(w)
        BY <1>0, <2>1, <2>7 DEF ReadBase, HoldsTheHead
    <2>8. CASE (Plan(w) \/ Choose(w) \/ Reroute(w) \/ RereadHead(w)) /\ ~Done(w)
        <3>1. base' = base /\ HasBase(w)
            BY <2>8 DEF Plan, Choose, Reroute, RereadHead, HasBase
        <3> QED
            BY <1>0, <2>1, <3>1 DEF HoldsTheHead
    <2>9. AppendRefused(w) \/ AppendUnheard(w) \/ Float(w) \/ Die(w) => Done(w)
        BY DEF AppendRefused, AppendUnheard, Float, Die
    <2> QED
        BY <1>2, <1>3, <2>2, <2>3, <2>4, <2>5, <2>6, <2>7, <2>8, <2>9 DEF HandlerStep
<1> QED
    BY <1>1, <1>3

LEMMA FileInvariance == ASSUME OnFiles PROVE Spec => []FileInv
<1>1. Init => FileInv
    <2> SUFFICES ASSUME Init PROVE FileInv
        OBVIOUS
    <2>1. WorkInv
        BY InitWorks DEF OnFiles
    <2>2. head = None /\ \A w \in Writers : step[w] = "idle"
        BY DEF Init, StoreInit
    <2> QED
        BY <2>1, <2>2 DEF FileInv, HeadStands, HoldsTheHead, HasBase
<1>2. FileInv /\ [Next]_vars => FileInv'
    <2> SUFFICES ASSUME FileInv, [Next]_vars PROVE FileInv'
        OBVIOUS
    <2>1. WorkInv'
        BY StepKeepsWork DEF FileInv, OnFiles
    <2>2. CASE Next
        <3>1. PICK w \in Writers : Request(w) \/ HandlerStep(w) \/ LoseReply(w) \/ Die(w)
            BY <2>2 DEF Next
        <3>2. HoldsTheHead(w)' /\ HeadStands'
            BY <3>1, StepKeepsTheHead
        <3>3. \A v \in Writers : v = w
            BY DEF OnFiles, Alone
        <3> QED
            BY <2>1, <3>2, <3>3 DEF FileInv
    <2>3. CASE UNCHANGED vars
        <3>1. head' = head /\ stored' = stored /\ step' = step /\ req' = req /\ base' = base
            BY <2>3 DEF vars, handlerVars, storeVars
        <3> QED
            BY <2>1, <3>1 DEF FileInv, HeadStands, HoldsTheHead, HasBase
    <2> QED
        BY <2>2, <2>3
<1> QED
    BY <1>1, <1>2, PTL DEF Spec

\* One process alone can be stopped anywhere, in the middle of a file even: the
\* board it leaves can be loaded.  JsonPlanStore writes a version before it
\* points HEAD at it, and no handler commits a version under the head's own id.
THEOREM FilesStayReadable == ASSUME OnFiles PROVE Spec => []HeadIsReadable
<1>1. FileInv => HeadIsReadable
    BY StoreConstants DEF FileInv, HeadStands, HeadIsReadable, WorkInv, StoreInv, Underway, StoreTypeOK
<1> QED
    BY <1>1, FileInvariance, PTL
=============================================================================
