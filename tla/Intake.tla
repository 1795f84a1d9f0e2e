-------------------------------- MODULE Intake --------------------------------
(***************************************************************************)
(* From a call to a draft job (agents/intake.py, domain/catalog.py): what  *)
(* the model extracted is held against what the caller's words say, and a  *)
(* call with anything required still missing is not bookable.              *)
(*                                                                         *)
(* A call is the extraction, a record of fields; a text is what the        *)
(* patterns find in the words themselves: [after, comeAt, before, only,    *)
(* measured, counted, arranged].  An hour is 0..LastHour or Unsaid.  The   *)
(* three patterns for hours take the first match there is, which need not  *)
(* be an hour at all: "calling from 45 Elm Street" matches _AFTER, and is  *)
(* Unparsed.                                                               *)
(***************************************************************************)
EXTENDS Integers, FiniteSetsExt

CONSTANTS Unsaid,        \* an hour or a count that was not given
          Unparsed,      \* a match that _hour_24 makes no hour of
          LastHour,      \* the last hour of a day
          CivilHour,     \* the hour before which nobody is offered a visit unasked
          WorkingWeek,   \* days that are just the week and no restriction
          NonAnswers,    \* what a model writes when it means "nothing"
          Dialable,      \* numbers with digits enough to be rung
          Catalogue,     \* [service -> [dur, perPane, crew, certs, seals]]
          MadeToOrder,   \* glass that has to be cut first
          LeadDays,      \* days it takes
          Sold,          \* services this business offers
          Map,           \* [address -> [at, named, said]], the addresses a map finds
          Weights,       \* [signal -> what moving the appointment would cost]
          MaxCommitment

ASSUME IntakeConstants ==
    /\ LastHour \in Nat /\ CivilHour \in 0..LastHour /\ Unsaid \notin Nat
    /\ Unparsed \notin Nat \cup {Unsaid}
    /\ Sold \subseteq DOMAIN Catalogue /\ {LeadDays, MaxCommitment} \subseteq Nat
    /\ \A service \in DOMAIN Catalogue :
          LET entry == Catalogue[service]
          IN /\ entry.dur \in Nat \ {0} /\ entry.crew \in 1..2 /\ {entry.perPane, entry.seals} \subseteq Nat

\* What an extraction's fields are validated for, and what the patterns find.
IsCall(call) ==
    /\ {"name", "phone", "address", "service", "panes", "glass", "earliest", "latest",
        "days", "signals", "quotes"} \subseteq DOMAIN call
    /\ call.panes \in (Nat \ {0}) \cup {Unsaid}
    /\ {call.earliest, call.latest} \subseteq (0..LastHour) \cup {Unsaid}

IsText(text) ==
    /\ {"after", "comeAt", "before", "only", "measured", "counted", "arranged"} \subseteq DOMAIN text
    /\ {text.after, text.comeAt, text.before} \subseteq (0..LastHour) \cup {Unsaid, Unparsed}

(* The validators of CallExtraction.                                       *)

Stated(answer) == IF answer \in NonAnswers THEN "" ELSE answer

PhoneOrBlank(phone) == IF phone \in Dialable THEN phone ELSE ""

\* An upper bound that contradicts the lower one is dropped.
AWindowMustBePossible(call) ==
    IF Unsaid \notin {call.earliest, call.latest} /\ call.latest <= call.earliest
    THEN [call EXCEPT !.latest = Unsaid]
    ELSE call

Validated(call) ==
    AWindowMustBePossible([call EXCEPT !.name = Stated(@), !.phone = PhoneOrBlank(Stated(@)),
                                       !.address = Stated(@), !.service = Stated(@)])

-----------------------------------------------------------------------------
(* Corrections from the caller's own words, in the order intake makes them. *)

\* A measurement is not a quantity.
DistrustASizeReadAsACount(call, text) ==
    IF call.panes # Unsaid /\ call.panes > 1 /\ text.measured /\ ~text.counted
    THEN [call EXCEPT !.panes = 1] ELSE call

IsHour(match) == match \notin {Unsaid, Unparsed}

\* A match of _AFTER is taken before one of _COME_AT, whatever comes of it.
LowerBound(text) == IF text.after # Unsaid THEN text.after ELSE text.comeAt

\* Mutant of FixTheDirection: the bound is put where the model had put it.
TrustTheDirection(call, text) == call

\* A stated bound goes on the side the caller put it.  A limit the model put
\* on the wrong side goes, unless _BEFORE matched anything.
FixTheDirection(call, text) ==
    LET lower == LowerBound(text)
        contradicted == /\ IsHour(lower) /\ call.latest # Unsaid /\ call.latest <= lower
                        /\ text.before = Unsaid
    IN [call EXCEPT !.earliest = IF IsHour(lower) THEN lower ELSE @,
                    !.latest = IF IsHour(text.before) THEN text.before
                               ELSE IF contradicted THEN Unsaid ELSE @]

\* Mutant of GroundedCommitments: the quotes go and what they were for stays.
QuotesOnly(call, text) == [call EXCEPT !.quotes = @ \cap text.arranged]

\* Only quotes that are in the call, and speak of an arrangement; signals left
\* without any go with them.
GroundedCommitments(call, text) ==
    LET quotes == call.quotes \cap text.arranged
    IN IF quotes = call.quotes THEN call
       ELSE [call EXCEPT !.quotes = quotes, !.signals = IF quotes = {} THEN {} ELSE @]

\* A lower bound before CivilHour stands only if _AFTER matched the words.
CivilFloor(call, text) ==
    IF call.earliest # Unsaid /\ call.earliest < CivilHour /\ text.after = Unsaid
    THEN [call EXCEPT !.earliest = CivilHour] ELSE call

RestrictedDays(call, text) ==
    [call EXCEPT !.days = IF text.only # {} THEN text.only
                          ELSE IF Cardinality(@) >= WorkingWeek THEN {} ELSE @]

Heard(call, text) ==
    RestrictedDays(CivilFloor(GroundedCommitments(FixTheDirection(
        DistrustASizeReadAsACount(Validated(call), text), text), text), text), text)

-----------------------------------------------------------------------------
(* The draft.                                                              *)

Known(call) == call.service \in DOMAIN Catalogue

Panes(call) == IF call.panes = Unsaid THEN 1 ELSE call.panes

\* lookup: the catalogue's numbers, and a second fitter for four panes or more.
Estimate(call) ==
    LET entry == Catalogue[call.service]
        extra == Panes(call) - 1
    IN [dur |-> entry.dur + extra * entry.perPane,
        crew |-> IF Panes(call) >= 4 /\ entry.crew < 2 THEN 2 ELSE entry.crew,
        certs |-> entry.certs,
        lead |-> IF call.glass \in MadeToOrder THEN LeadDays ELSE 0,
        seals |-> IF call.glass \in MadeToOrder THEN 0 ELSE entry.seals * Panes(call)]

\* A street the caller never said, and no place they named.
TheMapGuessed(address) == ~Map[address].named /\ ~Map[address].said

Located(call) == call.address \in DOMAIN Map /\ ~TheMapGuessed(call.address)

Missing(call) ==
    {field \in {"name", "phone", "address", "service"} : call[field] = ""}
        \cup (IF call.service # "" /\ ~Known(call) THEN {"service"} ELSE {})
        \cup (IF call.address # "" /\ ~Located(call) THEN {"address"} ELSE {})

Bookable(call) == Missing(call) = {} /\ call.service \in Sold

CommitmentCost(call) ==
    LET total == MapThenSumSet(LAMBDA s : Weights[s], call.signals \cap DOMAIN Weights)
    IN IF total < MaxCommitment THEN total ELSE MaxCommitment
=============================================================================
