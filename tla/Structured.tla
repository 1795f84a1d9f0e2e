------------------------------ MODULE Structured ------------------------------
(***************************************************************************)
(* extract (agents/structured.py): ask a model for an object of a schema;  *)
(* what does not validate goes back with the reasons, MaxAttempts times in *)
(* all; a model that cannot be reached is not asked again.                 *)
(***************************************************************************)
EXTENDS Naturals, FiniteSets

CONSTANTS Callers,     \* requests that may ask a model at the same time
          Values,      \* the objects that validate
          Nothing,     \* no object
          MaxAttempts  \* max_attempts

ASSUME StructuredConstants == MaxAttempts \in Nat /\ Nothing \notin Values

VARIABLES asking,    \* the callers inside extract
          attempted, \* caller -> attempts made in this call
          messages,  \* caller -> length of the conversation so far
          errors,    \* caller -> errors collected in this call
          result     \* caller -> the Extraction it last got

callVars == <<asking, attempted, messages, errors, result>>

NoResult == [value |-> Nothing, attempts |-> 0, failed |-> FALSE]

StructuredInit ==
    /\ asking = {}
    /\ attempted = [c \in Callers |-> 0]
    /\ messages = [c \in Callers |-> 0]
    /\ errors = [c \in Callers |-> 0]
    /\ result = [c \in Callers |-> NoResult]

\* extract is called: one user message, nothing tried yet.
Extract(c) ==
    /\ c \notin asking
    /\ asking' = asking \cup {c}
    /\ attempted' = [attempted EXCEPT ![c] = 0]
    /\ messages' = [messages EXCEPT ![c] = 1]
    /\ errors' = [errors EXCEPT ![c] = 0]
    /\ result' = [result EXCEPT ![c] = NoResult]

\* extract returns.
Return(c, value, attempts, failed) ==
    /\ asking' = asking \ {c}
    /\ result' = [result EXCEPT ![c] = [value |-> value, attempts |-> attempts, failed |-> failed]]

MayAttempt(c) == c \in asking /\ attempted[c] < MaxAttempts

Attempt(c) == attempted' = [attempted EXCEPT ![c] = @ + 1]

\* The reply holds an object of the schema, as structured output or inside prose.
Valid(c, v) ==
    /\ MayAttempt(c)
    /\ Attempt(c)
    /\ Return(c, v, attempted[c] + 1, FALSE)
    /\ UNCHANGED <<messages, errors>>

\* The reply holds no object, or one that does not validate: it is put into the
\* conversation with the demand to mend it.
Invalid(c) ==
    /\ MayAttempt(c)
    /\ Attempt(c)
    /\ messages' = [messages EXCEPT ![c] = @ + 2]
    /\ errors' = [errors EXCEPT ![c] = @ + 1]
    /\ UNCHANGED <<asking, result>>

\* LLMError: the budget is not spent on a model that is not there.
Unreachable(c) ==
    /\ MayAttempt(c)
    /\ Attempt(c)
    /\ errors' = [errors EXCEPT ![c] = @ + 1]
    /\ Return(c, Nothing, attempted[c] + 1, TRUE)
    /\ UNCHANGED messages

\* Mutants of GiveUp: the ceiling is reported, whatever was tried; and an
\* answer that does not validate ends the call.
ReportCeiling(c) ==
    /\ c \in asking
    /\ Return(c, Nothing, MaxAttempts, FALSE)
    /\ UNCHANGED <<attempted, messages, errors>>

GiveUpEarly(c) ==
    /\ c \in asking /\ attempted[c] > 0
    /\ Return(c, Nothing, attempted[c], FALSE)
    /\ UNCHANGED <<attempted, messages, errors>>

\* The loop is over and nothing validated.
GiveUp(c) ==
    /\ c \in asking /\ attempted[c] = MaxAttempts
    /\ Return(c, Nothing, attempted[c], FALSE)
    /\ UNCHANGED <<attempted, messages, errors>>

ModelReplies(c) == (\E v \in Values : Valid(c, v)) \/ Invalid(c) \/ Unreachable(c) \/ GiveUp(c)

StructuredNext == \E c \in Callers : Extract(c) \/ ModelReplies(c)

StructuredSpec == StructuredInit /\ [][StructuredNext]_callVars

-----------------------------------------------------------------------------
(* Properties.                                                             *)

\* extract never asks more than max_attempts times, nor keeps more errors.
StructuredTypeOK ==
    /\ asking \subseteq Callers
    /\ attempted \in [Callers -> 0..MaxAttempts]
    /\ messages \in [Callers -> Nat]
    /\ errors \in [Callers -> 0..MaxAttempts]
    /\ result \in [Callers -> [value : Values \cup {Nothing}, attempts : 0..MaxAttempts,
                               failed : BOOLEAN]]

\* While it runs, every attempt so far has left one error and two messages, so
\* that the model sees each of its answers with what was wrong with it; once it
\* returned, the attempts it reports are the attempts it made, the health
\* signal "must count what actually happened rather than the configured
\* ceiling", and an empty result has an error for every one of them.
AttemptsAreAccountedFor ==
    \A c \in Callers :
        /\ c \in asking => /\ errors[c] = attempted[c]
                           /\ messages[c] = 1 + 2 * attempted[c]
                           /\ result[c] = NoResult
        /\ c \notin asking => /\ result[c].attempts = attempted[c]
                              /\ result[c].value = Nothing => errors[c] = attempted[c]

\* Seen from outside, an extraction is one answer: an object, or none after the
\* whole budget, or none because the model was not there.
Abstract == INSTANCE Extraction WITH Callers <- Callers, Values <- Values, Nothing <- Nothing,
                                     MaxAttempts <- MaxAttempts,
                                     asking <- asking, result <- result
ImplementsExtraction == Abstract!AbstractSpec
=============================================================================
