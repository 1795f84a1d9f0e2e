------------------------------ MODULE Extraction ------------------------------
(***************************************************************************)
(* What the agents may count on when they ask a model for an object: one   *)
(* question, one answer.  The answer is a valid object, or it is none      *)
(* because every attempt was used up, or it is none because the model      *)
(* could not be reached.                                                   *)
(***************************************************************************)
EXTENDS Naturals

CONSTANTS Callers,     \* requests that may ask a model at the same time
          Values,      \* the objects that validate
          Nothing,     \* no object
          MaxAttempts  \* max_attempts

VARIABLES asking,  \* the callers waiting for an answer
          result   \* caller -> the Extraction it last got

extractionVars == <<asking, result>>

NoResult == [value |-> Nothing, attempts |-> 0, failed |-> FALSE]

Answered  == [value : Values, attempts : 1..MaxAttempts, failed : {FALSE}]
Exhausted == [value : {Nothing}, attempts : {MaxAttempts}, failed : {FALSE}]
CutOff    == [value : {Nothing}, attempts : 1..MaxAttempts, failed : {TRUE}]

Extractions == Answered \cup Exhausted \cup CutOff

AbstractInit ==
    /\ asking = {}
    /\ result = [c \in Callers |-> NoResult]

Question(c) ==
    /\ c \notin asking
    /\ asking' = asking \cup {c}
    /\ result' = [result EXCEPT ![c] = NoResult]

Answer(c) ==
    /\ c \in asking
    /\ asking' = asking \ {c}
    /\ \E x \in Extractions : result' = [result EXCEPT ![c] = x]

AbstractNext == \E c \in Callers : Question(c) \/ Answer(c)

AbstractSpec == AbstractInit /\ [][AbstractNext]_extractionVars
=============================================================================
