--------------------------- MODULE MCAvailability ----------------------------
(* A fitter's shift inside the day, and a van's day.                         *)
EXTENDS Availability

MCSpans == {<<1, 4>>, <<0, 5>>}
=============================================================================
