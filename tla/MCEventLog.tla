----------------------------- MODULE MCEventLog ------------------------------
(* Batches of the sizes the handlers append: a lone event, and the three of  *)
(* a booking, which may reach a file in three pieces; and a seed of two.     *)
EXTENDS EventLog

CONSTANTS e1, e2, e3, e4, e5, s1, s2, w1, w2

MCBatches == {<<e1>>, <<e2, e3, e4>>, <<e5>>}
MCSeed == <<s1, s2>>
MCSymmetry == Permutations({w1, w2})
=============================================================================
