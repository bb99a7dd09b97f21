---------------------------- MODULE MCUemBackend ----------------------------
(* Three threads, three uploads of which two are high risks.               *)
EXTENDS UemBackend, TLC

CONSTANTS t1, t2, t3, low, high, critical

MCThread == {t1, t2, t3}
MCIncident == {low, high, critical}
MCVerdict ==
  [i \in MCIncident |-> CASE i = low -> "LOW" [] i = high -> "HIGH" [] OTHER -> "CRITICAL"]
MCSymmetry == Permutations(MCThread)
=============================================================================
