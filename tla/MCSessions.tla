---------------------------- MODULE MCSessions ----------------------------
(* Sessions for TLC: slots are alike, so they are model values under symmetry.  *)
EXTENDS Sessions, TLC

Sym == Permutations(Slots)
=============================================================================
