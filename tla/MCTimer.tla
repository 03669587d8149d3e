------------------------------- MODULE MCTimer -------------------------------
(* The timer of one context, for TLC: no property tells the timeouts apart.  *)
EXTENDS Timer

Symmetry == Permutations(Timeouts)
==============================================================================
