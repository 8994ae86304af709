---------------------------- MODULE MCSpendGate -----------------------------
(* Instances of SpendGate for TLC.  The calls are interchangeable, and every   *)
(* property of the run, the refinement included, is a safety property.         *)
EXTENDS SpendGate, TLC

AnyCall == Permutations(Calls)
=============================================================================
