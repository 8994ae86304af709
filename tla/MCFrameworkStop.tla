-------------------------- MODULE MCFrameworkStop ---------------------------
(* Instances of FrameworkStop for TLC: no symmetry, a run checks liveness. *)
EXTENDS FrameworkStop
=============================================================================
