----------------------------- MODULE MCEventBus -----------------------------
(* Instances of EventBus for TLC: no symmetry, a run checks liveness. *)
EXTENDS EventBus
=============================================================================
