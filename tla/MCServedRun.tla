----------------------------- MODULE MCServedRun -----------------------------
(* Instances of ServedRun for TLC. *)
EXTENDS ServedRun

Server(settings) == [s \in {"capped", "idle", "grace", "digest", "asks"} |-> s \in settings]

(* Each setting with and without each of the others that its code path reads. *)
Servers == {Server(c) : c \in {{"capped", "idle", "grace", "digest"},
                               {"capped", "digest"},
                               {"idle", "grace"},
                               {"idle"},
                               {"grace", "digest"},
                               {"capped", "grace", "asks"}}}

Bounded == {Server({"capped", "idle", "grace"})}
=============================================================================
