--------------------------- MODULE FrameworkStop ----------------------------
(***************************************************************************)
(* The framework's own graceful stop, raised by the served app             *)
(* (session/framework_stop.py, session/framework_signal.py and             *)
(* _begin_framework_stop in server/app.py), at the grain of its file       *)
(* calls.  The files are the mind's: stop-requested, stop-target-mode,     *)
(* stop-checkpoint.json and agent-mode.  A raise runs in a worker thread   *)
(* and the mind's own scripts are other processes, so any of their file    *)
(* calls may come between two of the app's.                                *)
(*                                                                         *)
(*   Raisers - the callers of _begin_framework_stop in one process: the    *)
(*             cap's watcher, the consumer's beat, /run/stop.              *)
(*                                                                         *)
(* The mind's steps are external: they are the order its graceful stop     *)
(* writes its files in, as the tests replay it (GS-0, D3, D7, D7.1).  A    *)
(* stop cut short by the end of the process is the framework's to resume.  *)
(*                                                                         *)
(* Abstracted: the two clocks (a raise grows old, a window closes), which  *)
(* mode the mind stops in, the log lines, and an OSError of one file.      *)
(***************************************************************************)
EXTENDS Naturals, FiniteSets

CONSTANTS Raisers,
          MaxRaise, \* bound: raises that find no ask on disk, in all processes
          MaxCrash  \* bound: ends of the process

ASSUME BoundAssumption == MaxRaise \in Nat /\ MaxCrash \in Nat

VARIABLES
  signal,      \* stop-requested: "none", "bare", or "signed" by this sidecar
  old,         \* the signed raise is older than the grace
  target,      \* stop-target-mode exists
  checkpoint,  \* stop-checkpoint.json exists
  stopped,     \* agent-mode reads a mode a stop lands in
  proc,        \* the process: "down", "boot" (its lifespan startup) or "up"
  raiser,      \* [Raisers -> where its request_framework_stop is]
  retire,      \* where abandon_framework_stop is
  window,      \* framework_stop_until: "none", "open" or "spent"
  mind,        \* where the mind is in its own stop
  crashes,
  faults,      \* rigid: what the setter may do, "refuse", or "timeout" with the marker written or not
  paced,       \* rigid: the mind makes no step while the app is between two file calls
  raises,      \* history: raises that found no ask on disk
  consumed     \* history: the mind has consumed an ask

files == <<signal, old, target, checkpoint, stopped>>
hist == <<raises, consumed>>
world == <<faults, paced>>
vars == <<files, proc, raiser, retire, window, mind, crashes, world, hist>>

RaisePC == {"idle", "call", "mode", "set", "verify", "revert", "sign", "raised", "done"}
RetirePC == {"no", "check", "signal", "target"}
Stopping == {"begun", "asked", "applied", "cleared"}  \* past GS-0, D3, D7's mode, D7's removal
MindPC == {"runs", "asleep", "stopped", "crashed", "cut"} \cup Stopping

TypeOK ==
  /\ signal \in {"none", "bare", "signed"} /\ old \in BOOLEAN
  /\ target \in BOOLEAN /\ checkpoint \in BOOLEAN /\ stopped \in BOOLEAN
  /\ proc \in {"down", "boot", "up"}
  /\ raiser \in [Raisers -> RaisePC]
  /\ retire \in RetirePC
  /\ window \in {"none", "open", "spent"}
  /\ retire # "no" => window = "spent" \/ proc = "boot"
  /\ mind \in MindPC
  /\ crashes \in 0..MaxCrash
  /\ faults \subseteq {"refuse", "timeout"} /\ paced \in BOOLEAN
  /\ raises \in 0..MaxRaise /\ consumed \in BOOLEAN

(* agent-mode may still read what an earlier stop left; a mind that never ran the
   framework's loop has no turn that could read a stop.                           *)
Init ==
  /\ signal = "none" /\ old = FALSE /\ target = FALSE /\ checkpoint = FALSE
  /\ stopped \in BOOLEAN
  /\ proc = "up" /\ raiser = [r \in Raisers |-> "idle"] /\ retire = "no"
  /\ window = "none" /\ mind \in {"runs", "asleep"}
  /\ faults \in SUBSET {"refuse", "timeout"} /\ paced \in BOOLEAN
  /\ crashes = 0 /\ raises = 0 /\ consumed = FALSE

Step(r, from, to) == proc = "up" /\ raiser[r] = from /\ raiser' = [raiser EXCEPT ![r] = to]

-----------------------------------------------------------------------------
(* _begin_framework_stop, on the event loop: an open window is the caller's answer ... *)
BeginStop(r) ==
  /\ window = "none" /\ retire = "no"
  /\ Step(r, "idle", "call")
  /\ UNCHANGED <<files, proc, retire, window, mind, crashes, world, hist>>

(* ... and the raise runs in a thread: an ask already on disk is one stop. *)
RaiseTest(r) ==
  /\ IF signal # "none"
     THEN Step(r, "call", "raised") /\ UNCHANGED raises
     ELSE Step(r, "call", "mode") /\ raises < MaxRaise /\ raises' = raises + 1
  /\ UNCHANGED <<files, proc, retire, window, mind, crashes, world, consumed>>

RaiseMode(r) ==
  /\ Step(r, "mode", "set")
  /\ target' = TRUE
  /\ UNCHANGED <<signal, old, checkpoint, stopped, proc, retire, window, mind, crashes, world, hist>>

(* invoke_signal_setter: the setter touches the marker; or refuses; or is killed at
   its timeout, the marker touched or not.                                          *)
RaiseSet(r) ==
  LET touched == IF signal = "none" THEN "bare" ELSE signal IN
  /\ \/ Step(r, "set", "verify") /\ signal' = touched
     \/ "refuse" \in faults /\ Step(r, "set", "revert") /\ UNCHANGED signal
     \/ "timeout" \in faults /\ Step(r, "set", "revert") /\ signal' \in {signal, touched}
  /\ UNCHANGED <<old, target, checkpoint, stopped, proc, retire, window, mind, crashes, world, hist>>

(* ... and verifies by reading the marker. *)
RaiseVerify(r) ==
  /\ IF signal # "none" THEN Step(r, "verify", "sign") ELSE Step(r, "verify", "revert")
  /\ UNCHANGED <<files, proc, retire, window, mind, crashes, world, hist>>

(* Mutant of RaiseRevert: the setter's refusal leaves the target mode. *)
RaiseRevertNothing(r) ==
  /\ Step(r, "revert", "done")
  /\ UNCHANGED <<files, proc, retire, window, mind, crashes, world, hist>>

RaiseRevert(r) ==
  /\ Step(r, "revert", "done")
  /\ target' = FALSE
  /\ UNCHANGED <<signal, old, checkpoint, stopped, proc, retire, window, mind, crashes, world, hist>>

(* Mutant of RaiseSign: opened with O_CREAT. *)
RaiseSignCreates(r) ==
  /\ Step(r, "sign", "raised")
  /\ signal' = "signed" /\ old' = FALSE
  /\ UNCHANGED <<target, checkpoint, stopped, proc, retire, window, mind, crashes, world, hist>>

(* _sign_signal never creates the marker. *)
RaiseSign(r) ==
  /\ Step(r, "sign", "raised")
  /\ IF signal = "none" THEN UNCHANGED <<signal, old>> ELSE signal' = "signed" /\ old' = FALSE
  /\ UNCHANGED <<target, checkpoint, stopped, proc, retire, window, mind, crashes, world, hist>>

(* The raise is back on the event loop: the window opens. *)
OpenWindow(r) ==
  /\ retire = "no"
  /\ Step(r, "raised", "done")
  /\ window' = "open"
  /\ UNCHANGED <<files, proc, retire, mind, crashes, world, hist>>

-----------------------------------------------------------------------------
(* Time: a signed raise grows older than the grace, and the window closes no sooner.  A
   raise takes at most the setter's 30 s, so none is in flight when a window runs out.   *)
NoneInFlight == \A r \in Raisers : raiser[r] \in {"idle", "done"}

Age ==
  /\ signal = "signed" /\ ~old
  /\ old' = TRUE
  /\ UNCHANGED <<signal, target, checkpoint, stopped>>
  /\ UNCHANGED <<proc, raiser, retire, window, mind, crashes, world, hist>>

(* Mutant of WindowCloses: the pair is retired while its window is open. *)
RetiresInWindow ==
  /\ proc = "up" /\ window = "open" /\ NoneInFlight /\ (signal = "signed" => old)
  /\ retire' = "check"
  /\ UNCHANGED <<files, proc, raiser, window, mind, crashes, world, hist>>

WindowCloses ==
  /\ proc = "up" /\ window = "open" /\ NoneInFlight /\ (signal = "signed" => old)
  /\ window' = "spent" /\ retire' = "check"
  /\ UNCHANGED <<files, proc, raiser, mind, crashes, world, hist>>

(* The quiet window: nothing is left that could read the stop. *)
QuietEnds ==
  /\ proc = "up" /\ window = "open" /\ NoneInFlight /\ mind = "asleep"
  /\ window' = "spent" /\ retire' = "check"
  /\ UNCHANGED <<files, proc, raiser, mind, crashes, world, hist>>

-----------------------------------------------------------------------------
(* Mutant of RetireCheck: the checkpoint is not looked at. *)
RetireUnchecked ==
  /\ retire = "check"
  /\ retire' = "signal"
  /\ UNCHANGED <<files, proc, raiser, window, mind, crashes, world, hist>>

(* abandon_framework_stop: a checkpoint leaves the pair to the framework ... *)
RetireCheck ==
  /\ retire = "check"
  /\ retire' = IF checkpoint THEN "no" ELSE "signal"
  /\ proc' = IF checkpoint THEN "up" ELSE proc
  /\ UNCHANGED <<files, raiser, window, mind, crashes, world, hist>>

(* Mutant of RetireSignal: the target mode goes first. *)
RetireTargetFirst ==
  /\ retire = "signal"
  /\ retire' = "target"
  /\ target' = FALSE
  /\ UNCHANGED <<signal, old, checkpoint, stopped, proc, raiser, window, mind, crashes, world, hist>>

(* ... and the signal goes first, the target mode after it. *)
RetireSignal ==
  /\ retire = "signal"
  /\ retire' = "target"
  /\ signal' = "none" /\ old' = FALSE
  /\ UNCHANGED <<target, checkpoint, stopped, proc, raiser, window, mind, crashes, world, hist>>

RetireTarget ==
  /\ retire = "target"
  /\ retire' = "no" /\ proc' = "up"
  /\ target' = FALSE
  /\ UNCHANGED <<signal, old, checkpoint, stopped, raiser, window, mind, crashes, world, hist>>

(* Mutant of Boot: nothing is retired at startup. *)
BootLeavesAsks ==
  /\ proc = "down" /\ proc' = "up"
  /\ UNCHANGED <<files, raiser, retire, window, mind, crashes, world, hist>>

(* retire_expired_sidecar_stop, before the first request: only a signed raise whose
   grace has run out.                                                               *)
Boot ==
  /\ proc = "down"
  /\ IF signal = "signed" /\ old
     THEN proc' = "boot" /\ retire' = "check"
     ELSE proc' = "up" /\ UNCHANGED retire
  /\ UNCHANGED <<files, raiser, window, mind, crashes, world, hist>>

(* The process ends anywhere, and the turn the mind was in with it. *)
Crash ==
  /\ proc # "down" /\ crashes < MaxCrash
  /\ proc' = "down" /\ crashes' = crashes + 1
  /\ raiser' = [r \in Raisers |-> "idle"] /\ retire' = "no" /\ window' = "none"
  /\ mind' = IF mind \in Stopping THEN "cut" ELSE mind
  /\ UNCHANGED <<files, world, hist>>

-----------------------------------------------------------------------------
(* The mind's graceful stop. *)
Busy == retire # "no" \/ \E r \in Raisers : raiser[r] \notin {"idle", "call", "raised", "done"}

MindStep(from, to) ==
  /\ proc = "up" /\ (paced => ~Busy)
  /\ mind = from /\ mind' = to
  /\ UNCHANGED <<proc, raiser, retire, window, crashes, world, raises>>

Begin ==     \* GS-0
  /\ signal # "none"
  /\ MindStep("runs", "begun")
  /\ checkpoint' = TRUE
  /\ UNCHANGED <<signal, old, target, stopped, consumed>>

Consume ==   \* D3
  /\ MindStep("begun", "asked")
  /\ signal' = "none" /\ old' = FALSE /\ consumed' = TRUE
  /\ UNCHANGED <<target, checkpoint, stopped>>

Apply ==     \* D7: the target mode is read with no fallback, and applied
  /\ IF target THEN MindStep("asked", "applied") /\ stopped' = TRUE
               ELSE MindStep("asked", "crashed") /\ UNCHANGED stopped
  /\ UNCHANGED <<signal, old, target, checkpoint, consumed>>

ClearTarget ==
  /\ MindStep("applied", "cleared")
  /\ target' = FALSE
  /\ UNCHANGED <<signal, old, checkpoint, stopped, consumed>>

SignOff ==   \* D7.1
  /\ MindStep("cleared", "stopped")
  /\ checkpoint' = FALSE
  /\ UNCHANGED <<signal, old, target, stopped, consumed>>

-----------------------------------------------------------------------------
Raise(r) == \/ RaiseTest(r) \/ RaiseMode(r) \/ RaiseSet(r) \/ RaiseVerify(r)
            \/ RaiseRevert(r) \/ RaiseSign(r) \/ OpenWindow(r)

Retire == RetireCheck \/ RetireSignal \/ RetireTarget

Mind == Begin \/ Consume \/ Apply \/ ClearTarget \/ SignOff

Next == \/ \E r \in Raisers : BeginStop(r) \/ Raise(r)
        \/ Age \/ WindowCloses \/ QuietEnds \/ Retire
        \/ Boot \/ Crash \/ Mind

Spec == Init /\ [][Next]_vars

(* A raise goes on, a window runs out, a retirement goes on and a supervisor restarts
   the process; the mind may never read its stop.                                     *)
FairSpec == Spec /\ \A r \in Raisers : WF_vars(Raise(r))
                 /\ WF_vars(Age) /\ WF_vars(WindowCloses) /\ WF_vars(Retire) /\ WF_vars(Boot)

-----------------------------------------------------------------------------
(* framework_stop_complete. *)
(* Mutant: the checkpoint is not asked. *)
CompleteUnchecked == stopped /\ signal = "none" /\ ~target

Complete == stopped /\ signal = "none" /\ ~target /\ ~checkpoint

(* An ask on disk always has its target mode beside it, whatever step the process ends at
   and wherever the mind is (the stop handler reads the mode with no fallback), as long as
   no setter is killed at its timeout after it wrote the marker.                           *)
SignalHasTarget == "timeout" \notin faults /\ signal # "none" => target

(* A mind that began its stop finds the target mode when it comes to apply it, if it makes
   no step between two file calls of the app.                                              *)
MindKeepsItsTarget == paced /\ "timeout" \notin faults => mind # "crashed"

(* The target mode outlives whatever still needs it: the ask on disk and, once the ask is
   gone, the mind that answers it; whoever raises, retires, dies or boots meanwhile.       *)
TargetOutlivesNeed == SignalHasTarget /\ MindKeepsItsTarget

(* Inside its window the wait ends only on a stop the mind has finished, whatever mode
   an earlier stop left behind.                                                        *)
CompleteMeansDone == window = "open" /\ Complete => mind = "stopped"

(* "It must exist only while a stop is real": with no call in progress, a target mode
   stands beside an ask or is a begun stop's.                                         *)
TargetMeansStop ==
  paced /\ target /\ crashes = 0 /\ ~Busy => signal # "none" \/ mind \in Stopping

(* "A consumed ask stays consumed", and a second caller is "still one stop", as long as
   nobody raises again.                                                                  *)
ConsumedStaysConsumed == consumed /\ crashes = 0 => signal = "none"

(* So neither file of a raise says more than the mind has to do: not a target mode without
   a stop, and not an ask the mind has already had.                                        *)
FilesMeanAStop == TargetMeansStop /\ ConsumedStaysConsumed

(* A signed ask older than the grace whose window closed does not stay for the next boot,
   even when the process ends before or while it retires it, unless a mind began to
   answer it.  (An unsigned one, or one a quiet window gave up early, the next process
   finds and leaves to the mind.)                                                         *)
SpentIsRetired == (window = "spent" /\ old) ~> (signal = "none" \/ checkpoint)
=============================================================================
