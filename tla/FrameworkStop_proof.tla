------------------------ MODULE FrameworkStop_proof -------------------------
(***************************************************************************)
(* Proofs about FrameworkStop for any number of callers, raises and ends   *)
(* of the process.                                                         *)
(*                                                                         *)
(* TypeCorrect, CompleteMeansDoneAlways, TargetMeansStopAlways and         *)
(* SpentIsWatchedAlways hold however often a stop is raised.  The Once     *)
(* theorems are about a stop that is raised once (OneRaise): the ask is on *)
(* disk from its setter until a mind consumes it or it is retired, and     *)
(* nobody writes its files in between.                                     *)
(***************************************************************************)
EXTENDS FrameworkStop, TLAPS

USE BoundAssumption

-----------------------------------------------------------------------------
(* Who is where: a process that is not up has no call in flight, and nobody raises while
   the pair is being retired.                                                            *)
PlaceInv ==
  /\ proc # "up" => window = "none" /\ \A r \in Raisers : raiser[r] = "idle"
  /\ retire # "no" => NoneInFlight
  /\ proc = "down" => retire = "no"

TypeInv == TypeOK /\ PlaceInv

LEMMA InitType == Init => TypeInv
<1> SUFFICES ASSUME Init PROVE TypeInv
  OBVIOUS
<1>1. /\ old \in BOOLEAN /\ target \in BOOLEAN /\ checkpoint \in BOOLEAN
      /\ stopped \in BOOLEAN /\ paced \in BOOLEAN /\ consumed \in BOOLEAN
  BY Zenon DEF Init
<1>2. signal \in {"none", "bare", "signed"} /\ mind \in MindPC /\ raiser \in [Raisers -> RaisePC]
  BY DEF Init, MindPC, RaisePC
<1>3. crashes \in 0..MaxCrash /\ raises \in 0..MaxRaise
  BY DEF Init
<1>4. proc = "up" /\ retire = "no" /\ window = "none" /\ faults \subseteq {"refuse", "timeout"}
  BY DEF Init
<1>5. TypeOK
  BY <1>1, <1>2, <1>3, <1>4 DEF TypeOK, RetirePC
<1> QED
  BY <1>4, <1>5 DEF TypeInv, PlaceInv

LEMMA NextType == TypeInv /\ [Next]_vars => TypeInv'
<1> SUFFICES ASSUME TypeInv, [Next]_vars PROVE TypeInv'
  OBVIOUS
<1> USE DEF TypeInv, TypeOK, PlaceInv, RaisePC, RetirePC, MindPC, Stopping, NoneInFlight,
            files, hist, world, Step
<1>1. ASSUME NEW r \in Raisers, BeginStop(r) PROVE TypeInv'
  BY <1>1 DEF BeginStop
<1>2. ASSUME NEW r \in Raisers, RaiseTest(r) PROVE TypeInv'
  BY <1>2 DEF RaiseTest
<1>3. ASSUME NEW r \in Raisers, RaiseMode(r) PROVE TypeInv'
  BY <1>3 DEF RaiseMode
<1>4. ASSUME NEW r \in Raisers, RaiseSet(r) PROVE TypeInv'
  BY <1>4 DEF RaiseSet
<1>5. ASSUME NEW r \in Raisers, RaiseVerify(r) PROVE TypeInv'
  BY <1>5 DEF RaiseVerify
<1>6. ASSUME NEW r \in Raisers, RaiseRevert(r) PROVE TypeInv'
  <2>1. target' \in BOOLEAN
    BY <1>6, Zenon DEF RaiseRevert
  <2> QED
    BY <1>6, <2>1 DEF RaiseRevert
<1>7. ASSUME NEW r \in Raisers, RaiseSign(r) PROVE TypeInv'
  <2>1. old' \in BOOLEAN
    BY <1>7, Zenon DEF RaiseSign
  <2> QED
    BY <1>7, <2>1 DEF RaiseSign
<1>8. ASSUME NEW r \in Raisers, OpenWindow(r) PROVE TypeInv'
  BY <1>8 DEF OpenWindow
<1>9. CASE Age
  BY <1>9 DEF Age
<1>10. CASE WindowCloses \/ QuietEnds
  <2>1. window' = "spent" /\ retire' = "check" /\ proc' = proc /\ proc = "up" /\ raiser' = raiser
    BY <1>10 DEF WindowCloses, QuietEnds
  <2>2. NoneInFlight'
    BY <1>10 DEF WindowCloses, QuietEnds
  <2>3. UNCHANGED <<files, mind, crashes, world, hist>>
    BY <1>10 DEF WindowCloses, QuietEnds
  <2> QED
    BY <2>1, <2>2, <2>3
<1>11. CASE Retire
  <2>1. CASE RetireCheck
    BY <2>1 DEF RetireCheck
  <2>2. CASE RetireSignal
    <3>1. old' \in BOOLEAN
      BY <2>2, Zenon DEF RetireSignal
    <3> QED
      BY <2>2, <3>1 DEF RetireSignal
  <2>3. CASE RetireTarget
    <3>1. target' \in BOOLEAN
      BY <2>3, Zenon DEF RetireTarget
    <3> QED
      BY <2>3, <3>1 DEF RetireTarget
  <2> QED
    BY <1>11, <2>1, <2>2, <2>3 DEF Retire
<1>12. CASE Boot
  BY <1>12 DEF Boot
<1>13. CASE Crash
  BY <1>13 DEF Crash
<1>14. CASE Mind
  <2>1. CASE Begin
    BY <2>1 DEF Begin, MindStep
  <2>2. CASE Consume
    <3>1. old' \in BOOLEAN
      BY <2>2, Zenon DEF Consume
    <3> QED
      BY <2>2, <3>1 DEF Consume, MindStep
  <2>3. CASE Apply
    <3>1. stopped' \in BOOLEAN
      BY <2>3, Zenon DEF Apply
    <3>2. mind' \in MindPC
      BY <2>3 DEF Apply, MindStep
    <3>3. UNCHANGED <<signal, old, target, checkpoint, consumed, proc, raiser, retire, window,
                      crashes, world, raises>>
      BY <2>3 DEF Apply, MindStep
    <3> QED
      BY <3>1, <3>2, <3>3
  <2>4. CASE ClearTarget
    <3>1. target' \in BOOLEAN
      BY <2>4, Zenon DEF ClearTarget
    <3> QED
      BY <2>4, <3>1 DEF ClearTarget, MindStep
  <2>5. CASE SignOff
    <3>1. checkpoint' \in BOOLEAN
      BY <2>5, Zenon DEF SignOff
    <3> QED
      BY <2>5, <3>1 DEF SignOff, MindStep
  <2> QED
    BY <1>14, <2>1, <2>2, <2>3, <2>4, <2>5 DEF Mind
<1>15. CASE UNCHANGED vars
  BY <1>15 DEF vars
<1> QED
  BY <1>1, <1>2, <1>3, <1>4, <1>5, <1>6, <1>7, <1>8, <1>9, <1>10, <1>11, <1>12, <1>13,
     <1>14, <1>15 DEF Next, Raise

(* Every variable keeps its type, however many callers raise the stop and however often
   the process ends.                                                                    *)
THEOREM TypeCorrect == Spec => []TypeOK
<1>1. TypeInv => TypeOK
  BY DEF TypeInv
<1> QED
  BY InitType, NextType, <1>1, PTL DEF Spec

-----------------------------------------------------------------------------
(* A stop the mind has begun keeps its checkpoint until it signs off. *)
CheckpointInv == mind \in Stopping => checkpoint

(* What a caller that found or made an ask may still believe: it is on disk, a mind
   answers it, or a mind has answered it.                                           *)
Answered == signal # "none" \/ checkpoint \/ mind = "stopped"

AnsweredInv ==
  /\ window = "open" => Answered
  /\ \A r \in Raisers : raiser[r] \in {"sign", "raised"} => Answered

DoneInv == TypeInv /\ CheckpointInv /\ AnsweredInv

LEMMA InitDone == Init => DoneInv
<1> SUFFICES ASSUME Init PROVE DoneInv
  OBVIOUS
<1>1. mind \notin Stopping
  BY DEF Init, Stopping
<1>2. window = "none" /\ \A r \in Raisers : raiser[r] = "idle"
  BY DEF Init
<1> QED
  BY <1>1, <1>2, InitType DEF DoneInv, CheckpointInv, AnsweredInv

(* The step of a caller, of the retirement, of the process and of the mind, in turn. *)
LEMMA NextDone == DoneInv /\ [Next]_vars => DoneInv'
<1> SUFFICES ASSUME DoneInv, [Next]_vars PROVE (CheckpointInv /\ AnsweredInv)'
  BY NextType DEF DoneInv
<1>0. TypeOK /\ PlaceInv /\ raiser \in [Raisers -> RaisePC]
  BY DEF DoneInv, TypeInv, TypeOK
<1>a. CheckpointInv /\ AnsweredInv
  BY DEF DoneInv
<1> USE DEF CheckpointInv, AnsweredInv, Answered, Stopping
<1>1. ASSUME NEW r \in Raisers, BeginStop(r) PROVE (CheckpointInv /\ AnsweredInv)'
  BY <1>0, <1>a, <1>1 DEF BeginStop, Step, files
<1>2. ASSUME NEW r \in Raisers, RaiseTest(r) PROVE (CheckpointInv /\ AnsweredInv)'
  BY <1>0, <1>a, <1>2 DEF RaiseTest, Step, files
<1>3. ASSUME NEW r \in Raisers, RaiseMode(r) PROVE (CheckpointInv /\ AnsweredInv)'
  BY <1>0, <1>a, <1>3 DEF RaiseMode, Step
<1>4. ASSUME NEW r \in Raisers, RaiseSet(r) PROVE (CheckpointInv /\ AnsweredInv)'
  BY <1>0, <1>a, <1>4 DEF RaiseSet, Step
<1>5. ASSUME NEW r \in Raisers, RaiseVerify(r) PROVE (CheckpointInv /\ AnsweredInv)'
  BY <1>0, <1>a, <1>5 DEF RaiseVerify, Step, files
<1>6. ASSUME NEW r \in Raisers, RaiseRevert(r) PROVE (CheckpointInv /\ AnsweredInv)'
  BY <1>0, <1>a, <1>6 DEF RaiseRevert, Step
<1>7. ASSUME NEW r \in Raisers, RaiseSign(r) PROVE (CheckpointInv /\ AnsweredInv)'
  BY <1>0, <1>a, <1>7 DEF RaiseSign, Step
<1>8. ASSUME NEW r \in Raisers, OpenWindow(r) PROVE (CheckpointInv /\ AnsweredInv)'
  BY <1>0, <1>a, <1>8 DEF OpenWindow, Step, files
<1>9. CASE Age
  BY <1>a, <1>9 DEF Age
<1>10. CASE WindowCloses \/ QuietEnds
  BY <1>a, <1>10 DEF WindowCloses, QuietEnds, files
<1>11. CASE Retire
  <2>1. CASE RetireCheck
    BY <1>a, <2>1 DEF RetireCheck, files
  <2>2. CASE RetireSignal
    <3>1. window # "open" /\ \A r \in Raisers : raiser[r] \in {"idle", "done"}
      BY <1>0, <2>2 DEF RetireSignal, TypeOK, PlaceInv, NoneInFlight
    <3> QED
      BY <1>a, <2>2, <3>1 DEF RetireSignal
  <2>3. CASE RetireTarget
    BY <1>a, <2>3 DEF RetireTarget
  <2> QED
    BY <1>11, <2>1, <2>2, <2>3 DEF Retire
<1>12. CASE Boot
  BY <1>a, <1>12 DEF Boot, files
<1>13. CASE Crash
  BY <1>a, <1>13 DEF Crash, files
<1>14. CASE Mind
  BY <1>a, <1>14 DEF Mind, Begin, Consume, Apply, ClearTarget, SignOff, MindStep
<1>15. CASE UNCHANGED vars
  BY <1>a, <1>15 DEF vars, files
<1> QED
  BY <1>1, <1>2, <1>3, <1>4, <1>5, <1>6, <1>7, <1>8, <1>9, <1>10, <1>11, <1>12, <1>13,
     <1>14, <1>15 DEF Next, Raise

(* Inside its window the app takes a stop for complete only when the mind has signed off,
   whatever an earlier stop left in agent-mode, however the callers, the mind, the setter
   and the ends of the process interleave.                                              *)
THEOREM CompleteMeansDoneAlways == Spec => []CompleteMeansDone
<1>1. DoneInv => CompleteMeansDone
  BY DEF DoneInv, AnsweredInv, Answered, CompleteMeansDone, Complete
<1> QED
  BY InitDone, NextDone, <1>1, PTL DEF Spec

-----------------------------------------------------------------------------
(* A target mode stands for something: an ask, a begun stop that has not cleared it, a
   raise that will write the ask or take the mode back, or a retirement about to.      *)
KeptInv ==
  paced =>
    /\ \A r \in Raisers : raiser[r] = "verify" => signal # "none"
    /\ target /\ crashes = 0 =>
         \/ signal # "none" \/ mind \in {"begun", "asked", "applied"} \/ retire = "target"
         \/ \E r \in Raisers : raiser[r] \in {"set", "revert"}

LEMMA InitKept == Init => KeptInv
  BY DEF Init, KeptInv

LEMMA NextKept == TypeInv /\ KeptInv /\ [Next]_vars => KeptInv'
<1> SUFFICES ASSUME TypeInv, KeptInv, [Next]_vars PROVE KeptInv'
  OBVIOUS
<1>0. KeptInv /\ PlaceInv /\ raiser \in [Raisers -> RaisePC] /\ crashes \in Nat
  BY DEF TypeInv, TypeOK
<1> USE DEF KeptInv, PlaceInv, NoneInFlight, Busy
<1>1. ASSUME NEW r \in Raisers, BeginStop(r) PROVE KeptInv'
  BY <1>0, <1>1 DEF BeginStop, Step, world, files, hist
<1>2. ASSUME NEW r \in Raisers, RaiseTest(r) PROVE KeptInv'
  BY <1>0, <1>2 DEF RaiseTest, Step, world, files, hist
<1>3. ASSUME NEW r \in Raisers, RaiseMode(r) PROVE KeptInv'
  BY <1>0, <1>3 DEF RaiseMode, Step, world, hist
<1>4. ASSUME NEW r \in Raisers, RaiseSet(r) PROVE KeptInv'
  BY <1>0, <1>4 DEF RaiseSet, Step, world, hist
<1>5. ASSUME NEW r \in Raisers, RaiseVerify(r) PROVE KeptInv'
  BY <1>0, <1>5 DEF RaiseVerify, Step, world, files, hist
<1>6. ASSUME NEW r \in Raisers, RaiseRevert(r) PROVE KeptInv'
  BY <1>0, <1>6 DEF RaiseRevert, Step, world, hist
<1>7. ASSUME NEW r \in Raisers, RaiseSign(r) PROVE KeptInv'
  BY <1>0, <1>7 DEF RaiseSign, Step, world, hist
<1>8. ASSUME NEW r \in Raisers, OpenWindow(r) PROVE KeptInv'
  BY <1>0, <1>8 DEF OpenWindow, Step, world, files
<1>9. CASE Age
  BY <1>0, <1>9 DEF Age, hist, world
<1>10. CASE WindowCloses \/ QuietEnds
  <2>1. retire = "no"
    BY <1>10 DEF TypeInv, TypeOK, WindowCloses, QuietEnds
  <2> QED
    BY <1>0, <1>10, <2>1 DEF WindowCloses, QuietEnds, files, hist, world
<1>11. CASE Retire
  BY <1>0, <1>11 DEF Retire, RetireCheck, RetireSignal, RetireTarget, files, hist, world
<1>12. CASE Boot
  BY <1>0, <1>12 DEF Boot, files, hist, world
<1>13. CASE Crash
  BY <1>0, <1>13 DEF Crash, files, hist, world
<1>14. CASE Mind
  BY <1>0, <1>14 DEF Mind, Begin, Consume, Apply, ClearTarget, SignOff, MindStep, world
<1>15. CASE UNCHANGED vars
  BY <1>0, <1>15 DEF vars, files, hist, world
<1> QED
  BY <1>1, <1>2, <1>3, <1>4, <1>5, <1>6, <1>7, <1>8, <1>9, <1>10, <1>11, <1>12, <1>13,
     <1>14, <1>15 DEF Next, Raise

(* "It must exist only while a stop is real": outside the calls, and until the process
   ends, a target mode stands beside an ask or belongs to a begun stop, for any number of
   callers and raises.                                                                   *)
THEOREM TargetMeansStopAlways == Spec => []TargetMeansStop
<1>1. KeptInv => TargetMeansStop
  BY DEF KeptInv, TargetMeansStop, Busy, Stopping
<1> QED
  BY InitType, NextType, InitKept, NextKept, <1>1, PTL DEF Spec

-----------------------------------------------------------------------------
(* A stop that is raised once. *)
OneRaise == MaxRaise <= 1

Acting(r) == raiser[r] \in {"mode", "set", "verify", "revert", "sign"}

(* One caller raises; before its setter returns nobody has read an ask, and after the
   mind consumed it there is none.                                                     *)
OnceInv ==
  /\ \A q, r \in Raisers : Acting(q) /\ Acting(r) => q = r
  /\ \A r \in Raisers : Acting(r) => raises # 0
  /\ raises = 0 => signal = "none" /\ ~consumed /\ mind \notin Stopping
  /\ \A r \in Raisers : raiser[r] \in {"mode", "set"} =>
                          signal = "none" /\ ~consumed /\ mind \notin Stopping
  /\ consumed => signal = "none"
  /\ mind \in {"asked", "applied", "cleared"} => consumed

LEMMA InitOnce == Init => OnceInv
  BY DEF Init, OnceInv, Acting, Stopping

LEMMA NextOnce == OneRaise /\ TypeInv /\ OnceInv /\ [Next]_vars => OnceInv'
<1> SUFFICES ASSUME OneRaise, TypeInv, OnceInv, [Next]_vars PROVE OnceInv'
  OBVIOUS
<1>0. OnceInv /\ raiser \in [Raisers -> RaisePC] /\ raises \in Nat /\ MaxRaise \in Nat /\ MaxRaise <= 1
  BY DEF TypeInv, TypeOK, OneRaise
<1> USE DEF OnceInv, Acting, Stopping
<1>1. ASSUME NEW r \in Raisers, BeginStop(r) PROVE OnceInv'
  BY <1>0, <1>1 DEF BeginStop, Step, world, files, hist
<1>2. ASSUME NEW r \in Raisers, RaiseTest(r) PROVE OnceInv'
  BY <1>0, <1>2 DEF RaiseTest, Step, world, files, hist
<1>3. ASSUME NEW r \in Raisers, RaiseMode(r) PROVE OnceInv'
  BY <1>0, <1>3 DEF RaiseMode, Step, world, hist
<1>4. ASSUME NEW r \in Raisers, RaiseSet(r) PROVE OnceInv'
  BY <1>0, <1>4 DEF RaiseSet, Step, world, hist
<1>5. ASSUME NEW r \in Raisers, RaiseVerify(r) PROVE OnceInv'
  BY <1>0, <1>5 DEF RaiseVerify, Step, world, files, hist
<1>6. ASSUME NEW r \in Raisers, RaiseRevert(r) PROVE OnceInv'
  BY <1>0, <1>6 DEF RaiseRevert, Step, world, hist
<1>7. ASSUME NEW r \in Raisers, RaiseSign(r) PROVE OnceInv'
  BY <1>0, <1>7 DEF RaiseSign, Step, world, hist
<1>8. ASSUME NEW r \in Raisers, OpenWindow(r) PROVE OnceInv'
  BY <1>0, <1>8 DEF OpenWindow, Step, world, files, hist
<1>9. CASE Age
  BY <1>0, <1>9 DEF Age, hist, world
<1>10. CASE WindowCloses \/ QuietEnds
  BY <1>0, <1>10 DEF WindowCloses, QuietEnds, files, hist, world
<1>11. CASE Retire
  BY <1>0, <1>11 DEF Retire, RetireCheck, RetireSignal, RetireTarget, files, hist, world
<1>12. CASE Boot
  BY <1>0, <1>12 DEF Boot, files, hist, world
<1>13. CASE Crash
  BY <1>0, <1>13 DEF Crash, files, hist, world
<1>14. CASE Mind
  BY <1>0, <1>14 DEF Mind, Begin, Consume, Apply, ClearTarget, SignOff, MindStep, world
<1>15. CASE UNCHANGED vars
  BY <1>0, <1>15 DEF vars, files, hist, world
<1> QED
  BY <1>1, <1>2, <1>3, <1>4, <1>5, <1>6, <1>7, <1>8, <1>9, <1>10, <1>11, <1>12, <1>13,
     <1>14, <1>15 DEF Next, Raise

(* The ask has its target mode from before it is written until after it is gone. *)
TargetInv ==
  "timeout" \notin faults =>
    /\ signal # "none" => target
    /\ \A r \in Raisers : raiser[r] = "set" => target
    /\ \A r \in Raisers : raiser[r] = "revert" => signal = "none"
    /\ retire = "target" => signal = "none"

LEMMA InitTarget == Init => TargetInv
  BY DEF Init, TargetInv

LEMMA NextTarget == TypeInv /\ OnceInv /\ TargetInv /\ [Next]_vars => TargetInv'
<1> SUFFICES ASSUME TypeInv, OnceInv, TargetInv, [Next]_vars PROVE TargetInv'
  OBVIOUS
<1>0. OnceInv /\ TargetInv /\ PlaceInv /\ raiser \in [Raisers -> RaisePC]
  BY DEF TypeInv, TypeOK
<1> USE DEF OnceInv, TargetInv, PlaceInv, Acting, Stopping, NoneInFlight
<1>1. ASSUME NEW r \in Raisers, BeginStop(r) PROVE TargetInv'
  BY <1>0, <1>1 DEF BeginStop, Step, world, files, hist
<1>2. ASSUME NEW r \in Raisers, RaiseTest(r) PROVE TargetInv'
  BY <1>0, <1>2 DEF RaiseTest, Step, world, files, hist
<1>3. ASSUME NEW r \in Raisers, RaiseMode(r) PROVE TargetInv'
  BY <1>0, <1>3 DEF RaiseMode, Step, world, hist
<1>4. ASSUME NEW r \in Raisers, RaiseSet(r) PROVE TargetInv'
  BY <1>0, <1>4 DEF RaiseSet, Step, world, hist
<1>5. ASSUME NEW r \in Raisers, RaiseVerify(r) PROVE TargetInv'
  BY <1>0, <1>5 DEF RaiseVerify, Step, world, files, hist
<1>6. ASSUME NEW r \in Raisers, RaiseRevert(r) PROVE TargetInv'
  BY <1>0, <1>6 DEF RaiseRevert, Step, world, hist
<1>7. ASSUME NEW r \in Raisers, RaiseSign(r) PROVE TargetInv'
  BY <1>0, <1>7 DEF RaiseSign, Step, world, hist
<1>8. ASSUME NEW r \in Raisers, OpenWindow(r) PROVE TargetInv'
  BY <1>0, <1>8 DEF OpenWindow, Step, world, files
<1>9. CASE Age
  BY <1>0, <1>9 DEF Age, hist, world
<1>10. CASE WindowCloses \/ QuietEnds
  BY <1>0, <1>10 DEF WindowCloses, QuietEnds, files, hist, world
<1>11. CASE Retire
  BY <1>0, <1>11 DEF Retire, RetireCheck, RetireSignal, RetireTarget, files, hist, world
<1>12. CASE Boot
  BY <1>0, <1>12 DEF Boot, files, hist, world
<1>13. CASE Crash
  BY <1>0, <1>13 DEF Crash, files, hist, world
<1>14. CASE Mind
  BY <1>0, <1>14 DEF Mind, Begin, Consume, Apply, ClearTarget, SignOff, MindStep, world
<1>15. CASE UNCHANGED vars
  BY <1>0, <1>15 DEF vars, files, hist, world
<1> QED
  BY <1>1, <1>2, <1>3, <1>4, <1>5, <1>6, <1>7, <1>8, <1>9, <1>10, <1>11, <1>12, <1>13,
     <1>14, <1>15 DEF Next, Raise

(* A mind that makes no step between two calls of the app keeps the target mode it has
   begun to need.                                                                       *)
MindInv ==
  paced /\ "timeout" \notin faults =>
    /\ mind # "crashed"
    /\ mind \in {"begun", "asked"} => target
    /\ \A r \in Raisers : raiser[r] = "verify" => signal # "none"
    /\ \A r \in Raisers : raiser[r] = "revert" => mind \notin Stopping
    /\ retire \in {"signal", "target"} => mind \notin Stopping

LEMMA InitMind == Init => MindInv
  BY DEF Init, MindInv, Stopping

LEMMA NextMind == DoneInv /\ OnceInv /\ TargetInv /\ MindInv /\ [Next]_vars => MindInv'
<1> SUFFICES ASSUME DoneInv, OnceInv, TargetInv, MindInv, [Next]_vars PROVE MindInv'
  OBVIOUS
<1>0. /\ OnceInv /\ TargetInv /\ MindInv /\ PlaceInv /\ CheckpointInv
      /\ raiser \in [Raisers -> RaisePC]
  BY DEF DoneInv, TypeInv, TypeOK
<1> USE DEF OnceInv, TargetInv, MindInv, PlaceInv, CheckpointInv, Acting, Stopping, NoneInFlight,
            Busy
<1>1. ASSUME NEW r \in Raisers, BeginStop(r) PROVE MindInv'
  BY <1>0, <1>1 DEF BeginStop, Step, world, files, hist
<1>2. ASSUME NEW r \in Raisers, RaiseTest(r) PROVE MindInv'
  BY <1>0, <1>2 DEF RaiseTest, Step, world, files, hist
<1>3. ASSUME NEW r \in Raisers, RaiseMode(r) PROVE MindInv'
  BY <1>0, <1>3 DEF RaiseMode, Step, world, hist
<1>4. ASSUME NEW r \in Raisers, RaiseSet(r) PROVE MindInv'
  BY <1>0, <1>4 DEF RaiseSet, Step, world, hist
<1>5. ASSUME NEW r \in Raisers, RaiseVerify(r) PROVE MindInv'
  BY <1>0, <1>5 DEF RaiseVerify, Step, world, files, hist
<1>6. ASSUME NEW r \in Raisers, RaiseRevert(r) PROVE MindInv'
  BY <1>0, <1>6 DEF RaiseRevert, Step, world, hist
<1>7. ASSUME NEW r \in Raisers, RaiseSign(r) PROVE MindInv'
  BY <1>0, <1>7 DEF RaiseSign, Step, world, hist
<1>8. ASSUME NEW r \in Raisers, OpenWindow(r) PROVE MindInv'
  BY <1>0, <1>8 DEF OpenWindow, Step, world, files
<1>9. CASE Age
  BY <1>0, <1>9 DEF Age, hist, world
<1>10. CASE WindowCloses \/ QuietEnds
  BY <1>0, <1>10 DEF WindowCloses, QuietEnds, files, hist, world
<1>11. CASE Retire
  BY <1>0, <1>11 DEF Retire, RetireCheck, RetireSignal, RetireTarget, files, hist, world
<1>12. CASE Boot
  BY <1>0, <1>12 DEF Boot, files, hist, world
<1>13. CASE Crash
  BY <1>0, <1>13 DEF Crash, files, hist, world
<1>14. CASE Mind
  BY <1>0, <1>14 DEF Mind, Begin, Consume, Apply, ClearTarget, SignOff, MindStep, world
<1>15. CASE UNCHANGED vars
  BY <1>0, <1>15 DEF vars, files, hist, world
<1> QED
  BY <1>1, <1>2, <1>3, <1>4, <1>5, <1>6, <1>7, <1>8, <1>9, <1>10, <1>11, <1>12, <1>13,
     <1>14, <1>15 DEF Next, Raise

(* A stop that is raised once and consumed is not asked for again. *)
THEOREM OnceConsumed == OneRaise => (Spec => []ConsumedStaysConsumed)
<1> SUFFICES ASSUME OneRaise PROVE Spec => []ConsumedStaysConsumed
  OBVIOUS
<1>1. OnceInv => ConsumedStaysConsumed
  BY DEF OnceInv, ConsumedStaysConsumed
<1>2. TypeInv /\ OnceInv /\ [Next]_vars => OnceInv'
  BY NextOnce
<1> QED
  BY InitType, NextType, InitOnce, <1>1, <1>2, PTL DEF Spec

(* Together: no file of a stop raised once says more than the mind has to do. *)
THEOREM OnceFilesMeanAStop == OneRaise => (Spec => []FilesMeanAStop)
<1>1. TargetMeansStop /\ ConsumedStaysConsumed => FilesMeanAStop
  BY DEF FilesMeanAStop
<1> QED
  BY <1>1, TargetMeansStopAlways, OnceConsumed, PTL

(* The ask of a stop that is raised once always has its target mode beside it, at whatever
   step the process ends, unless the setter may be killed at its timeout.                 *)
THEOREM OnceSignalHasTarget == OneRaise => (Spec => []SignalHasTarget)
<1> SUFFICES ASSUME OneRaise PROVE Spec => []SignalHasTarget
  OBVIOUS
<1>1. TargetInv => SignalHasTarget
  BY DEF TargetInv, SignalHasTarget
<1>2. TypeInv /\ OnceInv /\ [Next]_vars => OnceInv'
  BY NextOnce
<1> QED
  BY InitType, NextType, InitOnce, InitTarget, NextTarget, <1>1, <1>2, PTL DEF Spec

(* ... and the mind that answers it finds the mode when it comes to apply it. *)
THEOREM OnceMindKeepsItsTarget == OneRaise => (Spec => []MindKeepsItsTarget)
<1> SUFFICES ASSUME OneRaise PROVE Spec => []MindKeepsItsTarget
  OBVIOUS
<1>1. MindInv => MindKeepsItsTarget
  BY DEF MindInv, MindKeepsItsTarget
<1>2. TypeInv /\ OnceInv /\ [Next]_vars => OnceInv'
  BY NextOnce
<1> QED
  BY InitType, NextType, InitOnce, InitTarget, NextTarget, InitDone, NextDone, InitMind,
     NextMind, <1>1, <1>2, PTL DEF Spec

(* Together: the target mode of a stop raised once is there for the ask and for the mind. *)
THEOREM OnceTargetOutlivesNeed == OneRaise => (Spec => []TargetOutlivesNeed)
<1>1. SignalHasTarget /\ MindKeepsItsTarget => TargetOutlivesNeed
  BY DEF TargetOutlivesNeed
<1> QED
  BY OnceSignalHasTarget, OnceMindKeepsItsTarget, <1>1, PTL

-----------------------------------------------------------------------------
(* The safety core of SpentIsRetired: who answers for an ask whose grace is over. *)
Spent == signal = "signed" /\ old /\ ~checkpoint
Watched == retire \in {"check", "signal"} \/ proc = "down"

(* When the window closes on an ask nobody has begun to answer, the retirement is under way, or
   the process is down and the next boot will look, unless the mind has consumed an ask before
   (one raised again after that is left: its stop's checkpoint hid it from the retirement).   *)
SpentIsWatched == window = "spent" /\ Spent => Watched \/ consumed

(* ... and it stays so over any end of the process, until the ask is gone or a mind begins. *)
SpentStaysWatched == [][Spent /\ Watched => (Spent /\ Watched)' \/ signal' = "none" \/ checkpoint']_vars

WatchInv ==
  /\ old => signal = "signed"
  /\ window = "spent" => NoneInFlight
  /\ mind \in {"asked", "applied", "cleared"} => consumed
  /\ window = "spent" /\ signal = "signed" /\ ~checkpoint => Watched \/ consumed

LEMMA InitWatch == Init => WatchInv
BY DEF Init, WatchInv

LEMMA NextWatch == DoneInv /\ WatchInv /\ [Next]_vars => WatchInv'
<1> SUFFICES ASSUME DoneInv, WatchInv, [Next]_vars PROVE WatchInv'
  OBVIOUS
<1>0. PlaceInv /\ WatchInv /\ raiser \in [Raisers -> RaisePC]
  BY DEF DoneInv, TypeInv, TypeOK
<1> USE DEF WatchInv, Watched, NoneInFlight, files, hist, world
<1>1. ASSUME NEW r \in Raisers, BeginStop(r) \/ Raise(r) PROVE WatchInv'
  <2>1. window # "spent"
    BY <1>0, <1>1 DEF BeginStop, Raise, RaiseTest, RaiseMode, RaiseSet, RaiseVerify, RaiseRevert, RaiseSign,
                      OpenWindow, Step
  <2>2. window' # "spent" /\ mind' = mind /\ consumed' = consumed
    BY <1>1, <2>1 DEF BeginStop, Raise, RaiseTest, RaiseMode, RaiseSet, RaiseVerify, RaiseRevert, RaiseSign,
                      OpenWindow
  <2>3. old' => signal' = "signed"
    BY <1>0, <1>1 DEF BeginStop, Raise, RaiseTest, RaiseMode, RaiseSet, RaiseVerify, RaiseRevert, RaiseSign,
                      OpenWindow
  <2> QED
    BY <1>0, <2>2, <2>3
<1>2. CASE Age
  BY <1>0, <1>2 DEF Age
<1>3. CASE WindowCloses \/ QuietEnds
  BY <1>0, <1>3 DEF WindowCloses, QuietEnds
<1>4. CASE Retire
  BY <1>0, <1>4 DEF PlaceInv, Retire, RetireCheck, RetireSignal, RetireTarget
<1>5. CASE Boot \/ Crash
  BY <1>0, <1>5 DEF PlaceInv, Boot, Crash, Stopping
<1>6. CASE Mind
  BY <1>0, <1>6 DEF Mind, Begin, Consume, Apply, ClearTarget, SignOff, MindStep
<1>7. CASE UNCHANGED vars
  BY <1>0, <1>7 DEF vars
<1> QED
  BY <1>1, <1>2, <1>3, <1>4, <1>5, <1>6, <1>7 DEF Next

LEMMA StepWatched ==
  ASSUME DoneInv, Next, Spent, Watched
  PROVE  (Spent /\ Watched)' \/ signal' = "none" \/ checkpoint'
<1>0. PlaceInv /\ CheckpointInv
  BY DEF DoneInv, TypeInv
<1> USE DEF Spent, Watched, NoneInFlight, PlaceInv, files
<1>1. ASSUME NEW r \in Raisers, BeginStop(r) \/ Raise(r)
      PROVE  (Spent /\ Watched)' \/ signal' = "none" \/ checkpoint'
  BY <1>0, <1>1 DEF BeginStop, Raise, RaiseTest, RaiseMode, RaiseSet, RaiseVerify, RaiseRevert, RaiseSign,
                    OpenWindow, Step
<1>2. CASE Age \/ WindowCloses \/ QuietEnds
  BY <1>2 DEF Age, WindowCloses, QuietEnds
<1>3. CASE Retire
  BY <1>0, <1>3 DEF Retire, RetireCheck, RetireSignal, RetireTarget
<1>4. CASE Boot \/ Crash
  BY <1>4 DEF Boot, Crash
<1>5. CASE Mind
  BY <1>0, <1>5 DEF CheckpointInv, Stopping, Mind, Begin, Consume, Apply, ClearTarget, SignOff, MindStep
<1> QED
  BY <1>1, <1>2, <1>3, <1>4, <1>5 DEF Next

(* An expired ask is never forgotten between its window and the boot: at each moment somebody is
   about to look, whoever raises, dies or boots meanwhile (SpentIsWatched, SpentStaysWatched).  *)
THEOREM SpentIsWatchedAlways == Spec => []SpentIsWatched /\ SpentStaysWatched
<1>1. Init => DoneInv /\ WatchInv
  BY InitDone, InitWatch
<1>2. DoneInv /\ WatchInv /\ [Next]_vars => (DoneInv /\ WatchInv)'
  BY NextDone, NextWatch
<1>3. WatchInv => SpentIsWatched
  BY DEF WatchInv, SpentIsWatched, Spent
<1>4. DoneInv /\ [Next]_vars
        => [Spent /\ Watched => (Spent /\ Watched)' \/ signal' = "none" \/ checkpoint']_vars
  BY StepWatched
<1> QED
  BY <1>1, <1>2, <1>3, <1>4, PTL DEF Spec, SpentStaysWatched

=============================================================================
