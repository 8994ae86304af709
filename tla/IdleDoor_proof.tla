-------------------------- MODULE IdleDoor_proof --------------------------
(***************************************************************************)
(* Proofs about IdleDoor for any settings, commands, endings of a turn and *)
(* ends of the process: types, the barren guard, and what is safety in the *)
(* promises that exits are reported once and that the loop survives.       *)
(***************************************************************************)
EXTENDS IdleDoor, TLAPS

USE ConfsAssumption, EndingsAssumption, MaxEndsAssumption

-----------------------------------------------------------------------------
(* Type correctness: the wake-up and the turn first, then the commands. *)
NetType ==
  /\ conf \in Confs /\ ends \in 0..MaxEnds /\ up \in BOOLEAN
  /\ slot \in {"none", "sentinel", "prompt"} /\ due \in BOOLEAN /\ (due => slot # "none")
  /\ opened \in BOOLEAN /\ last \in Endings \cup {Failed, None}
  /\ phase \in {"idle", "fired", "turn", "down"} /\ opener \in Openers
  /\ outcome \in {"none", "ran", "failed", "broken"}
  /\ told \in BOOLEAN /\ prev \in Endings \cup {None} /\ row \in Nat

TaskType ==
  /\ proc \in [Tasks -> {"none", "run", "zombie", "gone"}]
  /\ coded \subseteq Tasks /\ child \subseteq Tasks /\ mine \subseteq child
  /\ fore \subseteq conf.tasks /\ (fore # {} => phase = "turn")
  /\ table \subseteq conf.tasks /\ stopped \subseteq table /\ notified \subseteq table
  /\ reports \in [Tasks -> 0..2]

LEMMA InitNetType == Init => NetType
<1> SUFFICES ASSUME Init PROVE NetType
  OBVIOUS
<1>1. up \in BOOLEAN /\ due \in BOOLEAN /\ opened \in BOOLEAN /\ told \in BOOLEAN /\ ~due
  BY Zenon DEF Init
<1> QED
  BY <1>1 DEF Init, NetType, Openers

(* What note_turn_end leaves has its type. *)
LEMMA NoteType ==
  ASSUME NetType, NEW e \in Endings \cup {Failed}, NEW failed \in BOOLEAN, NoteEnd(e, failed)
  PROVE  /\ slot' \in {"none", "sentinel", "prompt"} /\ due' \in BOOLEAN /\ (due' => slot' # "none")
         /\ opened' \in BOOLEAN /\ last' \in Endings \cup {Failed, None}
<1> DEFINE Kept(h) == LeaveNet(h) \/ HoldNet(h) \/ Keeps \/ Holds("none")
<1>1. Left(e) \in {"none", "sentinel", "prompt"}
  BY DEF Left, NetType
<1>2. Kept(Left(e))
  BY DEF NoteEnd
<1>3. due' \in BOOLEAN
  BY <1>2, Zenon DEF LeaveNet, HoldNet, Keeps, Holds, NetType
<1>4. slot' \in {"none", "sentinel", "prompt"} /\ (due' => slot' # "none")
  BY <1>1, <1>2 DEF LeaveNet, HoldNet, Keeps, Holds, NetType
<1>5. opened' \in BOOLEAN
  BY Zenon DEF NoteEnd, NetType
<1>6. last' \in Endings \cup {Failed, None}
  BY DEF NoteEnd, NetType
<1> QED
  BY <1>3, <1>4, <1>5, <1>6

LEMMA NextNetType == NetType /\ [Next]_vars => NetType'
<1> SUFFICES ASSUME NetType, [Next]_vars PROVE NetType'
  OBVIOUS
<1> USE DEF NetType, Openers, net, turn, barren, Holds
<1>1. CASE ComesDue
  <2>1. due' \in BOOLEAN
    BY <1>1, Zenon DEF ComesDue
  <2> QED
    BY <1>1, <2>1 DEF ComesDue
<1>2. CASE Turns
  <2>1. up' \in BOOLEAN
    BY <1>2, Zenon DEF Turns
  <2> QED
    BY <1>2, <2>1 DEF Turns
<1>3. CASE Disarms
  <2>1. due' \in BOOLEAN /\ ~due' /\ told' \in BOOLEAN
    BY <1>3, Zenon DEF Disarms
  <2> QED
    BY <1>3, <2>1 DEF Disarms
<1>4. ASSUME NEW p \in {"sentinel", "prompt"}, Arms(p) PROVE NetType'
  <2>1. due' \in BOOLEAN /\ ~due' /\ told' \in BOOLEAN
    BY <1>4, Zenon DEF Arms
  <2> QED
    BY <1>4, <2>1 DEF Arms
<1>5. CASE Notify
  BY <1>5 DEF Notify
<1>6. CASE TakeWakeup
  <2>1. due' \in BOOLEAN /\ ~due' /\ opened' \in BOOLEAN
    BY <1>6, Zenon DEF TakeWakeup
  <2> QED
    BY <1>6, <2>1 DEF TakeWakeup
<1>7. CASE DoorHolds
  <2>1. due' \in BOOLEAN /\ opened' \in BOOLEAN
    BY <1>7, Zenon DEF DoorHolds, HoldNet, Keeps
  <2>2. slot' \in {"none", "sentinel", "prompt"} /\ (due' => slot' # "none")
    BY <1>7 DEF DoorHolds, HoldNet, Keeps
  <2> QED
    BY <1>7, <2>1, <2>2 DEF DoorHolds
<1>8. CASE Opens \/ Asked
  BY <1>8 DEF Opens, Asked
<1>9. CASE Finish
  <2>1. PICK e \in Endings \cup {Failed}, failed \in BOOLEAN : Ends(e, failed)
    BY <1>9 DEF Finish
  <2>2. NoteEnd(e, failed) /\ (failed \/ e \in Endings)
    BY <2>1 DEF Ends
  <2>3. /\ slot' \in {"none", "sentinel", "prompt"} /\ due' \in BOOLEAN /\ (due' => slot' # "none")
        /\ opened' \in BOOLEAN /\ last' \in Endings \cup {Failed, None}
    BY <2>2, NoteType
  <2>4. prev' \in Endings \cup {None} /\ row' \in Nat
    BY <2>1, <2>2 DEF Ends, Counts
  <2>5. told' \in BOOLEAN
    BY <2>1, Zenon DEF Ends
  <2> QED
    BY <2>1, <2>3, <2>4, <2>5 DEF Ends
<1>10. CASE Breaks \/ Crash \/ Quit \/ Restart \/ Boot
  BY <1>10 DEF Breaks, Crash, Quit, Restart, Boot, Ending
<1>11. ASSUME NEW t \in Tasks, Task(t) PROVE NetType'
  BY <1>11 DEF Task, WritesCode, Exits, Dies, Reap, Start, Waits, Moves, Returns, Stops
<1>12. CASE UNCHANGED vars
  BY <1>12 DEF vars
<1> QED
  BY <1>1, <1>2, <1>3, <1>4, <1>5, <1>6, <1>7, <1>8, <1>9, <1>10, <1>11, <1>12 DEF Next

LEMMA NextTaskType == NetType /\ TaskType /\ [Next]_vars => TaskType'
<1> SUFFICES ASSUME NetType, TaskType, [Next]_vars PROVE TaskType'
  OBVIOUS
<1>0. conf \in Confs /\ conf.tasks \subseteq Tasks
  BY DEF NetType
<1> USE <1>0 DEF TaskType, os, records, turn
<1>1. CASE ComesDue \/ Turns \/ Disarms \/ \E p \in {"sentinel", "prompt"} : Arms(p)
  BY <1>1 DEF ComesDue, Turns, Disarms, Arms
<1>2. CASE Notify
  <2>1. PICK late \in SUBSET Racing :
          /\ notified' = Marked(late \cup Reportable)
          /\ reports' = [t \in Tasks |-> IF t \in late \cup Reportable /\ reports[t] < 2
                                        THEN reports[t] + 1 ELSE reports[t]]
          /\ proc' = [t \in Tasks |-> IF t \in late THEN "gone" ELSE proc[t]]
          /\ coded' = (IF conf.wrapped THEN coded \cup late ELSE coded)
    BY <1>2 DEF Notify
  <2>2. late \subseteq table /\ Reportable \subseteq table
    BY DEF Racing, Reportable
  <2>3. notified' \subseteq table /\ coded' \subseteq Tasks
    BY <2>1, <2>2 DEF Marked
  <2>4. reports' \in [Tasks -> 0..2] /\ proc' \in [Tasks -> {"none", "run", "zombie", "gone"}]
    BY <2>1
  <2> QED
    BY <1>2, <2>3, <2>4 DEF Notify
<1>3. CASE TakeWakeup \/ DoorHolds \/ Opens \/ Asked
  BY <1>3 DEF TakeWakeup, DoorHolds, Opens, Asked
<1>4. CASE Finish
  BY <1>4 DEF Finish, Ends
<1>5. CASE Breaks
  BY <1>5 DEF Breaks, KillFore
<1>6. CASE Crash \/ Restart \/ Boot
  BY <1>6 DEF Crash, Restart, Boot, Ending
<1>7. CASE Quit
  <2>1. coded' \subseteq Tasks
    BY <1>7 DEF Quit
  <2>2. proc' \in [Tasks -> {"none", "run", "zombie", "gone"}] /\ stopped' \subseteq table
    BY <1>7 DEF Quit
  <2> QED
    BY <1>7, <2>1, <2>2 DEF Quit, Ending
<1>8. ASSUME NEW t \in Tasks, Task(t) PROVE TaskType'
  <2>1. CASE WritesCode(t) \/ Exits(t) \/ Dies(t) \/ Reap(t)
    BY <2>1 DEF WritesCode, Exits, Dies, Reap, Ended
  <2>2. CASE Start(t) \/ Waits(t)
    BY <2>2 DEF Start, Waits, Spawned
  <2>3. CASE Moves(t) \/ Returns(t) \/ Stops(t)
    BY <2>3 DEF Moves, Returns, Stops, Ended
  <2> QED
    BY <1>8, <2>1, <2>2, <2>3 DEF Task
<1>9. CASE UNCHANGED vars
  BY <1>9 DEF vars
<1> QED
  BY <1>1, <1>2, <1>3, <1>4, <1>5, <1>6, <1>7, <1>8, <1>9 DEF Next

(* Every variable keeps its type (TypeOK): among the rest, only a turn waits for a command in
   the foreground, and only a recorded command is stopped or reported.                       *)
THEOREM TypeCorrect == Spec => []TypeOK
<1>1. Init => NetType /\ TaskType
  BY InitNetType DEF Init, TaskType
<1>2. NetType /\ TaskType /\ [Next]_vars => (NetType /\ TaskType)'
  BY NextNetType, NextTaskType
<1>3. NetType /\ TaskType => TypeOK
  BY DEF NetType, TaskType, TypeOK
<1> QED
  BY <1>1, <1>2, <1>3, PTL DEF Spec

-----------------------------------------------------------------------------
(* What the guard remembers is what the history saw: while a sentinel is held, or its turn
   runs, the last sentinel turn that ran was one of a row of one, and last_sentinel_outcome is
   its ending.  So a second turn that ends alike finds it, and takes the net down.            *)
Remembered == row >= 1 => row = 1 /\ last = prev

BarrenInv ==
  /\ row \in 0..2 /\ (row >= 1 => prev # None)
  /\ phase \in {"idle", "down", "fired"} /\ slot = "sentinel" => Remembered
  /\ phase \in {"fired", "turn"} /\ opener = "sentinel" => opened /\ Remembered

LEMMA NextBarren == NetType /\ BarrenInv /\ [Next]_vars => BarrenInv'
<1> SUFFICES ASSUME NetType, BarrenInv, [Next]_vars PROVE BarrenInv'
  OBVIOUS
<1> USE DEF BarrenInv, Remembered, net, turn, barren, Holds
<1>1. CASE ComesDue \/ Turns
  BY <1>1 DEF ComesDue, Turns
<1>2. CASE Disarms \/ \E p \in {"sentinel", "prompt"} : Arms(p)
  BY <1>2 DEF Disarms, Arms
<1>3. CASE Notify
  BY <1>3 DEF Notify
<1>4. CASE TakeWakeup
  BY <1>4 DEF TakeWakeup
<1>5. CASE DoorHolds \/ Opens \/ Asked
  BY <1>5 DEF DoorHolds, Opens, Asked
<1>6. CASE Finish
  <2>1. PICK e \in Endings \cup {Failed}, failed \in BOOLEAN : Ends(e, failed)
    BY <1>6 DEF Finish
  <2>2. phase = "turn" /\ phase' = "idle" /\ NoteEnd(e, failed) /\ Counts(e, failed)
    BY <2>1 DEF Ends
  <2>3. CASE opener = "sentinel" /\ ~failed
    <3>1. e \in Endings /\ e # None /\ opened /\ Remembered
      BY <2>1, <2>2, <2>3 DEF Ends
    <3>2. prev' = e /\ row' = (IF prev = e THEN row + 1 ELSE 1)
      BY <2>2, <2>3 DEF Counts
    <3>3. CASE last = e
      <4>1. slot' # "sentinel"
        BY <2>2, <2>3, <3>1, <3>3 DEF NoteEnd, Spared, Repeated, Keeps, Left
      <4> QED
        BY <2>2, <3>1, <3>2, <4>1
    <3>4. CASE last # e
      <4>1. last' = e
        BY <2>2, <2>3, <3>1, <3>4 DEF NoteEnd, Spared, Repeated
      <4>2. row' = 1
        BY <3>1, <3>2, <3>4
      <4> QED
        BY <2>2, <3>1, <3>2, <4>1, <4>2
    <3> QED
      BY <3>3, <3>4
  <2>4. CASE ~(opener = "sentinel" /\ ~failed)
    <3>1. row' = 0
      BY <2>2, <2>4 DEF Counts
    <3> QED
      BY <2>2, <3>1
  <2> QED
    BY <2>3, <2>4
<1>7. CASE Breaks \/ Crash
  BY <1>7 DEF Breaks, Crash
<1>8. CASE Quit \/ Restart \/ Boot
  BY <1>8 DEF Quit, Restart, Boot
<1>9. ASSUME NEW t \in Tasks, Task(t) PROVE BarrenInv'
  BY <1>9 DEF Task, WritesCode, Exits, Dies, Reap, Start, Waits, Moves, Returns, Stops
<1>10. CASE UNCHANGED vars
  BY <1>10 DEF vars
<1> QED
  BY <1>1, <1>2, <1>3, <1>4, <1>5, <1>6, <1>7, <1>8, <1>9, <1>10 DEF Next

(* A loop whose wake-ups come to the same ending is not woken for a third (BarrenEnds). *)
THEOREM BarrenEndsAlways == Spec => []BarrenEnds
<1>1. Init => NetType /\ BarrenInv
  BY InitNetType DEF Init, BarrenInv
<1>2. NetType /\ BarrenInv /\ [Next]_vars => (NetType /\ BarrenInv)'
  BY NextNetType, NextBarren
<1>3. BarrenInv => BarrenEnds
  BY DEF BarrenInv, BarrenEnds
<1> QED
  BY <1>1, <1>2, <1>3, PTL DEF Spec

-----------------------------------------------------------------------------
(* The safety half of ReportedOnce: what was handed to a turn is marked, and the mark outlives
   every end of the process.                                                                 *)
MarkInv == \A t \in Tasks : reports[t] = (IF t \in notified THEN 1 ELSE 0)

LEMMA NextMark == NetType /\ TaskType /\ MarkInv /\ [Next]_vars => MarkInv'
<1> SUFFICES ASSUME NetType, TaskType, MarkInv, [Next]_vars PROVE MarkInv'
  OBVIOUS
<1>1. CASE Notify
  <2>1. PICK late \in SUBSET Racing :
          /\ notified' = Marked(late \cup Reportable)
          /\ reports' = [t \in Tasks |-> IF t \in late \cup Reportable /\ reports[t] < 2
                                        THEN reports[t] + 1 ELSE reports[t]]
    BY <1>1 DEF Notify
  <2>2. ASSUME NEW t \in late \cup Reportable PROVE t \notin notified
    BY <2>2 DEF Racing, Reportable
  <2> QED
    BY <2>1, <2>2 DEF MarkInv, Marked
<1>2. UNCHANGED <<notified, reports>> => MarkInv'
  BY DEF MarkInv
<1>3. ~Notify => UNCHANGED <<notified, reports>>
  <2> SUFFICES ASSUME ~Notify PROVE UNCHANGED <<notified, reports>>
    OBVIOUS
  <2> USE DEF records
  <2>1. CASE ComesDue \/ Turns \/ Disarms \/ \E p \in {"sentinel", "prompt"} : Arms(p)
    BY <2>1 DEF ComesDue, Turns, Disarms, Arms
  <2>2. CASE TakeWakeup \/ DoorHolds \/ Opens \/ Asked \/ Finish
    BY <2>2 DEF TakeWakeup, DoorHolds, Opens, Asked, Finish, Ends
  <2>3. CASE Breaks \/ Crash \/ Quit \/ Restart \/ Boot
    BY <2>3 DEF Breaks, Crash, Quit, Restart, Boot
  <2>4. ASSUME NEW t \in Tasks, Task(t) PROVE UNCHANGED <<notified, reports>>
    BY <2>4 DEF Task, WritesCode, Exits, Dies, Reap, Start, Waits, Moves, Returns, Stops
  <2>5. CASE UNCHANGED vars
    BY <2>5 DEF vars
  <2> QED
    BY <2>1, <2>2, <2>3, <2>4, <2>5 DEF Next
<1> QED
  BY <1>1, <1>2, <1>3

(* However often the process ends and whichever image watches, no command's exit is handed to
   a turn twice (take_notifications).                                                        *)
THEOREM NeverReportedTwice == Spec => [](\A t \in Tasks : reports[t] <= 1)
<1>1. Init => NetType /\ TaskType /\ MarkInv
  BY InitNetType DEF Init, TaskType, MarkInv
<1>2. NetType /\ TaskType /\ MarkInv /\ [Next]_vars => (NetType /\ TaskType /\ MarkInv)'
  BY NextNetType, NextTaskType, NextMark
<1>3. MarkInv => \A t \in Tasks : reports[t] <= 1
  BY DEF MarkInv
<1> QED
  BY <1>1, <1>2, <1>3, PTL DEF Spec

-----------------------------------------------------------------------------
(* The other half of ReportedOnce as far as it is safety: an exit nobody was told of waits. *)
Over(t) == t \in table /\ (t \in coded \/ proc[t] = "gone")

(* A recorded command that is over has been reported once, or the next look of the door finds it. *)
ReportWaits == \A t \in Tasks : Over(t) => reports[t] = 1 \/ (reports[t] = 0 /\ t \in Reportable)

(* It stays over: no cancel, death or restart takes a recorded exit back. *)
OverStays == [][\A t \in Tasks : Over(t) => Over(t)']_vars

(* What the turn waits for is not on record, and what is on record was started. *)
ForeInv == \A t \in Tasks : /\ t \in table \cup fore => proc[t] # "none"
                            /\ t \in fore => t \notin table

LEMMA NextFore == NetType /\ TaskType /\ ForeInv /\ [Next]_vars => ForeInv'
<1> SUFFICES ASSUME NetType, TaskType, ForeInv, [Next]_vars PROVE ForeInv'
  OBVIOUS
<1> USE DEF ForeInv, TaskType, os, records
<1>1. CASE ComesDue \/ Turns \/ Disarms \/ \E p \in {"sentinel", "prompt"} : Arms(p)
  BY <1>1 DEF ComesDue, Turns, Disarms, Arms
<1>2. CASE Notify
  BY <1>2 DEF Notify
<1>3. CASE TakeWakeup \/ DoorHolds \/ Opens \/ Asked \/ Finish
  BY <1>3 DEF TakeWakeup, DoorHolds, Opens, Asked, Finish, Ends
<1>4. CASE Breaks
  BY <1>4 DEF Breaks, KillFore
<1>5. CASE Crash \/ Quit \/ Restart \/ Boot
  BY <1>5 DEF Crash, Quit, Restart, Boot, Ending
<1>6. ASSUME NEW t \in Tasks, WritesCode(t) \/ Exits(t) \/ Dies(t) \/ Reap(t) \/ Stops(t) PROVE ForeInv'
  BY <1>6 DEF WritesCode, Exits, Dies, Reap, Stops, Ended
<1>7. ASSUME NEW t \in Tasks, Start(t) \/ Waits(t) PROVE ForeInv'
  BY <1>7 DEF Start, Waits, Spawned
<1>8. ASSUME NEW t \in Tasks, Moves(t) \/ Returns(t) PROVE ForeInv'
  BY <1>8 DEF Moves, Returns
<1>9. CASE UNCHANGED vars
  BY <1>9 DEF vars
<1> QED
  BY <1>1, <1>2, <1>3, <1>4, <1>5, <1>6, <1>7, <1>8, <1>9 DEF Next, Task

LEMMA StepOver ==
  ASSUME NetType, TaskType, ForeInv, Next, NEW c \in Tasks, Over(c)
  PROVE  Over(c)'
<1> USE DEF ForeInv, TaskType, os, records, Over
<1>1. CASE ComesDue \/ Turns \/ Disarms \/ \E p \in {"sentinel", "prompt"} : Arms(p)
  BY <1>1 DEF ComesDue, Turns, Disarms, Arms
<1>2. CASE Notify
  BY <1>2 DEF Notify
<1>3. CASE TakeWakeup \/ DoorHolds \/ Opens \/ Asked \/ Finish
  BY <1>3 DEF TakeWakeup, DoorHolds, Opens, Asked, Finish, Ends
<1>4. CASE Breaks
  BY <1>4 DEF Breaks, KillFore
<1>5. CASE Crash \/ Quit \/ Restart \/ Boot
  BY <1>5 DEF Crash, Quit, Restart, Boot, Ending
<1>6. ASSUME NEW t \in Tasks, WritesCode(t) \/ Exits(t) \/ Dies(t) \/ Reap(t) \/ Stops(t) PROVE Over(c)'
  BY <1>6 DEF WritesCode, Exits, Dies, Reap, Stops, Ended
<1>7. ASSUME NEW t \in Tasks, Start(t) \/ Waits(t) PROVE Over(c)'
  BY <1>7 DEF Start, Waits, Spawned
<1>8. ASSUME NEW t \in Tasks, Moves(t) \/ Returns(t) PROVE Over(c)'
  BY <1>8 DEF Moves, Returns
<1> QED
  BY <1>1, <1>2, <1>3, <1>4, <1>5, <1>6, <1>7, <1>8 DEF Next, Task

(* An exit on record is never lost: it stays, over cancels and any ends of the process, and until
   it is reported, once, the door's next look finds it (ReportWaits, OverStays).             *)
THEOREM ExitIsNeverLost == Spec => []ReportWaits /\ OverStays
<1>1. Init => NetType /\ TaskType /\ MarkInv /\ ForeInv
  BY InitNetType DEF Init, TaskType, MarkInv, ForeInv
<1>2. /\ NetType /\ TaskType /\ MarkInv /\ ForeInv
      /\ [Next]_vars
      => (NetType /\ TaskType /\ MarkInv /\ ForeInv)'
  BY NextNetType, NextTaskType, NextMark, NextFore
<1>3. TaskType /\ MarkInv => ReportWaits
  BY DEF TaskType, MarkInv, ReportWaits, Over, Reportable, Status, Alive
<1>4. NetType /\ TaskType /\ ForeInv /\ [Next]_vars => [\A t \in Tasks : Over(t) => Over(t)']_vars
  BY StepOver
<1> QED
  BY <1>1, <1>2, <1>3, <1>4, PTL DEF Spec, OverStays

-----------------------------------------------------------------------------
(* The safety core of LoopSurvives: the loop is held, or its own turn is on its way. *)
Held == slot = "sentinel" \/ (phase \in {"fired", "turn"} /\ opener = "sentinel")

(* While no turn is cut off and no process ends, no step loses the loop: not an outage, a turn of
   another opener, a report or a hold at the door; only the turn that takes the net down, one
   that puts another prompt in its place, or the sentinel's own turn having run.              *)
LoopIsHeld ==
  [][~conf.faults /\ Held => \/ Held' \/ told' \/ slot' = "prompt"
                             \/ (opener' = "sentinel" /\ outcome' = "ran")]_vars

(* sentinel_turn_open says the truth. *)
OpenedInv == ~conf.faults => (opened <=> phase \in {"fired", "turn"} /\ opener = "sentinel")

LEMMA NextOpened == NetType /\ OpenedInv /\ [Next]_vars => OpenedInv'
<1> SUFFICES ASSUME NetType, OpenedInv, [Next]_vars PROVE OpenedInv'
  OBVIOUS
<1> USE DEF NetType, OpenedInv, net, turn
<1>1. CASE ComesDue \/ Turns \/ Disarms \/ \E p \in {"sentinel", "prompt"} : Arms(p)
  BY <1>1 DEF ComesDue, Turns, Disarms, Arms
<1>2. CASE Notify
  BY <1>2 DEF Notify
<1>3. CASE TakeWakeup \/ DoorHolds \/ Opens \/ Asked
  BY <1>3 DEF TakeWakeup, DoorHolds, Opens, Asked
<1>4. ASSUME NEW e \in Endings \cup {Failed}, NEW failed \in BOOLEAN, Ends(e, failed) PROVE OpenedInv'
  <2>1. conf' = conf /\ phase' = "idle" /\ NoteEnd(e, failed)
    BY <1>4 DEF Ends
  <2>2. ~opened'
    BY <2>1 DEF NoteEnd
  <2> QED
    BY <2>1, <2>2
<1>5. CASE Breaks \/ Crash \/ Quit \/ Restart \/ Boot
  BY <1>5 DEF Breaks, Crash, Quit, Restart, Boot, Ending
<1>6. ASSUME NEW t \in Tasks, Task(t) PROVE OpenedInv'
  BY <1>6 DEF Task, WritesCode, Exits, Dies, Reap, Start, Waits, Moves, Returns, Stops
<1>7. CASE UNCHANGED vars
  BY <1>7 DEF vars
<1> QED
  BY <1>1, <1>2, <1>3, <1>4, <1>5, <1>6, <1>7 DEF Next, Finish

LEMMA StepHeld ==
  ASSUME NetType, OpenedInv, Next, ~conf.faults, Held
  PROVE  Held' \/ told' \/ slot' = "prompt" \/ (opener' = "sentinel" /\ outcome' = "ran")
<1> DEFINE Goal == Held' \/ told' \/ slot' = "prompt" \/ (opener' = "sentinel" /\ outcome' = "ran")
<1> USE DEF NetType, OpenedInv, Held, net, turn, Holds
<1>1. CASE ComesDue \/ Turns \/ Disarms \/ \E p \in {"sentinel", "prompt"} : Arms(p)
  BY <1>1 DEF ComesDue, Turns, Disarms, Arms
<1>2. CASE Notify
  BY <1>2 DEF Notify
<1>3. CASE TakeWakeup \/ DoorHolds \/ Opens \/ Asked
  BY <1>3 DEF TakeWakeup, DoorHolds, Opens, Asked, HoldNet, Keeps
<1>4. ASSUME NEW e \in Endings \cup {Failed}, NEW failed \in BOOLEAN, Ends(e, failed) PROVE Goal
  <2>1. /\ phase = "turn" /\ opener' = opener /\ NoteEnd(e, failed)
        /\ outcome' = (IF failed THEN "failed" ELSE "ran")
    BY <1>4 DEF Ends
  <2>2. CASE opener # "sentinel"
    <3>1. ~opened /\ slot = "sentinel" /\ Left(e) = slot
      BY <2>1, <2>2 DEF Left
    <3>2. LeaveNet(slot)
      BY <2>1, <3>1 DEF NoteEnd
    <3> QED
      BY <3>1, <3>2 DEF LeaveNet, Keeps
  <2>3. CASE opener = "sentinel" /\ failed
    <3>1. opened /\ Spared(failed)
      BY <2>1, <2>3 DEF Spared
    <3>2. HoldNet(Left(e))
      BY <2>1, <3>1 DEF NoteEnd
    <3>3. Left(e) = "prompt" => slot = "prompt"
      BY DEF Left
    <3> QED
      BY <3>2, <3>3 DEF HoldNet, Keeps
  <2>4. CASE opener = "sentinel" /\ ~failed
    BY <2>1, <2>4
  <2> QED
    BY <2>2, <2>3, <2>4
<1>5. CASE Breaks \/ Crash \/ Quit \/ Restart \/ Boot
  BY <1>5 DEF Breaks, Crash, Quit, Restart, Boot, Ending
<1>6. ASSUME NEW t \in Tasks, Task(t) PROVE Goal
  BY <1>6 DEF Task, WritesCode, Exits, Dies, Reap, Start, Waits, Moves, Returns, Stops
<1> QED
  BY <1>1, <1>2, <1>3, <1>4, <1>5, <1>6 DEF Next, Finish

(* An outage delays the loop and does not end it, as far as no step can lose it (LoopIsHeld). *)
THEOREM LoopIsHeldAlways == Spec => LoopIsHeld
<1>1. Init => NetType /\ OpenedInv
  BY InitNetType DEF Init, OpenedInv
<1>2. NetType /\ OpenedInv /\ [Next]_vars => (NetType /\ OpenedInv)'
  BY NextNetType, NextOpened
<1>3. NetType /\ OpenedInv /\ [Next]_vars
        => [~conf.faults /\ Held => \/ Held' \/ told' \/ slot' = "prompt"
                                    \/ (opener' = "sentinel" /\ outcome' = "ran")]_vars
  BY StepHeld
<1> QED
  BY <1>1, <1>2, <1>3, PTL DEF Spec, LoopIsHeld

=============================================================================
