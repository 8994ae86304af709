------------------------------ MODULE IdleDoor ------------------------------
(***************************************************************************)
(* What starts a turn of a session when nobody speaks: the one held        *)
(* wake-up (wakeup.py) and the background commands that exited             *)
(* (background.py), at the two idle doors, the terminal REPL's prompt      *)
(* (cli/__init__.py) and the served app's beat (server/app.py).            *)
(*                                                                         *)
(* One session and the processes that hold it one after the other.  Every  *)
(* change of the wake-up and of the table of commands is on disk before    *)
(* the step is over, so an end of the process loses only what it had in    *)
(* hand: a wake-up or a report between the door and its turn, the turn.    *)
(*                                                                         *)
(* conf is what does not change:                                           *)
(*   door    - "repl" or "server";                                         *)
(*   loop    - the turns arm wake-ups and the provider comes and goes;     *)
(*   wrapped - a bash wrapper writes a command's exit code itself;         *)
(*   faults  - turns are cut off and the process ends;                     *)
(*   tasks   - the commands the turns start.                               *)
(*                                                                         *)
(* Abstracted: a wake-up's delay (it comes due some time after it was      *)
(* armed, so the backoff's length and its count are left out), the line a  *)
(* wake-up is turned into, a command's output, its code, and pids: a start *)
(* token tells a reused pid from the command.  POSIX: a child that ended   *)
(* stays a zombie, which a pid probe calls alive, until it is reaped.      *)
(***************************************************************************)
EXTENDS Integers

CONSTANTS
  Confs,    \* the settings
  Tasks,    \* the background commands
  Endings,  \* how a turn that ran may end: its fingerprint
  Stall,    \* the ending of a veto_stall, which an outage may bring too
  Failed,   \* the ending of a turn the provider failed
  None,
  MaxEnds   \* bound: ends of the process

ASSUME ConfsAssumption ==
  Confs \subseteq [door : {"repl", "server"}, loop : BOOLEAN, wrapped : BOOLEAN,
                   faults : BOOLEAN, tasks : SUBSET Tasks]
ASSUME EndingsAssumption == Stall \in Endings /\ Failed \notin Endings /\ None \notin Endings \cup {Failed}
ASSUME MaxEndsAssumption == MaxEnds \in Nat

VARIABLES
  conf, ends,
  up,       \* the provider answers
  slot,     \* pending_wakeup: "none", the loop's "sentinel", another "prompt"
  due,      \* the held wake-up's time has come
  opened,   \* sentinel_turn_open
  last,     \* last_sentinel_outcome
  phase,    \* "idle", "fired" (a door holds a line), "turn" or "down"
  opener,   \* what opened the turn, or will: "other", "sentinel", "prompt", "note"
  outcome,  \* how it ended: "none" yet, "ran", "failed", "broken"
  proc,     \* a command's process: "none", "run", "zombie", "gone"
  coded,    \* the commands whose exit file is written
  child,    \* those whose parent is this process
  mine,     \* _PROCS: those a watcher of this program image waits for
  fore,     \* those the turn waits for: run_foreground, not recorded
  table,    \* background_tasks, and two flags of its records
  stopped,
  notified,
  told,     \* history: the turn itself took the net down
  prev, row, \* history: the ending of the last sentinel turn that ran, and how many in a row had it
  reports   \* history: how often a command's exit was handed to a turn

net == <<slot, due, opened, last>>
turn == <<phase, opener, outcome>>
os == <<proc, coded, child, mine, fore>>
records == <<table, stopped, notified>>
barren == <<prev, row>>
vars == <<conf, ends, up, net, turn, os, records, told, barren, reports>>

Openers == {"other", "sentinel", "prompt", "note"}

TypeOK ==
  /\ conf \in Confs /\ ends \in 0..MaxEnds /\ up \in BOOLEAN
  /\ slot \in {"none", "sentinel", "prompt"} /\ due \in BOOLEAN /\ (due => slot # "none")
  /\ opened \in BOOLEAN /\ last \in Endings \cup {Failed, None}
  /\ phase \in {"idle", "fired", "turn", "down"} /\ opener \in Openers
  /\ outcome \in {"none", "ran", "failed", "broken"}
  /\ proc \in [Tasks -> {"none", "run", "zombie", "gone"}]
  /\ coded \subseteq Tasks /\ child \subseteq Tasks /\ mine \subseteq child
  /\ fore \subseteq conf.tasks /\ (fore # {} => phase = "turn")
  /\ table \subseteq conf.tasks /\ stopped \subseteq table /\ notified \subseteq table
  /\ told \in BOOLEAN /\ prev \in Endings \cup {None} /\ row \in Nat
  /\ reports \in [Tasks -> 0..2]

Init ==
  /\ conf \in Confs /\ ends = 0 /\ up = TRUE
  /\ slot = "none" /\ due = FALSE /\ opened = FALSE /\ last = None
  /\ phase = "idle" /\ opener = "other" /\ outcome = "ran"
  /\ proc = [t \in Tasks |-> "none"]
  /\ coded = {} /\ child = {} /\ mine = {} /\ fore = {}
  /\ table = {} /\ stopped = {} /\ notified = {}
  /\ told = FALSE /\ prev = None /\ row = 0 /\ reports = [t \in Tasks |-> 0]

-----------------------------------------------------------------------------
(* The held wake-up. *)

Holds(p) == slot' = p /\ due' = FALSE
Keeps == UNCHANGED <<slot, due>>

(* The clock reaches the wake-up's due time. *)
ComesDue ==
  /\ slot # "none" /\ ~due
  /\ due' = TRUE
  /\ UNCHANGED <<conf, ends, up, slot, opened, last, turn, os, records, told, barren, reports>>

(* The provider goes, or comes back. *)
Turns ==
  /\ conf.loop
  /\ up' = ~up
  /\ UNCHANGED <<conf, ends, net, turn, os, records, told, barren, reports>>

(* WakeupSlot.arm: the ScheduleWakeup tool, or a turn-end hook that wants  *)
(* the session back.  It replaces what is held.                            *)
Arms(p) ==
  /\ phase = "turn" /\ conf.loop /\ p \in {"sentinel", "prompt"}
  /\ Holds(p)
  /\ told' = FALSE
  /\ UNCHANGED <<conf, ends, up, opened, last, turn, os, records, barren, reports>>

(* WakeupSlot.cancel: the tool with stop, or a hook's cancel. *)
Disarms ==
  /\ phase = "turn" /\ slot # "none"
  /\ Holds("none")
  /\ told' = TRUE
  /\ UNCHANGED <<conf, ends, up, opened, last, turn, os, records, barren, reports>>

(* _arm_stall_net: a turn that ends on the fence leaves a net behind. *)
Left(e) == IF e = Stall /\ slot = "none" THEN "sentinel" ELSE slot

(* hold_for_provider: the sentinel is armed anew; another prompt stays. *)
HoldNet(held) ==
  IF held = "prompt" THEN Keeps ELSE Holds("sentinel")

(* What note_turn_end does to a slot of which nothing is said. *)
LeaveNet(held) == IF held = slot THEN Keeps ELSE Holds(held)

(* Mutant of Repeated: no ending is remembered as the one before. *)
RepeatedNever(e) == FALSE /\ last = e

(* The turn ended as the sentinel turn before it did. *)
Repeated(e) == last = e

(* Mutant of Spared: an outage's ending is a verdict as any other. *)
SparedNever(failed) == FALSE /\ failed

(* The provider failed the turn: the guard reads nothing from it. *)
Spared(failed) == failed

(* note_turn_end, called at the end of each turn that comes to its end, on *)
(* a slot the fence may have filled.                                       *)
NoteEnd(e, failed) ==
  LET held == Left(e) IN
  IF ~opened THEN LeaveNet(held) /\ UNCHANGED <<opened, last>>
  ELSE /\ opened' = FALSE
       /\ \/ Spared(failed) /\ last' = e /\ HoldNet(held)
          \/ ~Spared(failed) /\ Repeated(e) /\ last' = None
             /\ (IF held = "sentinel" THEN Holds("none") ELSE Keeps)
          \/ ~Spared(failed) /\ ~Repeated(e) /\ last' = e /\ LeaveNet(held)

-----------------------------------------------------------------------------
(* The background commands. *)

(* The wrapper, or where there is none the shell, ends: its parent sees a  *)
(* zombie until somebody waits for it.                                     *)
Ended(t) == IF t \in child THEN "zombie" ELSE "gone"

WritesCode(t) ==
  /\ conf.wrapped /\ proc[t] = "run" /\ t \notin coded
  /\ coded' = coded \cup {t}
  /\ UNCHANGED <<conf, ends, up, net, turn, proc, child, mine, fore, records, told, barren, reports>>

Exits(t) ==
  /\ proc[t] = "run" /\ (conf.wrapped => t \in coded)
  /\ proc' = [proc EXCEPT ![t] = Ended(t)]
  /\ UNCHANGED <<conf, ends, up, net, turn, coded, child, mine, fore, records, told, barren, reports>>

(* Something outside kills the wrapper before it wrote. *)
Dies(t) ==
  /\ conf.faults /\ proc[t] = "run"
  /\ proc' = [proc EXCEPT ![t] = Ended(t)]
  /\ UNCHANGED <<conf, ends, up, net, turn, coded, child, mine, fore, records, told, barren, reports>>

(* The event loop turns: all the time in the served app, and in the REPL   *)
(* only while a turn runs.                                                 *)
Looping == phase = "turn" \/ (conf.door = "server" /\ phase \in {"idle", "fired"})

(* _watch: the child is reaped, and its exit recorded unless the wrapper   *)
(* did.                                                                    *)
Reap(t) ==
  /\ Looping /\ t \in mine /\ proc[t] = "zombie"
  /\ proc' = [proc EXCEPT ![t] = "gone"]
  /\ mine' = mine \ {t} /\ child' = child \ {t}
  /\ coded' = coded \cup {t}
  /\ UNCHANGED <<conf, ends, up, net, turn, fore, records, told, barren, reports>>

Alive(t) == proc[t] \in {"run", "zombie"}

(* task_status, of the exit file first and the process then. *)
Status(t) ==
  CASE t \in coded -> IF t \in stopped THEN "killed" ELSE "completed"
    [] t \notin coded /\ Alive(t) -> "running"
    [] OTHER -> IF t \in stopped THEN "killed" ELSE "lost"

Spawned(t) ==
  /\ phase = "turn" /\ t \in conf.tasks /\ proc[t] = "none"
  /\ proc' = [proc EXCEPT ![t] = "run"]
  /\ child' = child \cup {t} /\ mine' = mine \cup {t}
  /\ UNCHANGED coded

(* BackgroundTasks.start. *)
Start(t) ==
  /\ Spawned(t) /\ fore = {}
  /\ table' = table \cup {t}
  /\ UNCHANGED <<conf, ends, up, net, turn, fore, stopped, notified, told, barren, reports>>

(* run_foreground spawns, and the turn waits. *)
Waits(t) ==
  /\ Spawned(t) /\ fore = {}
  /\ fore' = {t}
  /\ UNCHANGED <<conf, ends, up, net, turn, records, told, barren, reports>>

(* The time is up: the command becomes a background command. *)
Moves(t) ==
  /\ phase = "turn" /\ t \in fore
  /\ fore' = {} /\ table' = table \cup {t}
  /\ UNCHANGED <<conf, ends, up, net, turn, proc, coded, child, mine, stopped, notified, told,
                 barren, reports>>

(* The command was reaped in time: its files go, and nothing is recorded. *)
Returns(t) ==
  /\ phase = "turn" /\ t \in fore /\ proc[t] = "gone"
  /\ fore' = {} /\ coded' = coded \ {t}
  /\ UNCHANGED <<conf, ends, up, net, turn, proc, child, mine, records, told, barren, reports>>

(* BackgroundTasks.stop: the record says so first, then the group is       *)
(* killed.                                                                 *)
Stops(t) ==
  /\ phase = "turn" /\ fore = {} /\ t \in table /\ Status(t) = "running"
  /\ stopped' = stopped \cup {t}
  /\ proc' = [proc EXCEPT ![t] = IF @ = "run" THEN Ended(t) ELSE @]
  /\ UNCHANGED <<conf, ends, up, net, turn, coded, child, mine, fore, table, notified, told,
                 barren, reports>>

-----------------------------------------------------------------------------
(* The idle door. *)

Reportable == {t \in table \ notified : Status(t) # "running"}

(* A command of an earlier process that ends between the two reads of its  *)
(* status: the door takes it for lost.                                     *)
Racing == {t \in table \ notified : t \notin child /\ proc[t] = "run" /\ Status(t) = "running"}

(* Mutant of Marked: the report is handed over and not remembered. *)
MarkedNever(new) == notified

(* take_notifications marks what it reports, and saves. *)
Marked(new) == notified \cup new

(* take_notifications: every exit not yet reported, as one line (the       *)
(* history counts no further than 2).                                      *)
Notify ==
  /\ phase = "idle"
  /\ \E late \in SUBSET Racing :
       /\ late \cup Reportable # {}
       /\ notified' = Marked(late \cup Reportable)
       /\ reports' = [t \in Tasks |-> IF t \in late \cup Reportable /\ reports[t] < 2
                                     THEN reports[t] + 1 ELSE reports[t]]
       /\ proc' = [t \in Tasks |-> IF t \in late THEN "gone" ELSE proc[t]]
       /\ coded' = (IF conf.wrapped THEN coded \cup late ELSE coded)
  /\ phase' = "fired" /\ opener' = "note" /\ outcome' = "none"
  /\ UNCHANGED <<conf, ends, up, net, child, mine, fore, table, stopped, told, barren>>

(* take_due_prompt: the slot is emptied, and a sentinel's turn marked.  A  *)
(* report goes first.                                                      *)
TakeWakeup ==
  /\ phase = "idle" /\ Reportable = {} /\ slot # "none" /\ due
  /\ phase' = "fired" /\ opener' = slot /\ outcome' = "none"
  /\ Holds("none")
  /\ opened' = (opened \/ slot = "sentinel") /\ UNCHANGED last
  /\ UNCHANGED <<conf, ends, up, os, records, told, barren, reports>>

(* The REPL's door asks the provider, and holds the sentinel while there   *)
(* is no answer: hold_unfired_sentinel.                                    *)
DoorHolds ==
  /\ phase = "fired" /\ opener = "sentinel" /\ conf.door = "repl" /\ ~up
  /\ phase' = "idle" /\ outcome' = "failed" /\ UNCHANGED opener
  /\ opened' = FALSE /\ HoldNet(slot) /\ UNCHANGED last
  /\ prev' = None /\ row' = 0
  /\ UNCHANGED <<conf, ends, up, os, records, told, reports>>

(* The line becomes the session's turn. *)
Opens ==
  /\ phase = "fired"
  /\ ~(opener = "sentinel" /\ conf.door = "repl" /\ ~up)
  /\ phase' = "turn" /\ UNCHANGED <<opener, outcome>>
  /\ UNCHANGED <<conf, ends, up, net, os, records, told, barren, reports>>

(* A typed line, a say, a nudge, a stop's re-entry, a restart's own line:  *)
(* a turn that owes nothing to the slot.                                   *)
Asked ==
  /\ phase = "idle"
  /\ phase' = "turn" /\ opener' = "other" /\ outcome' = "none"
  /\ prev' = None /\ row' = 0
  /\ UNCHANGED <<conf, ends, up, net, os, records, told, reports>>

-----------------------------------------------------------------------------
(* The end of a turn. *)

(* History: the sentinel turns that ran and ended alike, one after the     *)
(* other.                                                                  *)
Counts(e, failed) ==
  CASE opener = "sentinel" /\ failed -> prev' = None /\ row' = 0
    [] opener = "sentinel" /\ ~failed -> prev' = e /\ row' = (IF prev = e THEN row + 1 ELSE 1)
    [] OTHER -> prev' = None /\ row' = 0

(* The turn comes to its end, with the provider's word or without it.      *)
Ends(e, failed) ==
  /\ phase = "turn" /\ fore = {}
  /\ IF failed THEN ~up /\ e \in {Stall, Failed} ELSE e \in Endings
  /\ phase' = "idle" /\ outcome' = (IF failed THEN "failed" ELSE "ran") /\ UNCHANGED opener
  /\ NoteEnd(e, failed)
  /\ told' = (told /\ ~(e = Stall /\ slot = "none"))
  /\ Counts(e, failed)
  /\ UNCHANGED <<conf, ends, up, os, records, reports>>

(* Mutant of KillFore: a cancelled call leaves its command running. *)
KillForeNever == UNCHANGED <<proc, coded, child, mine, fore>>

(* A cancelled run_foreground: the group is killed, its files go.          *)
KillFore ==
  /\ proc' = [t \in Tasks |-> IF t \in fore THEN "gone" ELSE proc[t]]
  /\ coded' = coded \ fore /\ child' = child \ fore /\ mine' = mine \ fore /\ fore' = {}

(* The turn is cut off, by a cancel or by an error: nobody notes its end.  *)
Breaks ==
  /\ conf.faults /\ phase \in {"turn", "fired"}
  /\ phase' = "idle" /\ outcome' = "broken" /\ UNCHANGED opener
  /\ KillFore
  /\ prev' = None /\ row' = 0
  /\ UNCHANGED <<conf, ends, up, net, records, told, reports>>

-----------------------------------------------------------------------------
(* The process. *)

Ending == conf.faults /\ ends < MaxEnds /\ ends' = ends + 1

(* It dies; its children live on, and its zombies go. *)
Crash ==
  /\ Ending /\ phase # "down"
  /\ phase' = "down" /\ outcome' = "broken" /\ UNCHANGED opener
  /\ proc' = [t \in Tasks |-> IF proc[t] = "zombie" THEN "gone" ELSE proc[t]]
  /\ child' = {} /\ mine' = {} /\ fore' = {}
  /\ prev' = None /\ row' = 0
  /\ UNCHANGED <<conf, up, net, coded, records, told, reports>>

(* The REPL is closed: kill_all stops what still runs. *)
Quit ==
  /\ Ending /\ phase = "idle" /\ conf.door = "repl"
  /\ phase' = "down" /\ UNCHANGED <<opener, outcome>>
  /\ LET killed == {t \in table : Status(t) = "running"} IN
     /\ stopped' = stopped \cup killed
     /\ proc' = [t \in Tasks |-> IF t \in killed \/ proc[t] = "zombie" THEN "gone" ELSE proc[t]]
     /\ \E reaped \in SUBSET (killed \cap mine) : coded' = coded \cup reaped
  /\ child' = {} /\ mine' = {}
  /\ UNCHANGED <<conf, up, net, fore, table, notified, told, barren, reports>>

(* The process execs a newer build: its children stay its children, and    *)
(* nobody waits for them any more.                                         *)
Restart ==
  /\ Ending /\ phase = "idle"
  /\ mine' = {}
  /\ UNCHANGED <<conf, up, net, turn, proc, coded, child, fore, records, told, barren, reports>>

Boot ==
  /\ phase = "down"
  /\ phase' = "idle" /\ UNCHANGED <<opener, outcome>>
  /\ UNCHANGED <<conf, ends, up, net, os, records, told, barren, reports>>

-----------------------------------------------------------------------------
Finish == \E e \in Endings \cup {Failed}, failed \in BOOLEAN : Ends(e, failed)
Task(t) == WritesCode(t) \/ Exits(t) \/ Dies(t) \/ Reap(t) \/ Start(t) \/ Waits(t) \/ Moves(t)
           \/ Returns(t) \/ Stops(t)

Next ==
  \/ ComesDue \/ Turns \/ Disarms \/ \E p \in {"sentinel", "prompt"} : Arms(p)
  \/ Notify \/ TakeWakeup \/ DoorHolds \/ Opens \/ Asked
  \/ Finish \/ Breaks \/ Crash \/ Quit \/ Restart \/ Boot
  \/ \E t \in Tasks : Task(t)

Spec == Init /\ [][Next]_vars

(* A turn ends, a foreground command is waited for no longer than its      *)
(* time, the loop reaps, time passes and a process that ended comes back.  *)
(* The door is idle with nothing said again and again, and looks.          *)
Fairness ==
  /\ WF_vars(Finish) /\ WF_vars(\E t \in Tasks : Moves(t)) /\ WF_vars(Boot)
  /\ \A t \in Tasks : WF_vars(Reap(t))
  /\ WF_vars(ComesDue) /\ WF_vars(DoorHolds \/ Opens)
  /\ SF_vars(Notify) /\ SF_vars(TakeWakeup)
FairSpec == Spec /\ Fairness

-----------------------------------------------------------------------------
(* A loop whose wake-ups come to the same ending is not woken for a third: *)
(* whatever the turn armed on the way, the guard takes the net down.       *)
BarrenEnds == row <= 2

(* An outage delays the loop and does not end it: with the provider back   *)
(* for good, and no turn that pushes the due time on for ever, a held      *)
(* sentinel's turn runs in the end, however many firings the provider      *)
(* failed or the door held before, unless a turn itself takes the net down *)
(* or puts another prompt in its place.                                    *)
LoopSurvives ==
  ~conf.faults /\ <>[]up /\ <>[][~Arms("sentinel")]_vars =>
    (slot = "sentinel" ~> told \/ slot = "prompt" \/ (opener = "sentinel" /\ outcome = "ran"))

(* A recorded command that is over - its code is on disk, or its process   *)
(* is gone - is handed to a turn once, and never again, over any ends of   *)
(* the process.                                                            *)
ReportedOnce ==
  \A t \in Tasks : (t \in table /\ (t \in coded \/ proc[t] = "gone")) ~> [](reports[t] = 1)
=============================================================================
