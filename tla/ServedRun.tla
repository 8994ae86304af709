------------------------------ MODULE ServedRun ------------------------------
(***************************************************************************)
(* A bounded run of the served app (server/app.py) that ends through       *)
(* run_stop_message: the say consumer's beats, the turns it runs, the      *)
(* watcher of the run's time, POST /run/stop and the spend gate's soft     *)
(* trip, the digest turn, the ending marker, and restarts on one boot.     *)
(*                                                                         *)
(* Everything runs on one event loop: an action here is what runs between  *)
(* two awaits.  conf is a server's configuration and does not change:      *)
(*   capped, idle, digest - run_max_duration, run_idle_timeout and         *)
(*             run_consolidation_message are set;                          *)
(*   grace   - the consolidation reserve is above zero;                    *)
(*   asks    - turns may ask for approval (SayInboxPrompter).              *)
(*                                                                         *)
(* Abstracted: the clocks (three flags that turn true), the text of a say, *)
(* what starts a turn of the app's own (a nudge, a wake-up, a background   *)
(* command that exited), run_end_command (a wait), and the busy marker of  *)
(* another process (SayInbox).  A turn of POST /chat is only in flight.    *)
(***************************************************************************)
EXTENDS Naturals

CONSTANTS None,
          Configs,   \* the configurations a server may have
          MaxStart   \* bound: processes started, and boots

Conf == [capped : BOOLEAN, idle : BOOLEAN, grace : BOOLEAN, digest : BOOLEAN, asks : BOOLEAN]

ASSUME ConfAssumption == Configs \subseteq Conf
ASSUME StartAssumption == MaxStart \in Nat \ {0}

VARIABLES
  conf,
  slot,       \* disk: .say, None, the configured Line, or an operator's Say
  interrupt,  \* disk: .interrupt exists
  marker,     \* disk: .run-stop-reason, None or a reason and the boot that recorded it
  boot, starts,
  beat,       \* the say consumer: "down", "off", "asleep", "turn", "digest", "report", "told"
  watch,      \* _watch_turn_deadline: "tick", "bound" (inside its window), "done"
  turn,       \* the consumer's turn: "none", "slash", "run", "saved"
  chat,       \* a POST /chat turn is in flight
  held,       \* what an approval prompt read from the slot and has not put back
  reason,     \* run_stop_reason
  stopping, ended,       \* run_stopping, run_ended
  ending,     \* run_ending_until, _written, _taken, _done
  last,       \* last_turn_stop_reason
  capDue, idleDue,       \* the turn deadline has passed; no say for run_idle_timeout
  delivered,  \* history: turns the line was delivered to, in this process
  truth       \* history: how the consumer's last turn ended

disk == <<slot, interrupt, marker>>
era == <<conf, boot, starts>>
hist == <<delivered, truth>>
clocks == <<capDue, idleDue>>
run == <<beat, watch, reason, stopping, ended, ending>>
vars == <<disk, era, run, turn, chat, held, last, clocks, hist>>

Line == "line"
Say == "say"
ASSUME NoneAssumption == None \notin {Line, Say}

Fresh == [window |-> "none", written |-> FALSE, taken |-> FALSE, done |-> FALSE]
Reasons == {"stopped", "asked", "duration_cap", "idle"}  \* "asked": the reason a request names
Ends == {"completed", "other", "interrupted"}

TypeOK ==
  /\ conf \in Configs
  /\ slot \in {None, Line, Say} /\ interrupt \in BOOLEAN
  /\ marker \in {None} \cup [reason : Reasons, boot : 1..MaxStart]
  /\ boot \in 1..MaxStart /\ starts \in 1..MaxStart
  /\ beat \in {"down", "off", "asleep", "turn", "digest", "report", "told"}
  /\ watch \in {"tick", "bound", "done"}
  /\ turn \in {"none", "slash", "run", "saved"}
  /\ (turn # "none") <=> (beat \in {"turn", "digest"})
  /\ chat \in BOOLEAN /\ held \in {None, Line, Say}
  /\ reason \in Reasons \cup {None} /\ stopping \in BOOLEAN
  /\ ended \in BOOLEAN /\ (ended <=> beat \in {"off", "digest", "report", "told"})
  /\ ending \in [window : {"none", "open", "spent"}, written : BOOLEAN, taken : BOOLEAN,
                 done : BOOLEAN]
  /\ last \in Ends \cup {None} /\ truth \in Ends \cup {None, "failed"}
  /\ capDue \in BOOLEAN /\ idleDue \in BOOLEAN /\ delivered \in Nat

Init ==
  /\ conf \in Configs
  /\ slot = None /\ interrupt \in BOOLEAN /\ marker = None
  /\ boot = 1 /\ starts = 1
  /\ beat = "asleep" /\ watch = "tick" /\ turn = "none" /\ chat = FALSE /\ held = None
  /\ reason = None /\ stopping = FALSE /\ ended = FALSE /\ ending = Fresh /\ last = None
  /\ capDue = FALSE /\ idleDue = FALSE /\ delivered = 0 /\ truth = None

Up == beat # "down"
Inflight == turn # "none" \/ chat

-----------------------------------------------------------------------------
(* The ending's own parts, on an ending `e` and the slot's content `s`. *)

(* _begin_run_ending: the window opens once, and the line is written to a free slot. *)
Opened(e, s) ==
  IF e.window # "none" THEN e
  ELSE [e EXCEPT !.window = IF conf.grace THEN "open" ELSE "spent", !.written = (s = None)]
OpenedSlot(e, s) == IF e.window = "none" /\ s = None THEN Line ELSE s

(* Mutant of Retries: what was written or taken is written again. *)
RetriesAgain(e, s) == e.window = "open" /\ s = None

(* _retry_run_ending_write. *)
Retries(e, s) == e.window = "open" /\ ~e.written /\ ~e.taken /\ s = None
Retried(e, s) == IF Retries(e, s) THEN [e EXCEPT !.written = TRUE] ELSE e
RetriedSlot(e, s) == IF Retries(e, s) THEN Line ELSE s

(* Mutant of Seen: the slot is read before the line was written. *)
SeenUnwritten(e, s) == IF e.window # "none" /\ s # Line THEN [e EXCEPT !.taken = TRUE] ELSE e

(* _check_run_ending_seen. *)
Seen(e, s) ==
  IF e.window # "none" /\ e.written /\ s # Line THEN [e EXCEPT !.taken = TRUE] ELSE e

(* _check_run_ending_done. *)
Finished(e, how, busy) ==
  IF e.taken /\ how = "completed" /\ ~busy THEN [e EXCEPT !.done = TRUE] ELSE e

(* Mutant of Retracted: whatever is pending is deleted. *)
RetractedAny(s) == None

(* _retract_own_line: only what holds exactly the line. *)
Retracted(s) == IF s = Line THEN None ELSE s

(* _keep_beating. *)
Keeps(e) == IF e.window # "none" THEN e.window = "open" /\ ~e.done ELSE ~stopping

-----------------------------------------------------------------------------
(* _run_turn_for_say begins: an old interrupt has nothing to stop. *)
BeginTurn(at) == turn' = at /\ interrupt' = FALSE

(* The end of _consume_say_loop, up to the digest's first await. *)
NoDigest == ~conf.digest \/ (conf.capped /\ capDue /\ ~conf.grace)

(* The rest of Exit: the reason that no one named, and the digest. *)
ExitWith(r, e) ==
  /\ reason' = IF r = None THEN "stopped" ELSE r
  /\ ending' = e
  /\ IF NoDigest THEN beat' = "report" /\ UNCHANGED <<turn, interrupt>>
                 ELSE beat' = "digest" /\ BeginTurn("slash")
  /\ UNCHANGED delivered

(* Mutants of Exit: the watcher is left running; the line is left; the run is not marked
   ended before its digest.                                                              *)
ExitWatched(r, e, s) ==
  /\ slot' = (IF e.window = "spent" THEN Retracted(s) ELSE s)
  /\ ended' = TRUE /\ UNCHANGED watch /\ ExitWith(r, e)
ExitUnretracted(r, e, s) == slot' = s /\ ended' = TRUE /\ watch' = "done" /\ ExitWith(r, e)
ExitUnmarked(r, e, s) ==
  /\ slot' = (IF e.window = "spent" THEN Retracted(s) ELSE s)
  /\ ended' = FALSE /\ watch' = "done" /\ ExitWith(r, e)

Exit(r, e, s) ==
  /\ watch' = "done"
  /\ slot' = (IF e.window = "spent" THEN Retracted(s) ELSE s)
  /\ ended' = TRUE
  /\ ExitWith(r, e)

(* After a beat that ran no turn. *)
Rests(r, e, s) ==
  LET after == Seen(Retried(e, s), RetriedSlot(e, s))
  IN  /\ slot' = RetriedSlot(e, s)
      /\ ending' = Finished(after, last, Inflight)
      /\ reason' = r
      /\ UNCHANGED <<beat, watch, ended, turn, interrupt, delivered>>

(* _consume_one_say: a say starts a turn; else the app may have one of its own to run. *)
Consumes(r, e, s) ==
  /\ ~Inflight
  /\ IF s # None
     THEN /\ slot' = None /\ BeginTurn("slash")
          /\ delivered' = IF s = Line THEN delivered + 1 ELSE delivered
     ELSE slot' = None /\ BeginTurn("run") /\ UNCHANGED delivered
  /\ beat' = "turn" /\ reason' = r /\ ending' = e
  /\ UNCHANGED <<watch, ended>>

(* One beat: the cap's check, the idle check, then the slot. *)
Beat ==
  /\ beat = "asleep"
  /\ LET cap == capDue
         r1 == IF cap THEN "duration_cap" ELSE reason
         e1 == IF cap THEN Opened(ending, slot) ELSE ending
         s1 == IF cap THEN OpenedSlot(ending, slot) ELSE slot
         idle == idleDue /\ ~Inflight
         r2 == IF idle THEN "idle" ELSE r1
         e2 == IF idle THEN Opened(e1, s1) ELSE e1
         s2 == IF idle THEN OpenedSlot(e1, s1) ELSE s1
     IN  \/ ~Keeps(ending) /\ Exit(reason, ending, slot)
         \/ Keeps(ending) /\ cap /\ ~Keeps(e1) /\ Exit(r1, e1, s1)
         \/ Keeps(ending) /\ Keeps(e1) /\ idle /\ ~Keeps(e2) /\ Exit(r2, e2, s2)
         \/ /\ Keeps(ending) /\ Keeps(e1) /\ Keeps(e2)
            /\ \/ Consumes(r2, e2, s2)
               \/ (Inflight \/ s2 = None) /\ Rests(r2, e2, s2)
  /\ UNCHANGED <<marker, era, stopping, chat, held, last, clocks, truth>>

-----------------------------------------------------------------------------
(* dispatch_slash: the say becomes the turn's message, or is refused: no turn runs and
   nothing is learned of how one ended.                                                *)
TurnComposed ==
  /\ turn = "slash"
  /\ turn' = "run"
  /\ UNCHANGED <<disk, era, run, chat, held, last, clocks, hist>>

TurnRefused ==
  /\ turn = "slash"
  /\ turn' = "saved"
  /\ UNCHANGED <<disk, era, run, chat, held, last, clocks, hist>>

(* The turn's done frame names how it ended; one that raises has none. *)
TurnDone(how) ==
  /\ turn = "run"
  /\ turn' = "saved" /\ last' = how /\ truth' = how
  /\ UNCHANGED <<disk, era, run, chat, held, clocks, delivered>>

TurnFails ==
  /\ turn = "run"
  /\ turn' = "saved" /\ truth' = "failed"
  /\ UNCHANGED <<disk, era, run, chat, held, last, clocks, delivered>>

(* _watch_interrupt takes the file; a turn whose done frame is out keeps its end. *)
TurnInterrupted ==
  /\ interrupt /\ turn \in {"run", "saved"}
  /\ interrupt' = FALSE
  /\ IF turn = "run" THEN turn' = "saved" /\ last' = "interrupted" /\ truth' = "interrupted"
                     ELSE UNCHANGED <<turn, last, truth>>
  /\ UNCHANGED <<slot, marker, era, run, chat, held, clocks, delivered>>

(* A person stops the turn (POST /interrupt). *)
TurnStopped ==
  /\ turn = "run"
  /\ turn' = "saved" /\ last' = "interrupted" /\ truth' = "interrupted"
  /\ UNCHANGED <<disk, era, run, chat, held, clocks, delivered>>

(* The digest's wait_for: no limit only for an unbounded run with no reserve. *)
DigestTimesOut ==
  /\ beat = "digest" /\ turn \in {"slash", "run"} /\ (conf.capped \/ conf.grace)
  /\ turn' = "saved" /\ truth' = "failed"
  /\ UNCHANGED <<disk, era, run, chat, held, last, clocks, delivered>>

(* The turn is over: its finally checks SEEN and DONE, and the beat it ran in goes on. *)
TurnEnds ==
  /\ turn = "saved"
  /\ turn' = "none"
  /\ LET over == Finished(Seen(ending, slot), last, chat)
         after == Retried(over, slot)
         s == RetriedSlot(over, slot)
     IN  IF beat = "turn"
         THEN /\ beat' = "asleep" /\ slot' = s
              /\ ending' = Finished(Seen(after, s), last, chat)
              /\ idleDue' = FALSE
         ELSE beat' = "report" /\ ending' = over /\ UNCHANGED <<slot, idleDue>>
  /\ UNCHANGED <<interrupt, marker, era, watch, reason, stopping, ended>>
  /\ UNCHANGED <<chat, held, last, capDue, hist>>

(* A running turn, POST /chat's too, takes the slot at an iteration boundary. *)
MidTurnSay ==
  /\ turn = "run" \/ chat
  /\ slot # None
  /\ slot' = None
  /\ delivered' = IF slot = Line THEN delivered + 1 ELSE delivered
  /\ UNCHANGED <<interrupt, marker, era, run, turn, chat, held, last, clocks, truth>>

(* An approval prompt reads the slot for its answer, and the interrupt.  What is no
   answer is held (bound: one message).                                                *)
PromptReads ==
  /\ conf.asks /\ (turn = "run" \/ chat)
  /\ slot # None /\ held = None
  /\ slot' = None
  /\ \/ held' = slot
     \/ slot = Say /\ held' = held
  /\ UNCHANGED <<interrupt, marker, era, run, turn, chat, last, clocks, hist>>

PromptDenies ==
  /\ conf.asks /\ (turn = "run" \/ chat) /\ interrupt
  /\ interrupt' = FALSE
  /\ UNCHANGED <<slot, marker, era, run, turn, chat, held, last, clocks, hist>>

(* _requeue_held_says: what was no answer goes back to a free slot, or is dropped. *)
Requeue ==
  /\ Up /\ held # None
  /\ held' = None
  /\ \/ slot = None /\ slot' = held
     \/ UNCHANGED slot
  /\ UNCHANGED <<interrupt, marker, era, run, turn, chat, last, clocks, hist>>

Chat ==
  /\ Up /\ chat' = ~chat
  /\ UNCHANGED <<disk, era, run, turn, held, last, clocks, hist>>

-----------------------------------------------------------------------------
(* _watch_turn_deadline: it looks at a run with something in flight. *)
Overrun(e, s) ==
  /\ ending' = e /\ slot' = Retracted(s) /\ interrupt' = TRUE /\ watch' = "done"

WatchTick ==
  /\ Up /\ watch = "tick" /\ Inflight
  /\ LET e == Retried(ending, slot)
         s == RetriedSlot(ending, slot)
         opened == Opened(e, s)
     IN  IF capDue
         THEN /\ reason' = IF reason = None THEN "duration_cap" ELSE reason
              /\ IF opened.window = "spent"
                 THEN Overrun(opened, OpenedSlot(e, s))
                 ELSE /\ ending' = opened /\ slot' = OpenedSlot(e, s) /\ watch' = "bound"
                      /\ UNCHANGED interrupt
         ELSE /\ UNCHANGED reason
              /\ IF e.window = "spent" /\ conf.grace
                 THEN Overrun(e, s)
                 ELSE ending' = e /\ slot' = s /\ UNCHANGED <<interrupt, watch>>
  /\ UNCHANGED <<marker, era, beat, stopping, ended, turn, chat, held, last, clocks, hist>>

(* Mutant of WatchBound: the watcher returns once the turn it saw at the cap is over. *)
WatchOneTurn ==
  /\ Up /\ watch = "bound"
  /\ IF Inflight /\ ending.window = "spent"
     THEN Overrun(ending, slot)
     ELSE /\ watch' = (IF Inflight THEN "bound" ELSE "done")
          /\ UNCHANGED <<ending, slot, interrupt>>
  /\ UNCHANGED <<marker, era, beat, reason, stopping, ended, turn, chat, held, last, clocks, hist>>

WatchBound ==
  /\ Up /\ watch = "bound" /\ Inflight
  /\ IF ending.window = "spent"
     THEN Overrun(ending, slot)
     ELSE /\ ending' = Retried(ending, slot) /\ slot' = RetriedSlot(ending, slot)
          /\ UNCHANGED <<interrupt, watch>>
  /\ UNCHANGED <<marker, era, beat, reason, stopping, ended, turn, chat, held, last, clocks, hist>>

-----------------------------------------------------------------------------
(* POST /run/stop, and the spend gate's soft trip: a run that ended keeps its reason. *)
RequestStop ==
  /\ Up /\ ~ended /\ ~stopping
  /\ reason' = "asked" /\ stopping' = TRUE
  /\ ending' = Opened(ending, slot) /\ slot' = OpenedSlot(ending, slot)
  /\ UNCHANGED <<interrupt, marker, era, beat, watch, ended, turn, chat, held, last, clocks, hist>>

(* The lifespan's shutdown: a turn with no window open is interrupted.  The process may
   be gone before the loop has wound down.                                               *)
Shutdown ==
  /\ Up
  /\ stopping' = TRUE
  /\ interrupt' = (interrupt \/ (Inflight /\ ~ended /\ ending.window = "none"))
  /\ UNCHANGED <<slot, marker, era, beat, watch, reason, ended, ending>>
  /\ UNCHANGED <<turn, chat, held, last, clocks, hist>>

(* The receipt is out: the ending is recorded, and the process told to leave. *)
Report ==
  /\ beat = "report"
  /\ marker' = [reason |-> reason, boot |-> boot]
  /\ beat' = "told"
  /\ UNCHANGED <<slot, interrupt, era, watch, reason, stopping, ended, ending>>
  /\ UNCHANGED <<turn, chat, held, last, clocks, hist>>

(* The process ends: told to, or anywhere.  A shutdown cancels the consumer, whose
   finally retracts the line of a window that has closed.                            *)
Down ==
  /\ Up
  /\ \/ UNCHANGED slot
     \/ stopping /\ ending.window = "spent" /\ slot' = Retracted(slot)
  /\ beat' = "down" /\ watch' = "done" /\ turn' = "none" /\ chat' = FALSE /\ held' = None
  /\ reason' = None /\ stopping' = FALSE /\ ended' = FALSE /\ ending' = Fresh /\ last' = None
  /\ capDue' = FALSE /\ idleDue' = FALSE /\ delivered' = 0 /\ truth' = None
  /\ UNCHANGED <<interrupt, marker, era>>

Reboot ==
  /\ ~Up /\ boot < MaxStart
  /\ boot' = boot + 1
  /\ UNCHANGED <<disk, conf, starts, run, turn, chat, held, last, clocks, hist>>

(* Mutant of KeptCap: every ending is cleared at a start. *)
KeptNone == FALSE

(* _clear_run_stop_reason: this boot's cap is kept ... *)
KeptCap == marker # None /\ marker.reason = "duration_cap" /\ marker.boot = boot

(* ... and the process starts ended, where any other opens a run of its own. *)
Start ==
  /\ ~Up /\ starts < MaxStart
  /\ starts' = starts + 1
  /\ slot' = Retracted(slot)
  /\ IF KeptCap
     THEN beat' = "off" /\ ended' = TRUE /\ reason' = "duration_cap" /\ UNCHANGED <<marker, watch>>
     ELSE beat' = "asleep" /\ watch' = "tick" /\ marker' = None /\ UNCHANGED <<ended, reason>>
  /\ UNCHANGED <<interrupt, conf, boot, stopping, ending, turn, chat, held, last, clocks, hist>>

-----------------------------------------------------------------------------
SayArrives ==
  /\ slot = None /\ slot' = Say
  /\ UNCHANGED <<interrupt, marker, era, run, turn, chat, held, last, clocks, hist>>

CapComes ==
  /\ conf.capped /\ ~capDue /\ beat \in {"asleep", "turn"}
  /\ capDue' = TRUE
  /\ UNCHANGED <<disk, era, run, turn, chat, held, last, idleDue, hist>>

IdleComes ==
  /\ conf.idle /\ ~idleDue /\ beat = "asleep"
  /\ idleDue' = TRUE
  /\ UNCHANGED <<disk, era, run, turn, chat, held, last, capDue, hist>>

WindowCloses ==
  /\ ending.window = "open"
  /\ ending' = [ending EXCEPT !.window = "spent"]
  /\ UNCHANGED <<disk, era, beat, watch, reason, stopping, ended>>
  /\ UNCHANGED <<turn, chat, held, last, clocks, hist>>

-----------------------------------------------------------------------------
Turn == \/ TurnComposed \/ TurnRefused \/ TurnFails \/ TurnInterrupted \/ TurnStopped \/ DigestTimesOut \/ TurnEnds
        \/ \E how \in {"completed", "other"} : TurnDone(how)

Slot == SayArrives \/ MidTurnSay \/ PromptReads \/ PromptDenies \/ Requeue

Time == CapComes \/ IdleComes \/ WindowCloses

Next == \/ Beat \/ Turn \/ Slot \/ Chat \/ WatchTick \/ WatchBound \/ RequestStop \/ Shutdown
        \/ Report \/ Down \/ Reboot \/ Start \/ Time

Spec == Init /\ [][Next]_vars

(* The loop runs what is ready, clocks advance, and what is bounded by a timeout ends.
   A turn need never end by itself.                                                    *)
Fairness == /\ WF_vars(Beat) /\ WF_vars(WatchTick) /\ WF_vars(WatchBound) /\ WF_vars(Report)
            /\ WF_vars(TurnComposed) /\ WF_vars(TurnInterrupted) /\ WF_vars(TurnEnds)
            /\ WF_vars(DigestTimesOut) /\ WF_vars(WindowCloses)

FairSpec == Spec /\ Fairness

-----------------------------------------------------------------------------
(* The ending is delivered at most once in a run, and only while it is ending: never a
   line a former process left in the slot.                                             *)
LineOnce == delivered <= 1 /\ (delivered = 1 => ending.window # "none")

(* While the window is open TAKEN is recorded only when a turn really was given the line,
   whoever else writes and empties the slot, unless an approval prompt may have read it.  *)
TakenMeansDelivered ==
  ~conf.asks /\ ending.window = "open" /\ ending.taken => delivered = 1

(* So the ending reaches one turn, no more, and none is on record that did not. *)
EndingReachesOneTurn == LineOnce /\ TakenMeansDelivered

(* A line nobody took does not outlive the run it ends: the digest turn finds none, and
   the next run none.                                                                   *)
NoLineLeft == ~conf.asks /\ ended => slot # Line

(* Nothing of the program's own interrupts the digest. *)
DigestUninterrupted == beat = "digest" => ~interrupt

(* Neither of the two things by which the program itself ends a turn, its line and its
   interrupt, is left to reach a turn after the run: the digest or the next run's first. *)
NothingIsLeft == NoLineLeft /\ DigestUninterrupted

(* A run opens with no earlier ending on the health surface, and the ending of a run that
   its cap ended stands as long as the boot: a restart opens no other run.               *)
EndingStands ==
  [][/\ beat' \in {"asleep", "turn"} => marker' = None
     /\ marker # None /\ marker.reason = "duration_cap" /\ boot' = marker.boot
          => marker' = marker]_vars

(* An operator's pending say leaves the slot only into a turn or a prompt. *)
SayIsNeverDropped ==
  [][slot = Say /\ slot' # Say => chat \/ turn = "run" \/ turn' = "slash"]_vars

(* A run whose time is up ends, however long its turn would go on. *)
CapEndsTheRun == capDue /\ ~conf.asks ~> (beat \in {"told", "down"})

-----------------------------------------------------------------------------
(* "DONE needs three conditions ... The last turn's stop_reason is completed." *)
DoneMeansCompleted == ending.done => truth = "completed"
=============================================================================
