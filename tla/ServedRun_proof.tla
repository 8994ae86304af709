-------------------------- MODULE ServedRun_proof --------------------------
(***************************************************************************)
(* Proofs about ServedRun for every configuration, any number of starts and *)
(* of boots: where the ending line is, what the next turn may find, when   *)
(* an ending counts as done, and who cuts a turn whose time is up.         *)
(***************************************************************************)
EXTENDS ServedRun, TLAPS

USE ConfAssumption, StartAssumption, NoneAssumption DEF Line, Say

Texts == {None, Line, Say}
Endings == [window : {"none", "open", "spent"}, written : BOOLEAN, taken : BOOLEAN, done : BOOLEAN]

-----------------------------------------------------------------------------
(* An ending `e` beside a slot that holds `s`: the line is in one place at a time - the slot, a
   prompt's hands, or a turn - and nowhere before it was written; while the window is open it
   leaves the slot only into a turn, unless prompts may read it.                              *)
Sound(e, s) ==
  /\ e \in Endings /\ s \in Texts
  /\ (e.written => e.window # "none") /\ (e.taken => e.written) /\ (e.done => e.taken)
  /\ ~e.written => s # Line /\ held # Line /\ delivered = 0
  /\ s = Line => held # Line /\ delivered = 0
  /\ held = Line => delivered = 0
  /\ delivered \in 0..1
  /\ ~conf.asks => /\ held = None /\ (e.taken => s # Line)
                   /\ e.written /\ e.window = "open" /\ s # Line => delivered = 1

(* What the parts of an ending do to it. *)
LEMMA OpenedSound ==
  ASSUME NEW e, NEW s, Sound(e, s)
  PROVE  Sound(Opened(e, s), OpenedSlot(e, s)) /\ (s = Say => OpenedSlot(e, s) = Say)
BY DEF Sound, Opened, OpenedSlot, Endings, Texts

LEMMA RetriedSound ==
  ASSUME NEW e, NEW s, Sound(e, s)
  PROVE  Sound(Retried(e, s), RetriedSlot(e, s)) /\ (s = Say => RetriedSlot(e, s) = Say)
BY DEF Sound, Retried, RetriedSlot, Retries, Endings, Texts

LEMMA SeenSound == ASSUME NEW e, NEW s, Sound(e, s) PROVE Sound(Seen(e, s), s)
BY DEF Sound, Seen, Endings, Texts

LEMMA FinishedSound ==
  ASSUME NEW e, NEW s, NEW how, NEW busy, Sound(e, s) PROVE Sound(Finished(e, how, busy), s)
BY DEF Sound, Finished, Endings, Texts

LEMMA RetractedSound ==
  ASSUME NEW e, NEW s, Sound(e, s), e.window = "spent"
  PROVE  Sound(e, Retracted(s)) /\ Retracted(s) # Line /\ (s = Say => Retracted(s) = Say)
BY DEF Sound, Retracted, Endings, Texts

-----------------------------------------------------------------------------
(* Where the run stands: its beat, its turn and its watcher agree, a process that is down holds
   nothing, and a run on its way has no ending on record.                                      *)
Places ==
  /\ ended => watch = "done"
  /\ beat = "down" => /\ watch = "done" /\ ~chat /\ held = None /\ delivered = 0 /\ ending = Fresh
                     /\ reason = None
  /\ beat \in {"asleep", "turn", "digest", "report"} => marker = None
  /\ beat = "digest" => ~interrupt
  /\ beat \in {"digest", "report"} => reason \in Reasons

Flags == /\ interrupt \in BOOLEAN /\ stopping \in BOOLEAN /\ ended \in BOOLEAN /\ chat \in BOOLEAN
         /\ capDue \in BOOLEAN /\ idleDue \in BOOLEAN

Values ==
  /\ conf \in Configs /\ slot \in Texts
  /\ marker \in {None} \cup [reason : Reasons, boot : 1..MaxStart]
  /\ boot \in 1..MaxStart /\ starts \in 1..MaxStart
  /\ beat \in {"down", "off", "asleep", "turn", "digest", "report", "told"}
  /\ watch \in {"tick", "bound", "done"} /\ turn \in {"none", "slash", "run", "saved"}
  /\ (turn # "none") <=> (beat \in {"turn", "digest"})
  /\ held \in Texts /\ reason \in Reasons \cup {None}
  /\ ended <=> beat \in {"off", "digest", "report", "told"}
  /\ ending \in Endings
  /\ last \in Ends \cup {None} /\ truth \in Ends \cup {None, "failed"} /\ delivered \in Nat

Held == /\ beat # "down" => Sound(ending, slot)
        /\ ~conf.asks /\ ended => slot # Line

Inv == Flags /\ Values /\ Places /\ Held

LEMMA InitInv == Init => Inv
<1> SUFFICES ASSUME Init PROVE Inv
  OBVIOUS
<1>1. Flags
  BY Zenon DEF Init, Flags
<1>3. Values
  BY DEF Init, Values, Texts, Endings, Fresh
<1>2. Places /\ Held
  BY DEF Init, Places, Held, Sound, Endings, Texts, Fresh
<1> QED
  BY <1>1, <1>2, <1>3 DEF Inv

(* A beat exits, starts a turn, or rests, on an ending and a slot that are as sound as those it
   found.                                                                                      *)
LEMMA BeatParts ==
  ASSUME Inv, Beat
  PROVE  \E r \in Reasons \cup {None}, e \in Endings, s \in Texts :
           /\ Sound(e, s) /\ (slot = Say => s = Say)
           /\ \/ ~Keeps(e) /\ Exit(r, e, s)
              \/ Consumes(r, e, s)
              \/ (Inflight \/ s = None) /\ Rests(r, e, s)
<1> DEFINE cap == capDue
           r1 == IF cap THEN "duration_cap" ELSE reason
           e1 == IF cap THEN Opened(ending, slot) ELSE ending
           s1 == IF cap THEN OpenedSlot(ending, slot) ELSE slot
           idle == idleDue /\ ~Inflight
           r2 == IF idle THEN "idle" ELSE r1
           e2 == IF idle THEN Opened(e1, s1) ELSE e1
           s2 == IF idle THEN OpenedSlot(e1, s1) ELSE s1
<1>1. \/ ~Keeps(ending) /\ Exit(reason, ending, slot)
      \/ ~Keeps(e1) /\ Exit(r1, e1, s1)
      \/ ~Keeps(e2) /\ Exit(r2, e2, s2)
      \/ Consumes(r2, e2, s2)
      \/ (Inflight \/ s2 = None) /\ Rests(r2, e2, s2)
  BY DEF Beat
<1>2. Sound(ending, slot) /\ reason \in Reasons \cup {None}
  BY DEF Beat, Inv, Held, Values
<1>3. Sound(e1, s1) /\ (slot = Say => s1 = Say) /\ r1 \in Reasons \cup {None}
  BY <1>2, OpenedSound DEF Reasons
<1>4. Sound(e2, s2) /\ (slot = Say => s2 = Say) /\ r2 \in Reasons \cup {None}
  BY <1>3, OpenedSound DEF Reasons
<1>5. \A e, s : Sound(e, s) => e \in Endings /\ s \in Texts
  BY DEF Sound
<1> HIDE DEF r1, e1, s1, r2, e2, s2
<1> QED
  BY <1>1, <1>2, <1>3, <1>4, <1>5

(* What Exit leaves in the slot. *)
LEMMA ExitSound ==
  ASSUME NEW r, NEW e, NEW s, Sound(e, s), ~Keeps(e), Exit(r, e, s)
  PROVE  Sound(ending', slot') /\ (~conf.asks => slot' # Line) /\ (s = Say => slot' = Say)
<1>1. ending' = e /\ slot' = (IF e.window = "spent" THEN Retracted(s) ELSE s)
  BY DEF Exit, ExitWith
<1>2. CASE e.window = "spent"
  BY <1>1, <1>2, RetractedSound
<1>3. CASE e.window # "spent"
  BY <1>1, <1>3 DEF Sound, Keeps, Endings
<1> QED
  BY <1>2, <1>3

(* What the watcher and a request to stop leave. *)
LEMMA WatchSound ==
  ASSUME Inv, WatchTick \/ WatchBound \/ RequestStop
  PROVE  Sound(ending', slot') /\ (slot = Say => slot' = Say)
<1>0. Sound(ending, slot) /\ conf.grace \in BOOLEAN
  BY DEF WatchTick, WatchBound, RequestStop, Up, Inv, Held, Values, Conf
<1>1. CASE WatchTick
  <2> DEFINE e == Retried(ending, slot)
             s == RetriedSlot(ending, slot)
             opened == Opened(e, s)
             t == OpenedSlot(e, s)
  <2>1. Sound(e, s) /\ (slot = Say => s = Say)
    BY <1>0, RetriedSound
  <2>2. Sound(opened, t) /\ (s = Say => t = Say)
    BY <2>1, OpenedSound
  <2>3. \/ ending' = opened /\ slot' = Retracted(t) /\ opened.window = "spent"
        \/ ending' = opened /\ slot' = t
        \/ ending' = e /\ slot' = Retracted(s) /\ e.window = "spent"
        \/ ending' = e /\ slot' = s
    BY <1>1 DEF WatchTick, Overrun
  <2> HIDE DEF e, s, opened, t
  <2> QED
    BY <2>1, <2>2, <2>3, RetractedSound
<1>2. CASE WatchBound
  <2>1. \/ ending' = ending /\ slot' = Retracted(slot) /\ ending.window = "spent"
        \/ ending' = Retried(ending, slot) /\ slot' = RetriedSlot(ending, slot)
    BY <1>2 DEF WatchBound, Overrun
  <2> QED
    BY <1>0, <2>1, RetriedSound, RetractedSound
<1>3. CASE RequestStop
  BY <1>0, <1>3, OpenedSound DEF RequestStop
<1> QED
  BY <1>1, <1>2, <1>3

(* What the end of a turn leaves. *)
LEMMA TurnEndsSound ==
  ASSUME Inv, TurnEnds
  PROVE  Sound(ending', slot') /\ (slot = Say => slot' = Say) /\ (ended => slot' = slot)
<1>1. Sound(ending, slot)
  BY DEF Inv, Held, Values, TurnEnds
<1> DEFINE over == Finished(Seen(ending, slot), last, chat)
           after == Retried(over, slot)
           t == RetriedSlot(over, slot)
<1>2. Sound(over, slot)
  BY <1>1, SeenSound, FinishedSound
<1>3. Sound(after, t) /\ (slot = Say => t = Say)
  BY <1>2, RetriedSound
<1>4. Sound(Finished(Seen(after, t), last, chat), t)
  BY <1>3, SeenSound, FinishedSound
<1>5. \/ beat = "turn" /\ ending' = Finished(Seen(after, t), last, chat) /\ slot' = t
      \/ beat # "turn" /\ ending' = over /\ slot' = slot
  BY DEF TurnEnds
<1>6. ended => beat # "turn"
  BY DEF Inv, Values
<1> HIDE DEF over, after, t
<1> QED
  BY <1>2, <1>3, <1>4, <1>5, <1>6

-----------------------------------------------------------------------------
LEMMA NextValues == Inv /\ [Next]_vars => Values'
<1> SUFFICES ASSUME Inv, [Next]_vars PROVE Values'
  OBVIOUS
<1>0. Values /\ Places
  BY DEF Inv
<1>s. \A e, s : Sound(e, s) => e \in Endings /\ s \in Texts
  BY DEF Sound
<1> USE <1>0 DEF Values,  disk, era, hist, clocks, run
<1>1. CASE Beat
  <2>1. PICK r \in Reasons \cup {None}, e \in Endings, s \in Texts :
           /\ Sound(e, s) /\ (slot = Say => s = Say)
           /\ \/ ~Keeps(e) /\ Exit(r, e, s)
              \/ Consumes(r, e, s)
              \/ (Inflight \/ s = None) /\ Rests(r, e, s)
    BY <1>1, BeatParts
  <2>0. /\ beat = "asleep" /\ turn = "none"
        /\ UNCHANGED <<marker, era, stopping, chat, held, last, clocks, truth>>
    BY <1>1 DEF Beat, Places
  <2>2. CASE Exit(r, e, s) /\ ~Keeps(e)
    <3>1. Sound(ending', slot')
      BY <2>1, <2>2, ExitSound
    <3>2. ending' \in Endings /\ slot' \in Texts
      BY <1>s, <3>1
    <3>3. /\ reason' \in Reasons /\ delivered' = delivered /\ ended' = TRUE /\ watch' = "done"
          /\ \/ beat' = "report" /\ UNCHANGED <<turn, interrupt>>
             \/ beat' = "digest" /\ turn' = "slash" /\ interrupt' = FALSE
      BY <2>1, <2>2 DEF Exit, ExitWith, BeginTurn, Reasons
    <3> QED
      BY <2>0, <3>2, <3>3 DEF Endings, Texts
  <2>3. CASE Consumes(r, e, s)
    BY <2>0, <2>1, <2>3 DEF Consumes, BeginTurn, Endings, Texts, Places
  <2>4. CASE Rests(r, e, s)
    <3>1. Sound(ending', slot')
      BY <2>1, <2>4, RetriedSound, SeenSound, FinishedSound DEF Rests
    <3>2. ending' \in Endings /\ slot' \in Texts
      BY <1>s, <3>1
    <3> QED
      BY <2>0, <2>1, <2>4, <3>2 DEF Rests, Endings, Texts
  <2> QED
    BY <2>1, <2>2, <2>3, <2>4
<1>2. CASE Turn
  <2>1. CASE TurnComposed \/ TurnRefused \/ TurnFails \/ TurnInterrupted \/ TurnStopped \/ DigestTimesOut
    BY <2>1 DEF TurnComposed, TurnRefused, TurnFails, TurnInterrupted, TurnStopped, DigestTimesOut, Ends
  <2>2. ASSUME NEW how \in {"completed", "other"}, TurnDone(how) PROVE Values'
    BY <2>2 DEF TurnDone, Ends
  <2>3. CASE TurnEnds
    <3>1. Sound(ending', slot')
      BY <2>3, TurnEndsSound
    <3>2. ending' \in Endings /\ slot' \in Texts
      BY <1>s, <3>1
    <3> QED
      BY <2>3, <3>2 DEF TurnEnds
  <2> QED
    BY <1>2, <2>1, <2>2, <2>3 DEF Turn
<1>3. CASE Slot
  BY <1>3 DEF Slot, SayArrives, MidTurnSay, PromptReads, PromptDenies, Requeue, Texts
<1>4. CASE Chat \/ Shutdown \/ Report
  BY <1>4 DEF Chat, Shutdown, Report, Places
<1>5. CASE WatchTick \/ WatchBound \/ RequestStop
  <2>1. ending' \in Endings /\ slot' \in Texts
    BY <1>s, <1>5, WatchSound
  <2> QED
    BY <1>5, <2>1 DEF WatchTick, WatchBound, RequestStop, Overrun, Reasons
<1>6. CASE Down
  BY <1>6 DEF Down, Fresh, Retracted, Texts, Endings, Reasons
<1>7. CASE Reboot
  BY <1>7 DEF Reboot
<1>8. CASE Start
  BY <1>8 DEF Start, Up, Retracted, Texts, Reasons
<1>9. CASE Time
  BY <1>9 DEF Time, CapComes, IdleComes, WindowCloses, Endings
<1>10. CASE UNCHANGED vars
  BY <1>10 DEF vars
<1> QED
  BY <1>1, <1>2, <1>3, <1>4, <1>5, <1>6, <1>7, <1>8, <1>9, <1>10 DEF Next

LEMMA NextFlags == Inv /\ [Next]_vars => Flags'
<1> SUFFICES ASSUME Inv, [Next]_vars PROVE Flags'
  OBVIOUS
<1>0. Flags
  BY DEF Inv
<1> USE <1>0 DEF Flags, disk, era, hist, clocks, run
<1>1. CASE Beat
  <2>1. PICK r, e, s : Exit(r, e, s) \/ Consumes(r, e, s) \/ Rests(r, e, s)
    BY <1>1, BeatParts
  <2>2. interrupt' \in BOOLEAN /\ ended' \in BOOLEAN
    BY <2>1, Zenon DEF Exit, ExitWith, Consumes, Rests, BeginTurn
  <2> QED
    BY <1>1, <2>2 DEF Beat
<1>2. CASE Turn
  <2>1. CASE TurnComposed \/ TurnRefused \/ TurnFails \/ TurnStopped \/ DigestTimesOut
    BY <2>1 DEF TurnComposed, TurnRefused, TurnFails, TurnStopped, DigestTimesOut
  <2>2. ASSUME NEW how \in {"completed", "other"}, TurnDone(how) PROVE Flags'
    BY <2>2 DEF TurnDone
  <2>3. CASE TurnInterrupted
    <3>1. interrupt' \in BOOLEAN
      BY <2>3, Zenon DEF TurnInterrupted
    <3> QED
      BY <2>3, <3>1 DEF TurnInterrupted
  <2>4. CASE TurnEnds
    <3>1. idleDue' \in BOOLEAN
      BY <2>4, Zenon DEF TurnEnds
    <3> QED
      BY <2>4, <3>1 DEF TurnEnds
  <2> QED
    BY <1>2, <2>1, <2>2, <2>3, <2>4 DEF Turn
<1>3. CASE Slot
  <2>1. interrupt' \in BOOLEAN
    BY <1>3, Zenon DEF Slot, SayArrives, MidTurnSay, PromptReads, PromptDenies, Requeue
  <2> QED
    BY <1>3, <2>1 DEF Slot, SayArrives, MidTurnSay, PromptReads, PromptDenies, Requeue
<1>4. CASE Chat \/ Shutdown \/ Report \/ RequestStop
  <2>1. chat' \in BOOLEAN /\ stopping' \in BOOLEAN /\ interrupt' \in BOOLEAN
    BY <1>4, Zenon DEF Chat, Shutdown, Report, RequestStop
  <2> QED
    BY <1>4, <2>1 DEF Chat, Shutdown, Report, RequestStop
<1>5. CASE WatchTick \/ WatchBound
  <2>1. interrupt' \in BOOLEAN
    BY <1>5, Zenon DEF WatchTick, WatchBound, Overrun
  <2> QED
    BY <1>5, <2>1 DEF WatchTick, WatchBound
<1>6. CASE Down
  <2>1. stopping' \in BOOLEAN /\ ended' \in BOOLEAN /\ chat' \in BOOLEAN /\ capDue' \in BOOLEAN
        /\ idleDue' \in BOOLEAN
    BY <1>6, Zenon DEF Down
  <2> QED
    BY <1>6, <2>1 DEF Down
<1>7. CASE Reboot \/ Start
  <2>1. ended' \in BOOLEAN
    BY <1>7, Zenon DEF Reboot, Start
  <2> QED
    BY <1>7, <2>1 DEF Reboot, Start
<1>8. CASE Time
  <2>1. capDue' \in BOOLEAN /\ idleDue' \in BOOLEAN
    BY <1>8, Zenon DEF Time, CapComes, IdleComes, WindowCloses
  <2> QED
    BY <1>8, <2>1 DEF Time, CapComes, IdleComes, WindowCloses
<1>9. CASE UNCHANGED vars
  BY <1>9 DEF vars
<1> QED
  BY <1>1, <1>2, <1>3, <1>4, <1>5, <1>6, <1>7, <1>8, <1>9 DEF Next

LEMMA NextPlaces == Inv /\ [Next]_vars => Places'
<1> SUFFICES ASSUME Inv, [Next]_vars PROVE Places'
  OBVIOUS
<1>0. Values /\ Places
  BY DEF Inv
<1> USE <1>0 DEF Places, Values, disk, era, hist, clocks, run
<1>1. CASE Beat
  <2>1. PICK r \in Reasons \cup {None}, e \in Endings, s \in Texts :
              Exit(r, e, s) \/ Consumes(r, e, s) \/ Rests(r, e, s)
    BY <1>1, BeatParts
  <2>2. beat = "asleep" /\ UNCHANGED <<marker, chat, held>>
    BY <1>1 DEF Beat
  <2>3. CASE Exit(r, e, s)
    BY <2>1, <2>2, <2>3 DEF Exit, ExitWith, BeginTurn, Reasons
  <2>4. CASE Consumes(r, e, s)
    BY <2>2, <2>4 DEF Consumes
  <2>5. CASE Rests(r, e, s)
    BY <2>2, <2>5 DEF Rests
  <2> QED
    BY <2>1, <2>3, <2>4, <2>5
<1>2. CASE Turn
  BY <1>2 DEF Turn, TurnComposed, TurnRefused, TurnFails, TurnInterrupted, TurnStopped,
              DigestTimesOut, TurnDone, TurnEnds
<1>3. CASE Slot
  <2>1. CASE SayArrives \/ PromptDenies
    BY <2>1 DEF SayArrives, PromptDenies
  <2>2. CASE MidTurnSay \/ PromptReads \/ Requeue
    <3>1. beat # "down"
      BY <2>2 DEF MidTurnSay, PromptReads, Requeue, Up
    <3> QED
      BY <2>2, <3>1 DEF MidTurnSay, PromptReads, Requeue
  <2> QED
    BY <1>3, <2>1, <2>2 DEF Slot
<1>4. CASE Chat \/ Shutdown \/ Report \/ RequestStop
  <2>1. CASE Chat \/ Report \/ RequestStop
    BY <2>1 DEF Chat, Report, RequestStop, Up
  <2>2. CASE Shutdown
    <3>1. beat = "digest" => ~interrupt'
      BY <2>2 DEF Shutdown
    <3> QED
      BY <2>2, <3>1 DEF Shutdown
  <2> QED
    BY <1>4, <2>1, <2>2
<1>5. CASE WatchTick \/ WatchBound
  <2>1. watch # "done" /\ beat \in {"asleep", "turn"} /\ ~ended
    BY <1>5 DEF WatchTick, WatchBound, Up
  <2>2. UNCHANGED <<marker, beat, ended, turn, chat, held>>
    BY <1>5 DEF WatchTick, WatchBound
  <2> QED
    BY <2>1, <2>2
<1>6. CASE Down \/ Reboot
  BY <1>6 DEF Down, Reboot
<1>7. CASE Start
  BY <1>7 DEF Start, Up
<1>8. CASE Time
  BY <1>8 DEF Time, CapComes, IdleComes, WindowCloses, Fresh
<1>9. CASE UNCHANGED vars
  BY <1>9 DEF vars
<1> QED
  BY <1>1, <1>2, <1>3, <1>4, <1>5, <1>6, <1>7, <1>8, <1>9 DEF Next

LEMMA NextHeld == Inv /\ [Next]_vars => Held'
<1> SUFFICES ASSUME Inv, [Next]_vars PROVE Held'
  OBVIOUS
<1>0. Values /\ Places /\ Held
  BY DEF Inv
(* Most steps leave the rest of what Sound speaks of alone. *)
<1>s. ASSUME Sound(ending', slot'), UNCHANGED <<conf, held, delivered>>,
             ~conf.asks /\ ended' => slot' # Line
      PROVE  Held'
  BY <1>s DEF Held, Sound
<1>u. ASSUME UNCHANGED <<conf, held, delivered, ending, slot, beat, ended>> PROVE Held'
  BY <1>0, <1>u DEF Held, Sound
<1> USE DEF disk, era, hist, clocks, run
<1>1. CASE Beat
  <2>1. PICK r \in Reasons \cup {None}, e \in Endings, s \in Texts :
           /\ Sound(e, s) /\ (slot = Say => s = Say)
           /\ \/ ~Keeps(e) /\ Exit(r, e, s)
              \/ Consumes(r, e, s)
              \/ (Inflight \/ s = None) /\ Rests(r, e, s)
    BY <1>1, BeatParts
  <2>2. beat = "asleep" /\ ~ended /\ UNCHANGED <<conf, held>>
    BY <1>0, <1>1 DEF Beat, Values
  <2>3. CASE ~Keeps(e) /\ Exit(r, e, s)
    <3>1. Sound(ending', slot') /\ (~conf.asks => slot' # Line)
      BY <2>1, <2>3, ExitSound
    <3>2. delivered' = delivered
      BY <2>3 DEF Exit, ExitWith
    <3> QED
      BY <1>s, <2>2, <3>1, <3>2
  <2>4. CASE Consumes(r, e, s)
    <3>1. /\ ending' = e /\ slot' = None /\ ended' = ended
          /\ delivered' = IF s = Line THEN delivered + 1 ELSE delivered
      BY <2>1, <2>4 DEF Consumes, Texts
    <3> QED
      BY <2>1, <2>2, <3>1 DEF Held, Sound, Texts
  <2>5. CASE Rests(r, e, s)
    <3>1. Sound(ending', slot')
      BY <2>1, <2>5, RetriedSound, SeenSound, FinishedSound DEF Rests
    <3>2. ended' = ended /\ delivered' = delivered
      BY <2>5 DEF Rests
    <3> QED
      BY <1>s, <2>2, <3>1, <3>2
  <2> QED
    BY <2>1, <2>3, <2>4, <2>5
<1>2. CASE Turn
  <2>1. CASE TurnEnds
    <3>1. Sound(ending', slot') /\ (ended => slot' = slot) /\ UNCHANGED <<conf, held, delivered, ended>>
      BY <2>1, TurnEndsSound DEF TurnEnds
    <3> QED
      BY <1>0, <1>s, <3>1 DEF Held
  <2>2. CASE ~TurnEnds
    BY <1>2, <1>u, <2>2 DEF Turn, TurnComposed, TurnRefused, TurnFails, TurnInterrupted, TurnStopped,
                            DigestTimesOut, TurnDone
  <2> QED
    BY <2>1, <2>2
<1>3. CASE Slot
  <2>1. CASE SayArrives
    BY <1>0, <2>1 DEF SayArrives, Held, Sound, Texts
  <2>2. CASE PromptDenies
    BY <1>u, <2>2 DEF PromptDenies
  <2>3. CASE MidTurnSay \/ PromptReads \/ Requeue
    <3>1. Sound(ending, slot) /\ beat' = beat /\ ended' = ended /\ conf' = conf /\ ending' = ending
      BY <1>0, <2>3 DEF MidTurnSay, PromptReads, Requeue, Up, Held, Places, Values
    <3> QED
      BY <1>0, <2>3, <3>1 DEF MidTurnSay, PromptReads, Requeue, Held, Sound, Values, Texts
  <2> QED
    BY <1>3, <2>1, <2>2, <2>3 DEF Slot
<1>4. CASE Chat \/ Shutdown
  BY <1>4, <1>u DEF Chat, Shutdown
<1>5. CASE Report
  BY <1>0, <1>5 DEF Report, Held, Sound
<1>6. CASE WatchTick \/ WatchBound \/ RequestStop
  <2>1. Sound(ending', slot')
    BY <1>6, WatchSound
  <2>2. ~ended' /\ UNCHANGED <<conf, held, delivered>>
    BY <1>0, <1>6 DEF WatchTick, WatchBound, RequestStop, Places
  <2> QED
    BY <1>s, <2>1, <2>2
<1>7. CASE Down
  BY <1>7 DEF Down, Held
<1>8. CASE Reboot
  BY <1>8, <1>u DEF Reboot
<1>9. CASE Start
  <2>1. slot' # Line /\ slot' \in Texts
    BY <1>0, <1>9 DEF Start, Retracted, Values, Texts
  <2>2. ending' = Fresh /\ delivered' = 0 /\ held' = None
    BY <1>0, <1>9 DEF Start, Up, Places
  <2> QED
    BY <2>1, <2>2 DEF Held, Sound, Fresh, Endings
<1>10. CASE Time
  <2>1. CASE CapComes \/ IdleComes
    BY <1>u, <2>1 DEF CapComes, IdleComes
  <2>2. CASE WindowCloses
    BY <1>0, <2>2 DEF WindowCloses, Held, Sound, Endings
  <2> QED
    BY <1>10, <2>1, <2>2 DEF Time
<1>11. CASE UNCHANGED vars
  BY <1>11, <1>u DEF vars
<1> QED
  BY <1>1, <1>2, <1>3, <1>4, <1>5, <1>6, <1>7, <1>8, <1>9, <1>10, <1>11 DEF Next

LEMMA InvAlways == Spec => []Inv
<1>1. Inv /\ [Next]_vars => Inv'
  BY NextFlags, NextValues, NextPlaces, NextHeld DEF Inv
<1> QED
  BY InitInv, <1>1, PTL DEF Spec

-----------------------------------------------------------------------------
(* Every variable keeps its type (TypeOK), and with it the flags of an ended run agree with
   where its consumer stands.                                                               *)
THEOREM TypeCorrect == Spec => []TypeOK
<1>1. Inv => TypeOK
  BY DEF Inv, Flags, Values, TypeOK, Texts, Endings
<1> QED
  BY <1>1, InvAlways, PTL

(* The ending line is delivered at most once in a run, and only while it ends, and while the
   window is open TAKEN is recorded of a line a turn was given.                             *)
THEOREM EndingReachesOneTurnAlways == Spec => []EndingReachesOneTurn
<1>1. Inv => LineOnce
  BY DEF Inv, Places, Held, Sound, LineOnce
<1>2. Inv => TakenMeansDelivered
  BY DEF Inv, Places, Held, Sound, TakenMeansDelivered, Fresh
<1>3. Inv => EndingReachesOneTurn
  BY <1>1, <1>2 DEF EndingReachesOneTurn
<1> QED
  BY <1>3, InvAlways, PTL

(* A line nobody took is gone once the run has ended (NoLineLeft). *)
THEOREM NoLineLeftAlways == Spec => []NoLineLeft
<1>1. Inv => NoLineLeft
  BY DEF Inv, Held, NoLineLeft
<1> QED
  BY <1>1, InvAlways, PTL

(* Nothing of the program's own interrupts the digest turn (DigestUninterrupted). *)
THEOREM DigestUninterruptedAlways == Spec => []DigestUninterrupted
<1>1. Inv => DigestUninterrupted
  BY DEF Inv, Places, DigestUninterrupted
<1> QED
  BY <1>1, InvAlways, PTL

(* So nothing of the program's own is left to reach a turn after the run (NothingIsLeft). *)
THEOREM NothingIsLeftAlways == Spec => []NothingIsLeft
<1>1. NoLineLeft /\ DigestUninterrupted => NothingIsLeft
  BY DEF NothingIsLeft
<1> QED
  BY NoLineLeftAlways, DigestUninterruptedAlways, <1>1, PTL

(* A run opens with no ending on record, and a cap's ending stands as long as its boot
   (EndingStands).                                                                     *)
THEOREM EndingStandsAlways == Spec => EndingStands
<1>1. Inv /\ Inv' /\ [Next]_vars =>
        [/\ beat' \in {"asleep", "turn"} => marker' = None
         /\ marker # None /\ marker.reason = "duration_cap" /\ boot' = marker.boot
              => marker' = marker]_vars
  <2> SUFFICES ASSUME Inv, Inv', Next, marker # None, marker.reason = "duration_cap",
                      boot' = marker.boot
               PROVE  marker' = marker
    BY DEF Inv, Places, vars
  <2>1. CASE Report
    BY <2>1 DEF Report, Inv, Places
  <2>2. CASE Start
    BY <2>2 DEF Start, KeptCap
  <2>3. CASE ~Report /\ ~Start
    BY <2>3 DEF Next, Beat, Turn, TurnComposed, TurnRefused, TurnFails, TurnInterrupted, TurnStopped,
                DigestTimesOut, TurnDone, TurnEnds, Slot, SayArrives, MidTurnSay, PromptReads,
                PromptDenies, Requeue, Chat, WatchTick, WatchBound, RequestStop, Shutdown, Down,
                Reboot, Time, CapComes, IdleComes, WindowCloses, disk
  <2> QED
    BY <2>1, <2>2, <2>3
<1> QED
  BY <1>1, InvAlways, PTL DEF Spec, EndingStands

(* An operator's pending say leaves the slot only into a turn or a prompt (SayIsNeverDropped). *)
THEOREM SayIsNeverDroppedAlways == Spec => SayIsNeverDropped
<1>1. Inv /\ [Next]_vars => [slot = Say /\ slot' # Say => chat \/ turn = "run" \/ turn' = "slash"]_vars
  <2> SUFFICES ASSUME Inv, Next, slot = Say, slot' # Say
               PROVE  chat \/ turn = "run" \/ turn' = "slash"
    OBVIOUS
  <2>1. CASE Beat
    <3>1. PICK r \in Reasons \cup {None}, e \in Endings, s \in Texts :
             /\ Sound(e, s) /\ (slot = Say => s = Say)
             /\ \/ ~Keeps(e) /\ Exit(r, e, s)
                \/ Consumes(r, e, s)
                \/ (Inflight \/ s = None) /\ Rests(r, e, s)
      BY <2>1, BeatParts
    <3>2. CASE ~Keeps(e) /\ Exit(r, e, s)
      BY <3>1, <3>2, ExitSound
    <3>3. CASE Consumes(r, e, s)
      BY <3>1, <3>3 DEF Consumes, BeginTurn
    <3>4. CASE Rests(r, e, s)
      BY <3>1, <3>4, RetriedSound DEF Rests
    <3> QED
      BY <3>1, <3>2, <3>3, <3>4
  <2>2. CASE TurnEnds
    BY <2>2, TurnEndsSound
  <2>3. CASE WatchTick \/ WatchBound \/ RequestStop
    BY <2>3, WatchSound
  <2>4. CASE Slot
    BY <2>4 DEF Slot, SayArrives, MidTurnSay, PromptReads, PromptDenies, Requeue
  <2>5. CASE Down \/ Start
    BY <2>5 DEF Down, Start, Retracted
  <2>6. CASE (Turn /\ ~TurnEnds) \/ Chat \/ Shutdown \/ Report \/ Reboot \/ Time
    BY <2>6 DEF Turn, TurnComposed, TurnRefused, TurnFails, TurnInterrupted, TurnStopped,
                DigestTimesOut, TurnDone, Chat, Shutdown, Report, Reboot, Time, CapComes, IdleComes,
                WindowCloses, disk
  <2> QED
    BY <2>1, <2>2, <2>3, <2>4, <2>5, <2>6 DEF Next
<1> QED
  BY <1>1, InvAlways, PTL DEF Spec, SayIsNeverDropped

-----------------------------------------------------------------------------
(* What a beat, a turn's end and the watcher do to an ending leaves its window as it was, once it
   has opened.                                                                                  *)
LEMMA PartsKeepTheWindow ==
  ASSUME NEW e \in Endings, NEW s, NEW how, NEW busy
  PROVE  /\ Retried(e, s) \in Endings /\ Retried(e, s).window = e.window
         /\ Seen(e, s) \in Endings /\ Seen(e, s).window = e.window
         /\ Finished(e, how, busy) \in Endings /\ Finished(e, how, busy).window = e.window
         /\ Opened(e, s) \in Endings /\ Opened(e, s).window # "none"
         /\ e.window # "none" => Opened(e, s) = e
BY DEF Retried, Seen, Finished, Opened, Endings

(* So a turn's end leaves the window as it was. *)
LEMMA TurnEndsWindow ==
  ASSUME ending \in Endings, TurnEnds
  PROVE  ending'.window = ending.window
<1> DEFINE over == Finished(Seen(ending, slot), last, chat)
           after == Retried(over, slot)
           seen == Seen(after, RetriedSlot(over, slot))
<1>1. over \in Endings /\ over.window = ending.window
  BY PartsKeepTheWindow
<1> HIDE DEF over
<1>2. after \in Endings /\ after.window = ending.window
  BY <1>1, PartsKeepTheWindow
<1> HIDE DEF after
<1>3. seen \in Endings /\ seen.window = ending.window
  BY <1>2, PartsKeepTheWindow
<1> HIDE DEF seen
<1>4. Finished(seen, last, chat).window = ending.window
  BY <1>3, PartsKeepTheWindow
<1>5. ending' \in {over, Finished(seen, last, chat)}
  BY DEF TurnEnds, over, after, seen
<1> QED
  BY <1>1, <1>4, <1>5

(* A beat that does not exit found a run that keeps beating. *)
LEMMA BeatWindow ==
  ASSUME Inv, Beat
  PROVE  /\ ending.window # "none" => ending'.window = ending.window
         /\ \/ beat' \in {"report", "digest"}
            \/ Keeps(ending) /\ watch' = watch
<1> DEFINE e1 == IF capDue THEN Opened(ending, slot) ELSE ending
           s1 == IF capDue THEN OpenedSlot(ending, slot) ELSE slot
           e2 == IF idleDue /\ ~Inflight THEN Opened(e1, s1) ELSE e1
           s2 == IF idleDue /\ ~Inflight THEN OpenedSlot(e1, s1) ELSE s1
<1>1. PICK r \in Reasons \cup {None, "duration_cap", "idle"} :
        \/ Exit(r, ending, slot)
        \/ Exit(r, e1, s1)
        \/ Exit(r, e2, s2)
        \/ Keeps(ending) /\ (Consumes(r, e2, s2) \/ Rests(r, e2, s2))
  BY DEF Beat, Inv, Values
<1>2. ending \in Endings
  BY DEF Inv, Values
<1>3. e1 \in Endings /\ (ending.window # "none" => e1.window = ending.window)
  BY <1>2, PartsKeepTheWindow
<1>4. e2 \in Endings /\ (ending.window # "none" => e2.window = ending.window)
  BY <1>3, PartsKeepTheWindow
<1> HIDE DEF e1, s1, e2, s2
<1>5. CASE Exit(r, ending, slot) \/ Exit(r, e1, s1) \/ Exit(r, e2, s2)
  BY <1>3, <1>4, <1>5 DEF Exit, ExitWith
<1>6. CASE Keeps(ending) /\ Consumes(r, e2, s2)
  BY <1>4, <1>6 DEF Consumes
<1>7. CASE Keeps(ending) /\ Rests(r, e2, s2)
  <2>1. ending'.window = e2.window /\ watch' = watch
    BY <1>4, <1>7, PartsKeepTheWindow DEF Rests
  <2> QED
    BY <1>4, <1>7, <2>1
<1> QED
  BY <1>1, <1>5, <1>6, <1>7

(* A run is watched until the watcher has cut what was in flight: then the window is spent, and
   a turn of the consumer that is still running has the interrupt before it.  A watcher that
   waits inside a window has one.                                                            *)
TurnIsWatched ==
  /\ beat \in {"asleep", "turn"} /\ watch = "done" =>
       ending.window = "spent" /\ (turn \in {"slash", "run"} /\ ~conf.asks => interrupt)
  /\ watch = "bound" => ending.window # "none"

(* A window that has opened stays open or spent as long as the process, one that is spent stays
   so, and under it no beat starts another turn.                                               *)
NoTurnAfterTheWindow ==
  [][beat' # "down" /\ ending.window # "none"
       => /\ ending'.window # "none" /\ (ending.window = "spent" => ending'.window = "spent")
          /\ ending.window = "spent" /\ beat = "asleep" => beat' # "turn"]_vars

LEMMA InitWatched == Init => TurnIsWatched
BY DEF Init, TurnIsWatched

LEMMA NextWatched == Inv /\ TurnIsWatched /\ [Next]_vars => TurnIsWatched'
<1> SUFFICES ASSUME Inv, TurnIsWatched, [Next]_vars PROVE TurnIsWatched'
  OBVIOUS
<1>0. Values /\ Places /\ ending \in Endings
  BY DEF Inv, Values
<1> USE <1>0 DEF TurnIsWatched, Values, Places, disk, era, hist, clocks, run
<1>1. CASE Beat
  <2>1. UNCHANGED conf /\ turn = "none"
    BY <1>1 DEF Beat
  <2>2. CASE beat' \in {"report", "digest"}
    <3>1. watch' = "done"
      BY <1>1, <2>2, BeatParts DEF Exit, Consumes, Rests, Beat
    <3> QED
      BY <2>2, <3>1
  <2>3. CASE Keeps(ending) /\ watch' = watch
    BY <1>1, <2>3, BeatWindow DEF Keeps, Beat
  <2> QED
    BY <1>1, <2>2, <2>3, BeatWindow
<1>2. CASE Turn
  <2>1. CASE TurnComposed \/ TurnRefused \/ TurnFails \/ TurnInterrupted \/ TurnStopped \/ DigestTimesOut
    BY <2>1 DEF TurnComposed, TurnRefused, TurnFails, TurnInterrupted, TurnStopped, DigestTimesOut
  <2>2. ASSUME NEW how \in {"completed", "other"}, TurnDone(how) PROVE TurnIsWatched'
    BY <2>2 DEF TurnDone
  <2>3. CASE TurnEnds
    <3>1. ending'.window = ending.window
      BY <2>3, TurnEndsWindow
    <3> QED
      BY <2>3, <3>1 DEF TurnEnds
  <2> QED
    BY <1>2, <2>1, <2>2, <2>3 DEF Turn
<1>3. CASE Slot
  BY <1>3 DEF Slot, SayArrives, MidTurnSay, PromptReads, PromptDenies, Requeue
<1>4. CASE Chat \/ Report \/ Reboot
  BY <1>4 DEF Chat, Report, Reboot
<1>5. CASE Shutdown
  BY <1>5 DEF Shutdown
<1>6. CASE WatchTick \/ WatchBound
  <2> DEFINE e == Retried(ending, slot)
             s == RetriedSlot(ending, slot)
  <2>1. e \in Endings /\ e.window = ending.window
    BY PartsKeepTheWindow
  <2>2. Opened(e, s).window # "none"
    BY <2>1, PartsKeepTheWindow
  <2> HIDE DEF e, s
  <2>3. CASE WatchTick
    BY <2>1, <2>2, <2>3 DEF WatchTick, Overrun, e, s
  <2>4. CASE WatchBound
    BY <2>1, <2>4 DEF WatchBound, Overrun, e, s
  <2> QED
    BY <1>6, <2>3, <2>4
<1>7. CASE RequestStop
  <2>1. /\ ending' = Opened(ending, slot)
        /\ UNCHANGED <<interrupt, conf, beat, watch, turn>>
    BY <1>7 DEF RequestStop
  <2>2. ending'.window # "none" /\ (ending.window = "spent" => ending'.window = "spent")
    BY <2>1, PartsKeepTheWindow
  <2> QED
    BY <2>1, <2>2
<1>8. CASE Down
  BY <1>8 DEF Down
<1>9. CASE Start
  BY <1>9 DEF Start, Up
<1>10. CASE Time
  BY <1>10 DEF Time, CapComes, IdleComes, WindowCloses, Endings
<1>11. CASE UNCHANGED vars
  BY <1>11 DEF vars
<1> QED
  BY <1>1, <1>2, <1>3, <1>4, <1>5, <1>6, <1>7, <1>8, <1>9, <1>10, <1>11 DEF Next

(* However long a turn would go on, a run whose window has closed ends with it: the turn is still
   watched or already interrupted, and no other is begun (the safety of CapEndsTheRun).        *)
THEOREM OverrunIsCutAlways == Spec => []TurnIsWatched /\ NoTurnAfterTheWindow
<1>1. Inv /\ Inv' /\ [Next]_vars =>
        [beat' # "down" /\ ending.window # "none"
           => /\ ending'.window # "none" /\ (ending.window = "spent" => ending'.window = "spent")
              /\ ending.window = "spent" /\ beat = "asleep" => beat' # "turn"]_vars
  <2> SUFFICES ASSUME Inv, Next, beat' # "down", ending.window # "none"
               PROVE  /\ ending'.window # "none" /\ (ending.window = "spent" => ending'.window = "spent")
                      /\ ending.window = "spent" /\ beat = "asleep" => beat' # "turn"
    OBVIOUS
  <2>0. ending \in Endings /\ (beat = "down" => ending.window = "none")
    BY DEF Inv, Values, Places, Fresh
  <2>1. CASE Beat
    BY <2>0, <2>1, BeatWindow DEF Keeps
  <2>2. CASE TurnEnds \/ WatchTick \/ WatchBound \/ RequestStop
    <3>1. ending'.window = ending.window /\ (beat = "asleep" => beat' = beat)
      <4>1. CASE TurnEnds
        BY <2>0, <4>1, TurnEndsWindow DEF TurnEnds, Inv, Values
      <4>2. CASE RequestStop
        BY <2>0, <4>2, PartsKeepTheWindow DEF RequestStop
      <4>3. CASE WatchTick \/ WatchBound
        <5> DEFINE e == Retried(ending, slot)
                   s == RetriedSlot(ending, slot)
        <5>1. e \in Endings /\ e.window = ending.window
          BY <2>0, PartsKeepTheWindow
        <5>2. Opened(e, s) = e
          BY <5>1, PartsKeepTheWindow
        <5> HIDE DEF e, s
        <5>3. beat' = beat /\ ending' \in {ending, e, Opened(e, s)}
          BY <4>3 DEF WatchTick, WatchBound, Overrun, e, s
        <5> QED
          BY <5>1, <5>2, <5>3
      <4> QED
        BY <2>2, <4>1, <4>2, <4>3
    <3> QED
      BY <3>1
  <2>3. CASE Time
    BY <2>0, <2>3 DEF Time, CapComes, IdleComes, WindowCloses, Endings, run
  <2>4. CASE Down \/ Start \/ Reboot
    BY <2>0, <2>4 DEF Down, Start, Reboot, Up, run
  <2>5. CASE Turn /\ ~TurnEnds
    BY <2>5 DEF Turn, TurnComposed, TurnRefused, TurnFails, TurnInterrupted, TurnStopped,
                DigestTimesOut, TurnDone, run
  <2>6. CASE Slot \/ Chat \/ Shutdown \/ Report
    BY <2>6 DEF Slot, SayArrives, MidTurnSay, PromptReads, PromptDenies, Requeue, Chat, Shutdown,
                Report, run
  <2> QED
    BY <2>1, <2>2, <2>3, <2>4, <2>5, <2>6 DEF Next
<1> QED
  BY <1>1, InvAlways, InitWatched, NextWatched, PTL DEF Spec, NoTurnAfterTheWindow

-----------------------------------------------------------------------------
(* What the app remembers of its last turn is how that turn ended, unless it raised. *)
LastInv == truth # "failed" => last = truth

LEMMA InitLast == Init => LastInv
BY DEF Init, LastInv

LEMMA NextLast == LastInv /\ [Next]_vars => LastInv'
<1> SUFFICES ASSUME LastInv, [Next]_vars PROVE LastInv'
  OBVIOUS
<1> USE DEF LastInv, hist
<1>1. CASE Turn
  BY <1>1 DEF Turn, TurnComposed, TurnRefused, TurnFails, TurnInterrupted, TurnStopped,
              DigestTimesOut, TurnDone, TurnEnds
<1>2. CASE Beat \/ WatchTick \/ WatchBound \/ RequestStop \/ Chat \/ Shutdown \/ Report
  BY <1>2 DEF Beat, WatchTick, WatchBound, RequestStop, Chat, Shutdown, Report
<1>3. CASE Down \/ Reboot \/ Start
  BY <1>3 DEF Down, Reboot, Start
<1>4. CASE Slot \/ Time \/ UNCHANGED vars
  BY <1>4 DEF Slot, SayArrives, MidTurnSay, PromptReads, PromptDenies, Requeue, Time, CapComes,
              IdleComes, WindowCloses, vars
<1> QED
  BY <1>1, <1>2, <1>3, <1>4 DEF Next

(* What the parts of an ending do to DONE. *)
LEMMA PartsAndDone ==
  ASSUME NEW e \in Endings, NEW s, NEW how, NEW busy
  PROVE  /\ Retried(e, s).done = e.done /\ Seen(e, s).done = e.done /\ Opened(e, s).done = e.done
         /\ Finished(e, how, busy).done /\ ~e.done => e.taken /\ how = "completed" /\ ~busy
         /\ e.taken => Finished(e, how, busy).taken /\ Seen(e, s).taken
BY DEF Retried, Seen, Finished, Opened, Endings

(* DONE is recorded with the line taken and no turn in flight, when the last turn that came to
   an ending completed: the three conditions of server/app.py:3704-3713, but for a last turn
   that raised.                                                                               *)
DoneNeedsThree ==
  [][~ending.done /\ ending'.done =>
       /\ ending'.taken /\ turn' = "none" /\ ~chat
       /\ last = "completed" /\ truth \in {"completed", "failed"}]_vars

(* DONE at a beat, or at a turn's end. *)
LEMMA DoneAtBeat ==
  ASSUME Inv, Beat, ~ending.done, ending'.done
  PROVE  ending'.taken /\ turn' = "none" /\ ~chat /\ last = "completed"
<1> DEFINE e1 == IF capDue THEN Opened(ending, slot) ELSE ending
           s1 == IF capDue THEN OpenedSlot(ending, slot) ELSE slot
           e2 == IF idleDue /\ ~Inflight THEN Opened(e1, s1) ELSE e1
           s2 == IF idleDue /\ ~Inflight THEN OpenedSlot(e1, s1) ELSE s1
<1>1. PICK r :
        \/ Exit(r, ending, slot)
        \/ Exit(r, e1, s1)
        \/ Exit(r, e2, s2)
        \/ Consumes(r, e2, s2)
        \/ Rests(r, e2, s2)
  BY DEF Beat
<1>2. e1 \in Endings /\ e1.done = ending.done
  BY PartsKeepTheWindow, PartsAndDone DEF Inv, Values
<1>3. e2 \in Endings /\ e2.done = ending.done
  BY <1>2, PartsKeepTheWindow, PartsAndDone
<1> DEFINE tried == Retried(e2, s2)
           after == Seen(tried, RetriedSlot(e2, s2))
<1> HIDE DEF e1, s1, e2, s2
<1>4. tried \in Endings /\ tried.done = ending.done
  BY <1>3, PartsKeepTheWindow, PartsAndDone
<1> HIDE DEF tried
<1>5. after \in Endings /\ after.done = ending.done
  BY <1>4, PartsKeepTheWindow, PartsAndDone
<1>6. Rests(r, e2, s2)
  BY <1>1, <1>2, <1>3 DEF Exit, ExitWith, Consumes
<1>7. ending' = Finished(after, last, Inflight) /\ turn' = turn
  BY <1>6 DEF Rests, after, tried
<1> HIDE DEF after
<1>8. after.taken /\ last = "completed" /\ ~Inflight /\ ending'.taken
  BY <1>5, <1>7, PartsAndDone
<1> QED
  BY <1>7, <1>8 DEF Inflight

LEMMA DoneAtEnd ==
  ASSUME ending \in Endings, TurnEnds, ~ending.done, ending'.done
  PROVE  ending'.taken /\ turn' = "none" /\ ~chat /\ last = "completed"
<1> DEFINE seen == Seen(ending, slot)
           over == Finished(seen, last, chat)
           after == Retried(over, slot)
           again == Seen(after, RetriedSlot(over, slot))
<1>1. turn' = "none" /\ ending' \in {over, Finished(again, last, chat)}
  BY DEF TurnEnds
<1>2. seen \in Endings /\ ~seen.done
  BY PartsKeepTheWindow, PartsAndDone
<1> HIDE DEF seen
<1>3. /\ over \in Endings
      /\ over.done => over.taken /\ last = "completed" /\ ~chat
  BY <1>2, PartsKeepTheWindow, PartsAndDone
<1> HIDE DEF over
<1>4. after \in Endings /\ after.done = over.done /\ (over.taken => after.taken)
  BY <1>3, PartsKeepTheWindow, PartsAndDone DEF Retried, Retries
<1> HIDE DEF after
<1>5. again \in Endings /\ again.done = over.done /\ (over.taken => again.taken)
  BY <1>4, PartsKeepTheWindow, PartsAndDone
<1> HIDE DEF again
<1>6. Finished(again, last, chat).done =>
        Finished(again, last, chat).taken /\ last = "completed" /\ ~chat
  BY <1>3, <1>5, PartsAndDone
<1>7. CASE ending' = over
  BY <1>1, <1>3, <1>7
<1>8. CASE ending' = Finished(again, last, chat)
  BY <1>1, <1>6, <1>8
<1> QED
  BY <1>1, <1>7, <1>8

THEOREM DoneNeedsThreeAlways == Spec => DoneNeedsThree
<1>1. Inv /\ LastInv /\ [Next]_vars =>
        [~ending.done /\ ending'.done =>
           /\ ending'.taken /\ turn' = "none" /\ ~chat
           /\ last = "completed" /\ truth \in {"completed", "failed"}]_vars
  <2> SUFFICES ASSUME Inv, LastInv, Next, ~ending.done, ending'.done
               PROVE  /\ ending'.taken /\ turn' = "none" /\ ~chat
                      /\ last = "completed" /\ truth \in {"completed", "failed"}
    OBVIOUS
  <2>0. ending \in Endings
    BY DEF Inv, Values
  <2>1. CASE Beat \/ TurnEnds
    BY <2>0, <2>1, DoneAtBeat, DoneAtEnd DEF LastInv
  <2>2. CASE WatchTick \/ WatchBound \/ RequestStop
    <3> DEFINE e == Retried(ending, slot)
               s == RetriedSlot(ending, slot)
    <3>1. e \in Endings /\ ~e.done /\ ~Opened(ending, slot).done
      BY <2>0, PartsKeepTheWindow, PartsAndDone
    <3>2. ~Opened(e, s).done
      BY <3>1, PartsAndDone
    <3> HIDE DEF e, s
    <3>3. ending' \in {ending, e, Opened(e, s), Opened(ending, slot)}
      BY <2>2 DEF WatchTick, WatchBound, RequestStop, Overrun, e, s
    <3> QED
      BY <3>1, <3>2, <3>3
  <2>3. CASE Time \/ Down
    BY <2>0, <2>3 DEF Time, CapComes, IdleComes, WindowCloses, Down, Fresh, Endings, run
  <2>4. CASE (Turn /\ ~TurnEnds) \/ Slot \/ Chat \/ Shutdown \/ Report \/ Reboot \/ Start
    BY <2>4 DEF Turn, TurnComposed, TurnRefused, TurnFails, TurnInterrupted, TurnStopped,
                DigestTimesOut, TurnDone, Slot, SayArrives, MidTurnSay, PromptReads, PromptDenies,
                Requeue, Chat, Shutdown, Report, Reboot, Start, run
  <2> QED
    BY <2>1, <2>2, <2>3, <2>4 DEF Next
<1> QED
  BY <1>1, InvAlways, InitLast, NextLast, PTL DEF Spec, DoneNeedsThree

=============================================================================
