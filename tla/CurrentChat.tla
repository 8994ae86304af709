----------------------------- MODULE CurrentChat -----------------------------
(***************************************************************************)
(* The chats of a served workspace (server/app.py): their documents in the *)
(* session store, the marker file that names the current one, the claims   *)
(* of their turns, and the message slot whose next turn runs in the        *)
(* current chat.                                                           *)
(*                                                                         *)
(* Routes that are coroutines, the say consumer and the turns run on the   *)
(* event loop: a step is what runs between two awaits.  Sync routes (POST  *)
(* /say, POST /sessions, GET /sessions/current, uploads) run in worker     *)
(* threads, and each of their file calls falls anywhere between the loop's *)
(* steps.  A lock is held over the test and the write of POST /say, and    *)
(* over the loop's change of the marker.                                   *)
(*                                                                         *)
(* Abstracted: a document is the set of what was saved in it, one fact for *)
(* each turn, name and upload.  A turn is what it does to documents, slot  *)
(* and claims (TurnLoop is about the rest of it); the file calls of one    *)
(* write or read of the slot are one step (SayInbox is about them).        *)
(***************************************************************************)
EXTENDS Integers, FiniteSets

CONSTANTS Chats,          \* the identities of chats
          First, Known,   \* the chat that is current at first, and those that are saved
          MaxTurn,        \* turns of this process in one behaviour
          Confs,          \* what goes on in the workspace, beside its turns and its chats' coming and going
          MaxSay,         \* messages sent in one behaviour
          Absent          \* no chat

Doings == {"says", "names", "drivers", "prompts", "pages", "uploads", "elsewhere", "egress"}
Turns == 1..MaxTurn
Says == 1..MaxSay

(* What a document says: the words of a turn of this process, or one of the others. *)
Name == 0
File == -1
Far == -2
Facts == Turns \cup {Name, File, Far}

ASSUME ChatAssumption == /\ First \in Known /\ Known \subseteq Chats
                         /\ Absent \notin Chats /\ {"", "free"} \cap (Chats \cup {Absent}) = {}
ASSUME ConfAssumption == Confs \subseteq SUBSET Doings
ASSUME SizeAssumption == MaxTurn \in Nat /\ MaxSay \in Nat

VARIABLES
  conf,      \* the messages, renames, clients of POST /chat, prompts, second page, uploads,
             \* process beside this one, and egress proxy there may be
  kept,      \* the chats the store holds
  doc,       \* [Chats -> what the document says]
  marker,    \* .current-session: the chat it names, "" for a truncated file, or Absent
  slot,      \* .say: the message that waits, or 0
  sent,      \* messages accepted so far
  addr,      \* [Says -> the chat the message names, or Absent]
  lock,      \* current_lock as POST /say holds it: the chat its message names, or "free"
  turn,      \* [Turns -> the turn: its chat, where it is, who started it, what it holds]
  back,      \* messages a prompt held, to be put back
  elsewhere, \* [chat, mem]: the chat of a turn in another process, and what that holds
  looker,    \* GET /sessions/current
  maker,     \* POST /sessions
  loader,    \* POST /sessions/{id}/uploads
  ran,       \* history: [Says -> the chat in whose turn the message was read]
  late,      \* history: messages put back after a prompt held them
  saved,     \* history: [Chats -> what has been saved in it]
  deleted,   \* history: the chats deleted
  crossed    \* history: chats two writers held at once, where the code keeps none of them out

store == <<kept, doc, saved, deleted, crossed>>
box == <<slot, sent, addr, lock, ran, late>>
routes == <<looker, maker, loader>>
chatVars == <<conf, store, marker, box, turn, back, elsewhere, routes>>

-----------------------------------------------------------------------------
NoTurn == [at |-> "none", chat |-> Absent, by |-> "", mem |-> {}, held |-> {},
           stop |-> FALSE, gone |-> FALSE]
Nobody == [chat |-> Absent, mem |-> {}]
Rest == [at |-> "rest", chat |-> Absent, mem |-> {}]

Current == IF marker \in kept THEN marker ELSE Absent
Claims == {"run", "ask", "over", "stuck"}
Inflight == {turn[t].chat : t \in {u \in Turns : turn[u].at \in Claims}}
Fresh == Chats \ (kept \cup deleted)
(* An upload in progress holds chat c as it was before what changes it now. *)
Crossed(c) == IF loader.chat = c THEN crossed \cup {c} ELSE crossed
Saves(c, f) == doc' = [doc EXCEPT ![c] = f] /\ kept' = kept \cup {c}

ChatInit ==
  /\ conf \in Confs
  /\ kept = Known /\ doc = [c \in Chats |-> {}] /\ saved = doc /\ deleted = {} /\ crossed = {}
  /\ marker = First
  /\ slot = 0 /\ sent = 0 /\ lock = "free"
  /\ addr = [s \in Says |-> Absent] /\ ran = addr
  /\ turn = [t \in Turns |-> NoTurn] /\ back = {} /\ late = {} /\ elsewhere = Nobody
  /\ looker = Rest /\ maker = Rest /\ loader = Rest

-----------------------------------------------------------------------------
(* POST /say, on a thread: the message's chat is compared with the current one, and the
   message is put in the slot, with the lock held over both.                             *)
SayTest(c) ==
  /\ "says" \in conf /\ lock = "free" /\ sent < MaxSay
  /\ c \in {Absent, marker}
  /\ lock' = c
  /\ UNCHANGED <<conf, store, marker, slot, sent, addr, ran, late, turn, back, elsewhere, routes>>

SayWrite ==
  /\ lock # "free" /\ lock' = "free"
  /\ IF slot = 0
     THEN sent' = sent + 1 /\ slot' = sent' /\ addr' = [addr EXCEPT ![sent'] = lock]
     ELSE UNCHANGED <<slot, sent, addr>>
  /\ UNCHANGED <<conf, store, marker, ran, late, turn, back, elsewhere, routes>>

(* Mutant: a queued message is not asked for. *)
MaySwitchUnderSay == Inflight = {} /\ elsewhere = Nobody

(* _switch_refusal. *)
MaySwitch == Inflight = {} /\ elsewhere = Nobody /\ slot = 0

(* PUT /sessions/current opens a saved chat, or a new one unless the current one is empty. *)
Switch(c) ==
  /\ lock = "free" /\ MaySwitch
  /\ \/ c \in kept /\ UNCHANGED <<kept, doc>>
     \/ c \in Fresh /\ Saves(c, {}) /\ (Current # Absent => doc[Current] \cap Turns # {})
  /\ marker' = c
  /\ UNCHANGED <<conf, saved, deleted, crossed, box, turn, back, elsewhere, routes>>

(* Mutant: only this process's turns are asked for. *)
MayChangeHere(c) == c \notin Inflight

(* _turn_refusal. *)
MayChange(c) == c \notin Inflight /\ elsewhere.chat # c

(* PUT /sessions/{id}/title. *)
Rename(c) ==
  /\ "names" \in conf /\ c \in kept /\ Name \notin doc[c] /\ MayChange(c)
  /\ Saves(c, doc[c] \cup {Name})
  /\ saved' = [saved EXCEPT ![c] = @ \cup {Name}]
  /\ crossed' = Crossed(c)
  /\ UNCHANGED <<conf, deleted, marker, box, turn, back, elsewhere, routes>>

(* DELETE /sessions/{id}: the current chat gives way to a new one first. *)
Delete(c) ==
  /\ c \in kept /\ MayChange(c)
  /\ IF c = marker
     THEN lock = "free" /\ MaySwitch /\ \E f \in Fresh : marker' = f /\ kept' = (kept \cup {f}) \ {c}
     ELSE kept' = kept \ {c} /\ UNCHANGED marker
  /\ deleted' = deleted \cup {c} /\ crossed' = Crossed(c)
  /\ UNCHANGED <<conf, doc, saved, box, turn, back, elsewhere, routes>>

-----------------------------------------------------------------------------
(* A turn's start: the chat is loaded, or made, and claimed, with no await between. *)
Starts(t, c, who) ==
  /\ turn[t].at = "none" /\ \A u \in 1..t - 1 : turn[u].at # "none"
  /\ IF c \in kept THEN UNCHANGED <<kept, doc>> ELSE c \in Fresh /\ Saves(c, {})
  /\ turn' = [turn EXCEPT ![t] = [NoTurn EXCEPT !.at = "run", !.chat = c, !.by = who, !.mem = doc[c]]]
  /\ crossed' = IF elsewhere.chat = c THEN crossed \cup {c} ELSE Crossed(c)
  /\ UNCHANGED <<conf, saved, deleted, elsewhere, routes>>

(* Mutant: a chat with a turn in flight is claimed again. *)
ClaimAnyway(t, c, who) ==
  /\ "drivers" \in conf /\ who \in {"chat", "stream"}
  /\ Starts(t, c, who)
  /\ UNCHANGED <<marker, box, back>>

(* POST /chat and POST /chat/stream, in any chat or a new one. *)
Claim(t, c, who) ==
  /\ "drivers" \in conf /\ who \in {"chat", "stream"}
  /\ c \notin Inflight
  /\ Starts(t, c, who)
  /\ UNCHANGED <<marker, box, back>>

(* The say consumer's beat: the message's turn, or one that nobody's message starts (a
   wake-up, a report, a suggestion), in the current chat or, without one, in a new one. *)
Consume(t) ==
  /\ Inflight = {} /\ elsewhere = Nobody
  /\ \E c \in IF Current # Absent THEN {Current} ELSE Fresh :
       /\ Starts(t, c, "say")
       /\ marker' = c
       /\ slot' = 0
       /\ ran' = IF slot = 0 THEN ran ELSE [ran EXCEPT ![slot] = c]
  /\ UNCHANGED <<sent, addr, lock, late, back>>

(* The turn's words are saved at a message's boundary. *)
Speak(t) ==
  LET c == turn[t].chat IN
  /\ turn[t].at = "run" /\ t \notin turn[t].mem
  /\ turn' = [turn EXCEPT ![t].mem = @ \cup {t}]
  /\ Saves(c, turn[t].mem \cup {t})
  /\ saved' = [saved EXCEPT ![c] = @ \cup {t}]
  /\ UNCHANGED <<conf, deleted, crossed, marker, box, back, elsewhere, routes>>

(* A message that waits is read by the turn that runs, whichever chat it runs in. *)
MidTurnSay(t) ==
  /\ turn[t].at = "run" /\ slot # 0
  /\ slot' = 0 /\ ran' = [ran EXCEPT ![slot] = turn[t].chat]
  /\ UNCHANGED <<conf, store, marker, sent, addr, lock, late, turn, back, elsewhere, routes>>

(* A permission prompt reads the slot: its answer, or a message it holds. *)
Ask(t) ==
  /\ "prompts" \in conf /\ turn[t].at = "run"
  /\ turn' = [turn EXCEPT ![t].at = "ask"]
  /\ UNCHANGED <<conf, store, marker, box, back, elsewhere, routes>>

PromptReads(t) ==
  /\ turn[t].at = "ask" /\ slot # 0 /\ slot' = 0
  /\ \/ /\ ran' = [ran EXCEPT ![slot] = turn[t].chat]
        /\ turn' = [turn EXCEPT ![t].at = "run", ![t].held = {}]
        /\ back' = back \cup turn[t].held
     \/ /\ turn' = [turn EXCEPT ![t].held = @ \cup {slot}]
        /\ UNCHANGED <<ran, back>>
  /\ UNCHANGED <<conf, store, marker, sent, addr, lock, late, elsewhere, routes>>

(* No answer in time, or an interrupt. *)
PromptDenies(t) ==
  /\ turn[t].at = "ask"
  /\ turn' = [turn EXCEPT ![t].at = "run", ![t].held = {}]
  /\ back' = back \cup turn[t].held
  /\ UNCHANGED <<conf, store, marker, box, elsewhere, routes>>

(* Mutant: what is put back is put back again. *)
RequeueAgain(s) ==
  /\ s \in back
  /\ slot' = IF slot = 0 THEN s ELSE slot
  /\ late' = late \cup {s}
  /\ UNCHANGED <<conf, store, marker, sent, addr, lock, ran, back, turn, elsewhere, routes>>

(* _requeue_held_says: a held message goes back once the slot is free, or is dropped. *)
Requeue(s) ==
  /\ s \in back /\ back' = back \ {s}
  /\ slot' = IF slot = 0 THEN s ELSE slot
  /\ late' = late \cup {s}
  /\ UNCHANGED <<conf, store, marker, sent, addr, lock, ran, turn, elsewhere, routes>>

(* POST /interrupt that names the chat sets the turn's own stop; a stream's client goes. *)
Interrupt(t) ==
  /\ turn[t].at \in {"run", "ask"} /\ ~turn[t].stop
  /\ turn' = [turn EXCEPT ![t].stop = TRUE]
  /\ UNCHANGED <<conf, store, marker, box, back, elsewhere, routes>>

ClientGoes(t) ==
  /\ turn[t].by = "stream" /\ turn[t].at \in {"run", "ask", "over"} /\ ~turn[t].gone
  /\ turn' = [turn EXCEPT ![t].gone = TRUE]
  /\ UNCHANGED <<conf, store, marker, box, back, elsewhere, routes>>

(* The turn is over, of itself or cut off where it waits: what it holds is saved whole,
   except by a turn of POST /chat that fails.                                           *)
Closes(t) ==
  /\ turn' = [turn EXCEPT ![t].at = "over", ![t].held = {}]
  /\ back' = back \cup turn[t].held
  /\ crossed' = Crossed(turn[t].chat)
  /\ UNCHANGED <<conf, saved, deleted, marker, box, elsewhere, routes>>

Over(t) == Closes(t) /\ Saves(turn[t].chat, turn[t].mem)

Ends(t) ==
  /\ turn[t].at = "run"
  /\ \/ Over(t)
     \/ turn[t].by = "chat" /\ Closes(t) /\ UNCHANGED <<kept, doc>>

(* Mutant: a cut reaches a turn that works, and not one that waits for an answer. *)
CutAtWork(t) == turn[t].at = "run" /\ (turn[t].stop \/ turn[t].gone) /\ Over(t)

Cut(t) == turn[t].at \in {"run", "ask"} /\ (turn[t].stop \/ turn[t].gone) /\ Over(t)

(* The claim is given back after an await, the closing of the egress proxy, which the
   cancellation of a stream whose client is gone may end before its time.             *)
Releases(t) ==
  /\ turn[t].at = "over"
  /\ \/ turn' = [turn EXCEPT ![t] = [NoTurn EXCEPT !.at = "done"]]
     \/ /\ "egress" \in conf /\ turn[t].gone
        /\ turn' = [turn EXCEPT ![t].at = "stuck"]
  /\ UNCHANGED <<conf, store, marker, box, back, elsewhere, routes>>

-----------------------------------------------------------------------------
(* A turn in another process on the workspace: it loads the chat, marks it busy, and saves
   the chat whole.                                                                        *)
ElsewhereBegins(c) ==
  /\ "elsewhere" \in conf /\ elsewhere = Nobody /\ Inflight = {}
  /\ c \in kept /\ Far \notin doc[c]
  /\ elsewhere' = [chat |-> c, mem |-> doc[c]]
  /\ crossed' = Crossed(c)
  /\ UNCHANGED <<conf, kept, doc, saved, deleted, marker, box, turn, back, routes>>

ElsewhereEnds ==
  LET c == elsewhere.chat IN
  /\ elsewhere # Nobody /\ elsewhere' = Nobody
  /\ Saves(c, elsewhere.mem \cup {Far})
  /\ saved' = [saved EXCEPT ![c] = @ \cup {Far}]
  /\ crossed' = Crossed(c)
  /\ UNCHANGED <<conf, deleted, marker, box, turn, back, routes>>

(* GET /sessions/current, on a thread: it reads the marker, loads the chat, and takes away
   a marker whose chat is gone.                                                           *)
LookReads ==
  /\ "pages" \in conf /\ looker = Rest /\ marker \in Chats
  /\ looker' = [Rest EXCEPT !.at = "read", !.chat = marker]
  /\ UNCHANGED <<conf, store, marker, box, turn, back, elsewhere, maker, loader>>

LookLoads ==
  /\ looker.at = "read"
  /\ looker' = IF looker.chat \in kept THEN Rest ELSE [looker EXCEPT !.at = "heal"]
  /\ UNCHANGED <<conf, store, marker, box, turn, back, elsewhere, maker, loader>>

LookHeals ==
  /\ looker.at = "heal" /\ looker' = Rest
  /\ marker' = Absent
  /\ UNCHANGED <<conf, store, box, turn, back, elsewhere, maker, loader>>

(* POST /sessions, on a thread: a chat is made, and is current where there is no marker,
   which is opened and then written.                                                    *)
Makes(c) ==
  /\ "pages" \in conf /\ maker = Rest /\ c \in Fresh
  /\ Saves(c, {})
  /\ maker' = [Rest EXCEPT !.at = "test", !.chat = c]
  /\ UNCHANGED <<conf, saved, deleted, crossed, marker, box, turn, back, elsewhere, looker, loader>>

MakerTests ==
  /\ maker.at = "test"
  /\ maker' = IF marker = Absent THEN [maker EXCEPT !.at = "open"] ELSE Rest
  /\ UNCHANGED <<conf, store, marker, box, turn, back, elsewhere, looker, loader>>

MakerWrites ==
  /\ \/ maker.at = "open" /\ marker' = "" /\ maker' = [maker EXCEPT !.at = "write"]
     \/ maker.at = "write" /\ marker' = maker.chat /\ maker' = Rest
  /\ UNCHANGED <<conf, store, box, turn, back, elsewhere, looker, loader>>

(* An upload, on a thread: it loads the chat, is refused while a turn runs in it, and
   saves the chat it loaded with the file.                                            *)
UploadReads(c) ==
  /\ "uploads" \in conf /\ loader = Rest /\ c \in kept /\ File \notin doc[c]
  /\ loader' = [at |-> "read", chat |-> c, mem |-> doc[c]]
  /\ crossed' = IF elsewhere.chat = c THEN crossed \cup {c} ELSE crossed
  /\ UNCHANGED <<conf, kept, doc, saved, deleted, marker, box, turn, back, elsewhere, looker, maker>>

(* Mutant: the file is saved whatever runs in the chat. *)
UploadPasses ==
  /\ loader.at = "read"
  /\ loader' = [loader EXCEPT !.at = "save"]
  /\ UNCHANGED <<conf, store, marker, box, turn, back, elsewhere, looker, maker>>

UploadTests ==
  /\ loader.at = "read"
  /\ loader' = IF loader.chat \in Inflight THEN Rest ELSE [loader EXCEPT !.at = "save"]
  /\ UNCHANGED <<conf, store, marker, box, turn, back, elsewhere, looker, maker>>

UploadSaves ==
  LET c == loader.chat IN
  /\ loader.at = "save" /\ loader' = Rest
  /\ Saves(c, loader.mem \cup {File})
  /\ saved' = [saved EXCEPT ![c] = @ \cup {File}]
  /\ UNCHANGED <<conf, deleted, crossed, marker, box, turn, back, elsewhere, looker, maker>>

-----------------------------------------------------------------------------
Turn(t) == Consume(t) \/ Speak(t) \/ MidTurnSay(t) \/ Ask(t) \/ PromptReads(t) \/ PromptDenies(t)
           \/ Interrupt(t) \/ ClientGoes(t) \/ Ends(t) \/ Cut(t) \/ Releases(t)

Page == \/ \E c \in Chats \cup {Absent} : SayTest(c)
        \/ SayWrite \/ \E s \in Says : Requeue(s)
        \/ \E c \in Chats : Switch(c) \/ Rename(c) \/ Delete(c)

Threads == \/ LookReads \/ LookLoads \/ LookHeals
           \/ (\E c \in Chats : Makes(c)) \/ MakerTests \/ MakerWrites
           \/ (\E c \in Chats : UploadReads(c)) \/ UploadTests \/ UploadSaves

ChatNext == \/ \E t \in Turns : \/ Turn(t)
                            \/ \E c \in Chats, who \in {"chat", "stream"} : Claim(t, c, who)
        \/ Page \/ Threads
        \/ (\E c \in Chats : ElsewhereBegins(c)) \/ ElsewhereEnds

ChatSpec == ChatInit /\ [][ChatNext]_chatVars

(* What is cancelled ends, and the await of the release comes back. *)
Fairness == \A t \in Turns : WF_chatVars(Cut(t)) /\ WF_chatVars(Releases(t))

FairSpec == ChatSpec /\ Fairness

-----------------------------------------------------------------------------
Doc == SUBSET Facts
Place == Chats \cup {Absent}
TurnRec == [at : Claims \cup {"none", "done"}, chat : Place, by : {"", "say", "chat", "stream"},
            mem : Doc, held : SUBSET Says, stop : BOOLEAN, gone : BOOLEAN]
Hand(places) == [at : places, chat : Place, mem : Doc]

ChatTypeOK ==
  /\ conf \in Confs /\ kept \subseteq Chats /\ deleted \subseteq Chats /\ crossed \subseteq Chats
  /\ doc \in [Chats -> Doc] /\ saved \in [Chats -> Doc]
  /\ marker \in Chats \cup {"", Absent}
  /\ slot \in 0..sent /\ sent \in 0..MaxSay
  /\ addr \in [Says -> Place] /\ ran \in [Says -> Place] /\ lock \in Place \cup {"free"}
  /\ turn \in [Turns -> TurnRec]
  /\ back \subseteq Says /\ late \subseteq Says /\ slot \notin back
  /\ elsewhere \in [chat : Place, mem : Doc]
  /\ looker \in Hand({"rest", "read", "heal"}) /\ maker \in Hand({"rest", "test", "open", "write"})
  /\ loader \in Hand({"rest", "read", "save"})

(* What was saved in a chat is in its document for as long as the chat is kept, and a chat
   that was deleted does not come back (server/app.py:920-926, 1450-1453): a turn, here or in
   another process, holds the chat in memory and saves it whole, and never over a name, a
   file, another turn or a deletion.  Except of a chat an upload held while something else
   changed it, or that another process's turn held too when a turn or an upload began.      *)
NothingSavedIsLost ==
  \A c \in Chats \ crossed :
    /\ c \in deleted => c \notin kept
    /\ c \notin deleted /\ saved[c] # {} => c \in kept
    /\ c \in kept => saved[c] \subseteq doc[c]

(* "A message sent from the page runs on the chat the page shows" (docs/DECISIONS.md,
   ADR-0320): one that names a chat is read in that chat's turn and in no other, through
   switches, deletions and renames beside the thread that queues it and through the prompts
   and the ends of turns; where the turns are the say consumer's, no second page opens the
   workspace, and no prompt held the message.                                              *)
SayRunsInItsChat ==
  conf \cap {"drivers", "pages"} = {} =>
    \A s \in Says \ late : ran[s] # Absent /\ addr[s] # Absent => ran[s] = addr[s]

(* A turn that is stopped, or whose client goes, gives its chat back, whatever it waits for
   (server/app.py:1752-1759), unless an egress proxy is closed on the way.                  *)
CutGivesBack ==
  \A t \in Turns : "egress" \notin conf /\ (turn[t].stop \/ turn[t].gone) ~> turn[t].at = "done"
=============================================================================
