-------------------------- MODULE Workspace_proof ---------------------------
(***************************************************************************)
(* Proofs about two parts of a served workspace that share no state: its   *)
(* chats (CurrentChat) and its spend gate (SpendGate), for every number of *)
(* chats, turns, messages and calls and every amount.                      *)
(*                                                                         *)
(* The chats.  ChatInv: the types; a message waits in one place; who holds *)
(* a chat holds one.  OneTurnPerChat rests on it, and NothingSavedIsLost   *)
(* on both, through LossInv: whoever holds a chat in memory holds all that *)
(* was saved in it.  SayRunsInItsChat rests on AddressInv: the chat the    *)
(* marker names is the one of every turn, of the message being queued and  *)
(* of the one that waits.  CutStands is about a turn that is cut off.      *)
(*                                                                         *)
(* The gate.  TypeCorrect, OvershootAlways and FailsClosedAlways hold      *)
(* whatever the disk does.  OneEndingAlways and ImplementsCap say          *)
(* something of a disk that never fails (sound), with the process ended    *)
(* any number of times between any two steps; they rest on Inv: how far    *)
(* the memory may be ahead of the ledger at each step of an operation.     *)
(***************************************************************************)
EXTENDS SpendGate, CurrentChat, TLAPS

(* A message waits in one place at a time, and was sent. *)
PlaceInv ==
  /\ back \subseteq 1..sent
  /\ \A t \in Turns : turn[t].held \subseteq 1..sent /\ slot \notin turn[t].held
                      /\ turn[t].held \cap back = {}
  /\ \A t, u \in Turns : t # u => turn[t].held \cap turn[u].held = {}
  /\ lock # "free" => sent < MaxSay

(* Who holds a chat, holds one. *)
HoldInv ==
  /\ \A t \in Turns : turn[t].at \in Claims => turn[t].chat \in Chats
  /\ elsewhere = Nobody \/ elsewhere.chat \in Chats
  /\ loader.at = "rest" <=> loader.chat = Absent
  /\ maker.at # "rest" => maker.chat \in Chats

ChatInv == ChatTypeOK /\ PlaceInv /\ HoldInv

LEMMA InitChat == ChatInit => ChatInv
<1> SUFFICES ASSUME ChatInit PROVE ChatInv
  OBVIOUS
<1>1. turn = [t \in Turns |-> NoTurn] /\ NoTurn \in TurnRec
  BY DEF ChatInit, TurnRec, NoTurn, Doc, Place
<1>2. doc \in [Chats -> Doc] /\ saved \in [Chats -> Doc]
  BY DEF ChatInit, Doc
<1>3. addr \in [Says -> Place] /\ ran \in [Says -> Place]
  BY DEF ChatInit, Place
<1>4. elsewhere \in [chat : Place, mem : Doc] /\ Rest \in [at : {"rest"}, chat : Place, mem : Doc]
  BY DEF ChatInit, Nobody, Rest, Doc, Place
<1>5. /\ looker \in Hand({"rest", "read", "heal"}) /\ maker \in Hand({"rest", "test", "open", "write"})
      /\ loader \in Hand({"rest", "read", "save"})
  BY <1>4 DEF Hand, ChatInit
<1>6. First \in Chats /\ Known \subseteq Chats
  BY ChatAssumption
<1>7. slot = 0 /\ sent = 0 /\ back = {} /\ late = {} /\ lock = "free" /\ marker = First
  BY DEF ChatInit
<1>8. 0 \in 0..0 /\ 0 \in 0..MaxSay
  BY SizeAssumption
<1>9. ChatTypeOK
  <2>1. /\ conf \in Confs /\ kept \subseteq Chats /\ deleted \subseteq Chats /\ crossed \subseteq Chats
    BY <1>6 DEF ChatInit
  <2>2. turn \in [Turns -> TurnRec]
    BY <1>1
  <2>3. marker \in Chats \cup {"", Absent} /\ lock \in Place \cup {"free"}
    BY <1>6, <1>7
  <2>4. slot \in 0..sent /\ sent \in 0..MaxSay /\ slot \notin back
    BY <1>7, <1>8
  <2>5. back \subseteq Says /\ late \subseteq Says
    BY <1>7
  <2> QED
    BY <2>1, <2>2, <2>3, <2>4, <2>5, <1>2, <1>3, <1>4, <1>5 DEF ChatTypeOK
<1>10. PlaceInv
  <2>1. \A t \in Turns : turn[t].held = {}
    BY <1>1 DEF NoTurn
  <2> QED
    BY <1>7, <2>1 DEF PlaceInv
<1>11. HoldInv
  <2>1. \A t \in Turns : turn[t].at = "none"
    BY <1>1 DEF NoTurn
  <2>2. elsewhere = Nobody /\ loader = Rest /\ maker = Rest
    BY DEF ChatInit
  <2> QED
    BY <2>1, <2>2 DEF HoldInv, Rest, Claims
<1> QED
  BY <1>9, <1>10, <1>11 DEF ChatInv
(* What the steps of a turn make of it is a turn. *)
LEMMA TurnUpdates ==
  ASSUME NEW r \in TurnRec
  PROVE  /\ \A a \in Claims : [r EXCEPT !.at = a] \in TurnRec
         /\ \A a \in Claims : [r EXCEPT !.at = a, !.held = {}] \in TurnRec
         /\ \A f \in Facts : [r EXCEPT !.mem = @ \cup {f}] \in TurnRec
         /\ \A s \in Says : [r EXCEPT !.held = @ \cup {s}] \in TurnRec
         /\ [r EXCEPT !.stop = TRUE] \in TurnRec /\ [r EXCEPT !.gone = TRUE] \in TurnRec
         /\ [NoTurn EXCEPT !.at = "done"] \in TurnRec
         /\ \A c \in Chats, w \in {"say", "chat", "stream"}, m \in Doc :
              [NoTurn EXCEPT !.at = "run", !.chat = c, !.by = w, !.mem = m] \in TurnRec
<1>1. \A a \in Claims : [r EXCEPT !.at = a] \in TurnRec
  BY DEF TurnRec
<1>2. \A a \in Claims : [r EXCEPT !.at = a, !.held = {}] \in TurnRec
  BY DEF TurnRec
<1>3. \A f \in Facts : [r EXCEPT !.mem = @ \cup {f}] \in TurnRec
  BY DEF TurnRec, Doc
<1>4. \A s \in Says : [r EXCEPT !.held = @ \cup {s}] \in TurnRec
  BY DEF TurnRec
<1>5. [r EXCEPT !.stop = TRUE] \in TurnRec /\ [r EXCEPT !.gone = TRUE] \in TurnRec
  BY DEF TurnRec
<1>6. [NoTurn EXCEPT !.at = "done"] \in TurnRec
  BY DEF TurnRec, NoTurn, Place, Doc
<1>7. \A c \in Chats, w \in {"say", "chat", "stream"}, m \in Doc :
              [NoTurn EXCEPT !.at = "run", !.chat = c, !.by = w, !.mem = m] \in TurnRec
  BY DEF TurnRec, NoTurn, Place, Claims
<1> QED
  BY <1>1, <1>2, <1>3, <1>4, <1>5, <1>6, <1>7

(* Each step of a turn, by what it makes of the turn's record. *)
LEMMA TurnSteps ==
  ASSUME ChatTypeOK, NEW t \in Turns
  PROVE  /\ turn[t] \in TurnRec
         /\ \A c \in Chats, w \in {"say", "chat", "stream"} : Starts(t, c, w) => turn' \in [Turns -> TurnRec]
         /\ Speak(t) \/ Ask(t) \/ PromptReads(t) \/ PromptDenies(t) \/ Interrupt(t) \/ ClientGoes(t)
            \/ Closes(t) \/ Releases(t) => turn' \in [Turns -> TurnRec]
<1>0. turn \in [Turns -> TurnRec] /\ turn[t] \in TurnRec /\ doc \in [Chats -> Doc]
  BY DEF ChatTypeOK
<1>s. slot # 0 => slot \in Says
  <2>1. slot \in 0..sent /\ sent \in 0..MaxSay
    BY DEF ChatTypeOK
  <2> QED
    BY <2>1, SizeAssumption DEF Says
<1>r. \A r \in TurnRec : [turn EXCEPT ![t] = r] \in [Turns -> TurnRec]
  BY <1>0
<1>1. ASSUME NEW c \in Chats, NEW w \in {"say", "chat", "stream"}, Starts(t, c, w)
      PROVE  turn' \in [Turns -> TurnRec]
  <2>1. doc'[c] \in Doc /\ doc[c] \in Doc
    BY <1>0, <1>1 DEF Starts, Saves, Doc
  <2> QED
    BY <2>1, <1>0, <1>r, <1>1, TurnUpdates DEF Starts
<1>2. ASSUME Speak(t) PROVE turn' \in [Turns -> TurnRec]
  BY <1>0, <1>r, <1>2, TurnUpdates DEF Speak, Facts
<1>3. ASSUME Ask(t) PROVE turn' \in [Turns -> TurnRec]
  BY <1>0, <1>r, <1>3, TurnUpdates DEF Ask, Claims
<1>4. ASSUME PromptReads(t) PROVE turn' \in [Turns -> TurnRec]
  <2>1. slot \in Says
    BY <1>s, <1>4 DEF PromptReads
  <2>2. [turn[t] EXCEPT !.at = "run", !.held = {}] \in TurnRec
    BY <1>0, TurnUpdates DEF Claims
  <2>3. [turn[t] EXCEPT !.held = @ \cup {slot}] \in TurnRec
    BY <2>1, <1>0, TurnUpdates
  <2>4. \/ turn' = [turn EXCEPT ![t].at = "run", ![t].held = {}]
        \/ turn' = [turn EXCEPT ![t].held = @ \cup {slot}]
    BY <1>4 DEF PromptReads
  <2>5. CASE turn' = [turn EXCEPT ![t].at = "run", ![t].held = {}]
    BY <2>2, <2>5, <1>0, <1>r
  <2>6. CASE turn' = [turn EXCEPT ![t].held = @ \cup {slot}]
    BY <2>3, <2>6, <1>0, <1>r
  <2> QED
    BY <2>4, <2>5, <2>6
<1>5. ASSUME PromptDenies(t) PROVE turn' \in [Turns -> TurnRec]
  BY <1>0, <1>r, <1>5, TurnUpdates DEF PromptDenies, Claims
<1>6. ASSUME Interrupt(t) PROVE turn' \in [Turns -> TurnRec]
  BY <1>0, <1>r, <1>6, TurnUpdates DEF Interrupt
<1>7. ASSUME ClientGoes(t) PROVE turn' \in [Turns -> TurnRec]
  BY <1>0, <1>r, <1>7, TurnUpdates DEF ClientGoes
<1>8. ASSUME Closes(t) PROVE turn' \in [Turns -> TurnRec]
  BY <1>0, <1>r, <1>8, TurnUpdates DEF Closes, Claims
<1>9. ASSUME Releases(t) PROVE turn' \in [Turns -> TurnRec]
  BY <1>0, <1>r, <1>9, TurnUpdates DEF Releases, Claims
<1> QED
  BY <1>0, <1>1, <1>2, <1>3, <1>4, <1>5, <1>6, <1>7, <1>8, <1>9

(* The four parts of ChatInv: the store and its marker; the slot and what waits; the turns;
   the other holders of a chat.                                                            *)
StoreOK == /\ kept \subseteq Chats /\ deleted \subseteq Chats /\ crossed \subseteq Chats
           /\ doc \in [Chats -> Doc] /\ saved \in [Chats -> Doc]
           /\ marker \in Chats \cup {"", Absent}

BoxOK == /\ slot \in 0..sent /\ sent \in 0..MaxSay
         /\ addr \in [Says -> Place] /\ ran \in [Says -> Place] /\ lock \in Place \cup {"free"}
         /\ back \subseteq Says /\ late \subseteq Says /\ slot \notin back
         /\ PlaceInv

TurnOK == /\ turn \in [Turns -> TurnRec]
          /\ \A t \in Turns : turn[t].at \in Claims => turn[t].chat \in Chats

HandOK == /\ elsewhere \in [chat : Place, mem : Doc]
          /\ looker \in Hand({"rest", "read", "heal"}) /\ maker \in Hand({"rest", "test", "open", "write"})
          /\ loader \in Hand({"rest", "read", "save"})
          /\ elsewhere = Nobody \/ elsewhere.chat \in Chats
          /\ loader.at = "rest" <=> loader.chat = Absent
          /\ maker.at # "rest" => maker.chat \in Chats

LEMMA Parts == ChatInv <=> conf \in Confs /\ StoreOK /\ BoxOK /\ TurnOK /\ HandOK
  BY DEF ChatInv, ChatTypeOK, HoldInv, StoreOK, BoxOK, TurnOK, HandOK

LEMMA PartsNext == ChatInv' <=> conf' \in Confs /\ StoreOK' /\ BoxOK' /\ TurnOK' /\ HandOK'
  BY DEF ChatInv, ChatTypeOK, HoldInv, StoreOK, BoxOK, TurnOK, HandOK

(* A step disturbs no part whose variables it leaves alone. *)
LEMMA Untouched ==
  ASSUME ChatInv
  PROVE  /\ UNCHANGED <<store, marker>> => StoreOK'
         /\ UNCHANGED <<box, back>> /\ (\A t \in Turns : turn'[t].held = turn[t].held) => BoxOK'
         /\ UNCHANGED turn => TurnOK'
         /\ UNCHANGED <<elsewhere, routes>> => HandOK'
<1>1. StoreOK /\ BoxOK /\ TurnOK /\ HandOK
  BY Parts
<1>2. UNCHANGED <<store, marker>> => StoreOK'
  BY <1>1 DEF StoreOK, store
<1>3. UNCHANGED <<box, back>> /\ (\A t \in Turns : turn'[t].held = turn[t].held) => BoxOK'
  BY <1>1 DEF BoxOK, box, PlaceInv
<1>4. UNCHANGED turn => TurnOK'
  BY <1>1 DEF TurnOK
<1>5. UNCHANGED <<elsewhere, routes>> => HandOK'
  BY <1>1 DEF HandOK, routes
<1> QED
  BY <1>2, <1>3, <1>4, <1>5

(* What holds a chat, and what it holds of it. *)
LEMMA Holders ==
  ASSUME ChatInv
  PROVE  /\ \A t \in Turns : turn[t].mem \in Doc /\ (turn[t].at \in Claims => turn[t].chat \in Chats)
         /\ elsewhere.mem \in Doc /\ (elsewhere # Nobody => elsewhere.chat \in Chats)
         /\ loader.mem \in Doc /\ (loader.at # "rest" => loader.chat \in Chats)
         /\ maker.at # "rest" => maker.chat \in Chats
<1>1. TurnOK /\ HandOK
  BY Parts
<1>2. \A t \in Turns : turn[t].mem \in Doc /\ (turn[t].at \in Claims => turn[t].chat \in Chats)
  BY <1>1 DEF TurnOK, TurnRec
<1>3. elsewhere.mem \in Doc /\ (elsewhere # Nobody => elsewhere.chat \in Chats)
  BY <1>1 DEF HandOK
<1>4. loader.mem \in Doc /\ loader.chat \in Place
  BY <1>1 DEF HandOK, Hand
<1>5. loader.at # "rest" => loader.chat \in Chats
  BY <1>1, <1>4 DEF HandOK, Place
<1>6. maker.at # "rest" => maker.chat \in Chats
  BY <1>1 DEF HandOK
<1> QED
  BY <1>2, <1>3, <1>4, <1>5, <1>6

(* A document that is saved whole keeps the store's types. *)
LEMMA SavesStore ==
  ASSUME StoreOK, NEW c \in Chats, NEW f \in Doc, Saves(c, f)
  PROVE  kept' \subseteq Chats /\ doc' \in [Chats -> Doc]
  BY DEF StoreOK, Saves

LEMMA StoreFacts ==
  ASSUME StoreOK
  PROVE  /\ \A c \in Chats : doc[c] \in Doc /\ Crossed(c) \subseteq Chats
         /\ \A c \in Chats, f \in Facts : /\ doc[c] \cup {f} \in Doc
                                          /\ [saved EXCEPT ![c] = @ \cup {f}] \in [Chats -> Doc]
         /\ {} \in Doc /\ Fresh \subseteq Chats
         /\ \A m \in Doc, f \in Facts : m \cup {f} \in Doc
  BY DEF StoreOK, Doc, Crossed, Fresh

(* The slot is read: what waits elsewhere goes on waiting, or is let go. *)
LEMMA SlotRead ==
  ASSUME BoxOK, slot' = 0, UNCHANGED <<sent, addr, lock, late, back>>, ran' \in [Says -> Place],
         \A u \in Turns : turn'[u].held \in {{}, turn[u].held}
  PROVE  BoxOK'
<1>1. /\ \A u \in Turns : turn'[u].held \in {{}, turn[u].held} /\ turn[u].held \subseteq 1..sent
      /\ back \subseteq 1..sent /\ sent \in Nat
  BY SizeAssumption DEF BoxOK, PlaceInv
<1>2. slot' \in 0..sent' /\ slot' \notin back' /\ \A u \in Turns : slot' \notin turn'[u].held
  BY <1>1
<1>3. PlaceInv'
  BY <1>1, <1>2 DEF BoxOK, PlaceInv
<1> QED
  BY <1>2, <1>3 DEF BoxOK

(* A prompt ends: what it held is to be put back. *)
LEMMA HandsBack ==
  ASSUME BoxOK, NEW t \in Turns, slot' \in {0, slot}, UNCHANGED <<sent, addr, lock, late>>,
         ran' \in [Says -> Place], back' = back \cup turn[t].held, turn'[t].held = {},
         \A u \in Turns : u # t => turn'[u].held = turn[u].held
  PROVE  BoxOK'
<1>1. /\ \A u \in Turns : turn[u].held \subseteq 1..sent /\ slot \notin turn[u].held
      /\ back \subseteq 1..sent /\ slot \notin back /\ sent \in 0..MaxSay
  BY DEF BoxOK, PlaceInv
<1>2. back' \subseteq 1..sent
  BY <1>1
<1>3. sent \in Nat /\ 1..sent \subseteq Says /\ 0 \notin 1..sent
  BY <1>1, SizeAssumption DEF Says
<1>4. slot' \in 0..sent' /\ slot' \notin back' /\ \A u \in Turns : slot' \notin turn'[u].held
  BY <1>1, <1>2, <1>3 DEF BoxOK
<1>5. /\ \A u \in Turns : turn'[u].held \subseteq 1..sent' /\ turn'[u].held \cap back' = {}
      /\ \A u, w \in Turns : u # w => turn'[u].held \cap turn'[w].held = {}
  BY <1>1 DEF BoxOK, PlaceInv
<1>6. PlaceInv'
  BY <1>2, <1>4, <1>5 DEF BoxOK, PlaceInv
<1> QED
  BY <1>2, <1>3, <1>4, <1>6 DEF BoxOK

LEMMA ConfStays == [ChatNext]_chatVars => conf' = conf
  BY DEF ChatNext, Turn, Page, Threads, chatVars, SayTest, SayWrite, Requeue, Switch, Rename, Delete, LookReads,
     LookLoads, LookHeals, Makes, MakerTests, MakerWrites, UploadReads, UploadTests, UploadSaves, ElsewhereBegins,
     ElsewhereEnds, Claim, Consume, Starts, Speak, MidTurnSay, Ask, PromptReads, PromptDenies, Interrupt,
     ClientGoes, Ends, Cut, Over, Closes, Releases

(* Every step keeps the parts. *)
LEMMA NextChat == ChatInv /\ [ChatNext]_chatVars => ChatInv'
<1> SUFFICES ASSUME ChatInv, [ChatNext]_chatVars PROVE ChatInv'
  OBVIOUS
<1> DEFINE Kept == StoreOK' /\ BoxOK' /\ TurnOK' /\ HandOK'
<1>p. conf \in Confs /\ StoreOK /\ BoxOK /\ TurnOK /\ HandOK /\ ChatTypeOK
  BY Parts DEF ChatInv
<1>1. ASSUME NEW c \in Place, SayTest(c) PROVE Kept
  <2>1. StoreOK' /\ TurnOK' /\ HandOK'
    BY <1>1, Untouched DEF SayTest
  <2>2. BoxOK'
    BY <1>1, <1>p DEF SayTest, BoxOK, PlaceInv, Place
  <2> QED
    BY <2>1, <2>2
<1>2. ASSUME SayWrite PROVE Kept
  <2>1. StoreOK' /\ TurnOK' /\ HandOK'
    BY <1>2, Untouched DEF SayWrite
  <2>2. BoxOK'
    BY <1>2, <1>p, SizeAssumption DEF SayWrite, BoxOK, PlaceInv, Place
  <2> QED
    BY <2>1, <2>2
<1>3. ASSUME NEW s \in Says, Requeue(s) PROVE Kept
  <2>1. StoreOK' /\ TurnOK' /\ HandOK'
    BY <1>3, Untouched DEF Requeue
  <2>2. BoxOK'
    BY <1>3, <1>p DEF Requeue, BoxOK, PlaceInv
  <2> QED
    BY <2>1, <2>2
<1>4. ASSUME NEW c \in Chats, Switch(c) PROVE Kept
  <2>1. BoxOK' /\ TurnOK' /\ HandOK'
    BY <1>4, Untouched DEF Switch
  <2>2. StoreOK'
    BY <1>4, <1>p, SavesStore, StoreFacts DEF Switch, StoreOK
  <2> QED
    BY <2>1, <2>2
<1>5. ASSUME NEW c \in Chats, Rename(c) PROVE Kept
  <2>1. BoxOK' /\ TurnOK' /\ HandOK'
    BY <1>5, Untouched DEF Rename
  <2>2. StoreOK'
    BY <1>5, <1>p, SavesStore, StoreFacts DEF Rename, StoreOK, Facts
  <2> QED
    BY <2>1, <2>2
<1>6. ASSUME NEW c \in Chats, Delete(c) PROVE Kept
  <2>1. BoxOK' /\ TurnOK' /\ HandOK'
    BY <1>6, Untouched DEF Delete
  <2>2. StoreOK'
    BY <1>6, <1>p, SavesStore, StoreFacts DEF Delete, StoreOK
  <2> QED
    BY <2>1, <2>2
<1>7. ASSUME LookReads PROVE Kept
  <2>1. StoreOK' /\ BoxOK' /\ TurnOK'
    BY <1>7, Untouched DEF LookReads
  <2>2. HandOK'
    BY <1>7, <1>p DEF LookReads, HandOK, Hand, Rest, Place, Doc
  <2> QED
    BY <2>1, <2>2
<1>8. ASSUME LookLoads PROVE Kept
  <2>1. StoreOK' /\ BoxOK' /\ TurnOK'
    BY <1>8, Untouched DEF LookLoads
  <2>2. HandOK'
    BY <1>8, <1>p DEF LookLoads, HandOK, Hand, Rest, Place, Doc
  <2> QED
    BY <2>1, <2>2
<1>9. ASSUME LookHeals PROVE Kept
  <2>1. BoxOK' /\ TurnOK'
    BY <1>9, Untouched DEF LookHeals
  <2>2. StoreOK'
    BY <1>9, <1>p DEF LookHeals, StoreOK, store
  <2>3. HandOK'
    BY <1>9, <1>p DEF LookHeals, HandOK, Hand, Rest, Place, Doc
  <2> QED
    BY <2>1, <2>2, <2>3
<1>10. ASSUME NEW c \in Chats, Makes(c) PROVE Kept
  <2>1. BoxOK' /\ TurnOK'
    BY <1>10, Untouched DEF Makes
  <2>2. StoreOK'
    BY <1>10, <1>p, SavesStore, StoreFacts DEF Makes, StoreOK
  <2>3. HandOK'
    BY <1>10, <1>p DEF Makes, HandOK, Hand, Rest, Place, Doc
  <2> QED
    BY <2>1, <2>2, <2>3
<1>11. ASSUME MakerTests PROVE Kept
  <2>1. StoreOK' /\ BoxOK' /\ TurnOK'
    BY <1>11, Untouched DEF MakerTests
  <2>2. HandOK'
    BY <1>11, <1>p DEF MakerTests, HandOK, Hand, Rest, Place, Doc
  <2> QED
    BY <2>1, <2>2
<1>12. ASSUME MakerWrites PROVE Kept
  <2>1. BoxOK' /\ TurnOK'
    BY <1>12, Untouched DEF MakerWrites
  <2>2. StoreOK'
    BY <1>12, <1>p, Holders DEF MakerWrites, StoreOK, store
  <2>3. UNCHANGED <<elsewhere, looker, loader>>
    BY <1>12 DEF MakerWrites
  <2>4. maker' = Rest \/ (maker.at # "rest" /\ maker' = [maker EXCEPT !.at = "write"])
    BY <1>12 DEF MakerWrites
  <2>5. maker' \in Hand({"rest", "test", "open", "write"}) /\ (maker'.at # "rest" => maker'.chat \in Chats)
    BY <2>4, <1>p DEF HandOK, Hand, Rest, Place, Doc
  <2>6. HandOK'
    BY <2>3, <2>5, <1>p DEF HandOK
  <2> QED
    BY <2>1, <2>2, <2>6
<1>13. ASSUME NEW c \in Chats, UploadReads(c) PROVE Kept
  <2>1. BoxOK' /\ TurnOK'
    BY <1>13, Untouched DEF UploadReads
  <2>2. StoreOK'
    BY <1>13, <1>p DEF UploadReads, StoreOK
  <2>3. HandOK'
    BY <1>13, <1>p, StoreFacts, ChatAssumption DEF UploadReads, HandOK, Hand, Place
  <2> QED
    BY <2>1, <2>2, <2>3
<1>14. ASSUME UploadTests PROVE Kept
  <2>1. StoreOK' /\ BoxOK' /\ TurnOK'
    BY <1>14, Untouched DEF UploadTests
  <2>2. HandOK'
    BY <1>14, <1>p DEF UploadTests, HandOK, Hand, Rest, Place, Doc
  <2> QED
    BY <2>1, <2>2
<1>15. ASSUME UploadSaves PROVE Kept
  <2>1. BoxOK' /\ TurnOK'
    BY <1>15, Untouched DEF UploadSaves
  <2>2. StoreOK'
    BY <1>15, <1>p, SavesStore, StoreFacts, Holders DEF UploadSaves, StoreOK, Facts
  <2>3. HandOK'
    BY <1>15, <1>p DEF UploadSaves, HandOK, Hand, Rest, Place, Doc
  <2> QED
    BY <2>1, <2>2, <2>3
<1>16. ASSUME NEW c \in Chats, ElsewhereBegins(c) PROVE Kept
  <2>1. BoxOK' /\ TurnOK'
    BY <1>16, Untouched DEF ElsewhereBegins
  <2>2. StoreOK'
    BY <1>16, <1>p, StoreFacts DEF ElsewhereBegins, StoreOK
  <2>3. HandOK'
    BY <1>16, <1>p, StoreFacts DEF ElsewhereBegins, HandOK, Place, routes
  <2> QED
    BY <2>1, <2>2, <2>3
<1>17. ASSUME ElsewhereEnds PROVE Kept
  <2>1. BoxOK' /\ TurnOK'
    BY <1>17, Untouched DEF ElsewhereEnds
  <2>2. StoreOK'
    BY <1>17, <1>p, SavesStore, StoreFacts, Holders DEF ElsewhereEnds, StoreOK, Facts
  <2>3. HandOK'
    BY <1>17, <1>p DEF ElsewhereEnds, HandOK, Nobody, Place, Doc, routes
  <2> QED
    BY <2>1, <2>2, <2>3
<1>18. ASSUME NEW t \in Turns, NEW c \in Chats, NEW who \in {"say", "chat", "stream"}, Starts(t, c, who)
      PROVE  /\ TurnOK' /\ HandOK' /\ conf' \in Confs /\ kept' \subseteq Chats /\ doc' \in [Chats -> Doc]
             /\ saved' = saved /\ deleted' = deleted /\ crossed' \subseteq Chats
             /\ \A u \in Turns : turn'[u].held \in {{}, turn[u].held}
  <2>1. turn' \in [Turns -> TurnRec]
    BY <1>18, <1>p, TurnSteps
  <2>2. HandOK' /\ conf' \in Confs /\ saved' = saved /\ deleted' = deleted
    BY <1>18, <1>p, Untouched DEF Starts
  <2>3. /\ \A u \in Turns : turn'[u].at \in Claims => turn'[u].chat \in Chats
        /\ \A u \in Turns : turn'[u].held \in {{}, turn[u].held}
    BY <1>18, <1>p DEF Starts, TurnOK, NoTurn
  <2>4. kept' \subseteq Chats /\ doc' \in [Chats -> Doc]
    BY <1>18, <1>p, SavesStore, StoreFacts DEF Starts, StoreOK
  <2>5. crossed' \subseteq Chats
    BY <1>18, <1>p, StoreFacts DEF Starts, StoreOK
  <2> QED
    BY <2>1, <2>2, <2>3, <2>4, <2>5 DEF TurnOK
<1>19. ASSUME NEW t \in Turns, NEW c \in Chats, NEW who \in {"chat", "stream"}, Claim(t, c, who) PROVE Kept
  <2>1. Starts(t, c, who) /\ UNCHANGED <<marker, box, back>>
    BY <1>19 DEF Claim
  <2>2. StoreOK'
    BY <2>1, <1>18, <1>p DEF StoreOK
  <2>3. BoxOK'
    BY <2>1, <1>18, <1>p DEF BoxOK, PlaceInv, box
  <2> QED
    BY <2>1, <2>2, <2>3, <1>18
<1>20. ASSUME NEW t \in Turns, Consume(t) PROVE Kept
  <2>1. PICK c \in Chats : /\ Starts(t, c, "say") /\ marker' = c /\ slot' = 0
                           /\ ran' = IF slot = 0 THEN ran ELSE [ran EXCEPT ![slot] = c]
    BY <1>20, <1>p DEF Consume, Current, StoreOK, Fresh
  <2>2. StoreOK'
    BY <2>1, <1>18, <1>p DEF StoreOK
  <2>3. UNCHANGED <<sent, addr, lock, late, back>>
    BY <1>20 DEF Consume
  <2>4. ran' \in [Says -> Place]
    BY <2>1, <1>p DEF BoxOK, Place
  <2>5. BoxOK'
    BY <2>1, <2>3, <2>4, <1>18, <1>p, SlotRead
  <2> QED
    BY <2>1, <2>2, <2>5, <1>18
<1>21. ASSUME NEW t \in Turns, Speak(t) PROVE Kept
  <2>1. turn' \in [Turns -> TurnRec] /\ turn[t].chat \in Chats /\ turn[t].mem \cup {t} \in Doc
    BY <1>21, <1>p, TurnSteps, Holders, StoreFacts DEF Speak, Facts, Claims
  <2>2. \A u \in Turns : turn'[u].held = turn[u].held /\ turn'[u].at = turn[u].at /\ turn'[u].chat = turn[u].chat
    BY <1>21, <1>p DEF Speak, TurnOK, TurnRec
  <2>3. TurnOK'
    BY <2>1, <2>2, <1>p DEF TurnOK
  <2>4. BoxOK' /\ HandOK'
    BY <2>2, <1>21, Untouched DEF Speak
  <2>5. StoreOK'
    BY <2>1, <1>21, <1>p, SavesStore, StoreFacts DEF Speak, StoreOK, Facts
  <2> QED
    BY <2>3, <2>4, <2>5
<1>22. ASSUME NEW t \in Turns, MidTurnSay(t) PROVE Kept
  <2>1. StoreOK' /\ TurnOK' /\ HandOK'
    BY <1>22, Untouched DEF MidTurnSay
  <2>2. turn[t].chat \in Place
    BY <1>22, Holders DEF MidTurnSay, Claims, Place
  <2>3. ran' \in [Says -> Place]
    BY <2>2, <1>22, <1>p DEF MidTurnSay, BoxOK
  <2>4. slot' = 0 /\ UNCHANGED <<sent, addr, lock, late, back, turn>>
    BY <1>22 DEF MidTurnSay
  <2>5. BoxOK'
    BY <2>3, <2>4, <1>p, SlotRead
  <2> QED
    BY <2>1, <2>5
<1>23. ASSUME NEW t \in Turns, Ask(t) \/ Interrupt(t) \/ ClientGoes(t) PROVE Kept
  <2>1. StoreOK' /\ HandOK' /\ UNCHANGED <<box, back>>
    BY <1>23, Untouched DEF Ask, Interrupt, ClientGoes
  <2>2. turn' \in [Turns -> TurnRec]
    BY <1>23, <1>p, TurnSteps
  <2>3. \A u \in Turns : /\ turn'[u].held = turn[u].held /\ turn'[u].chat = turn[u].chat
                         /\ turn'[u].at \in Claims => turn[u].at \in Claims
    <3>1. CASE Ask(t)
      BY <3>1, <1>p DEF Ask, TurnOK, TurnRec, Claims
    <3>2. CASE Interrupt(t)
      BY <3>2, <1>p DEF Interrupt, TurnOK, TurnRec
    <3>3. CASE ClientGoes(t)
      BY <3>3, <1>p DEF ClientGoes, TurnOK, TurnRec
    <3> QED
      BY <3>1, <3>2, <3>3, <1>23
  <2>4. TurnOK'
    BY <2>2, <2>3, <1>p DEF TurnOK
  <2>5. BoxOK'
    BY <2>1, <2>3, Untouched
  <2> QED
    BY <2>1, <2>4, <2>5
<1>24. ASSUME NEW t \in Turns, PromptDenies(t) PROVE Kept
  <2>1. StoreOK' /\ HandOK' /\ UNCHANGED box
    BY <1>24, Untouched DEF PromptDenies
  <2>2. turn' \in [Turns -> TurnRec]
    BY <1>24, <1>p, TurnSteps
  <2>3. /\ turn'[t].held = {} /\ turn'[t].chat = turn[t].chat /\ turn[t].at \in Claims
        /\ \A u \in Turns : u # t => turn'[u] = turn[u]
    BY <1>24, <1>p DEF PromptDenies, TurnOK, TurnRec, Claims
  <2>4. TurnOK'
    BY <2>2, <2>3, <1>p DEF TurnOK
  <2>5. UNCHANGED <<slot, sent, addr, lock, late, ran>> /\ back' = back \cup turn[t].held
    BY <2>1, <1>24 DEF PromptDenies, box
  <2>6. BoxOK'
    BY <2>3, <2>5, <1>p, HandsBack DEF BoxOK
  <2> QED
    BY <2>1, <2>4, <2>6
<1>25. ASSUME NEW t \in Turns, PromptReads(t) PROVE Kept
  <2>1. StoreOK' /\ HandOK'
    BY <1>25, Untouched DEF PromptReads
  <2>2. turn' \in [Turns -> TurnRec]
    BY <1>25, <1>p, TurnSteps
  <2>3. /\ turn[t].at \in Claims /\ turn[t].chat \in Place /\ slot # 0 /\ slot' = 0
        /\ UNCHANGED <<sent, addr, lock, late>>
    BY <1>25, <1>p DEF PromptReads, Claims, TurnOK, TurnRec
  <2>4. CASE /\ ran' = [ran EXCEPT ![slot] = turn[t].chat] /\ back' = back \cup turn[t].held
             /\ turn' = [turn EXCEPT ![t].at = "run", ![t].held = {}]
    <3>1. ran' \in [Says -> Place]
      BY <2>3, <2>4, <1>p DEF BoxOK
    <3>2. /\ turn'[t].held = {} /\ turn'[t].chat = turn[t].chat
          /\ \A u \in Turns : u # t => turn'[u] = turn[u]
      BY <2>4, <1>p DEF TurnOK, TurnRec
    <3>3. TurnOK'
      BY <2>2, <2>3, <3>2, <1>p DEF TurnOK
    <3>4. BoxOK'
      BY <2>3, <2>4, <3>1, <3>2, <1>p, HandsBack
    <3> QED
      BY <2>1, <3>3, <3>4
  <2>5. CASE turn' = [turn EXCEPT ![t].held = @ \cup {slot}] /\ UNCHANGED <<ran, back>>
    <3>1. /\ turn'[t].held = turn[t].held \cup {slot} /\ turn'[t].chat = turn[t].chat
          /\ turn'[t].at = turn[t].at /\ \A u \in Turns : u # t => turn'[u] = turn[u]
      BY <2>5, <1>p DEF TurnOK, TurnRec
    <3>2. TurnOK'
      BY <2>2, <3>1, <1>p DEF TurnOK
    <3>3. slot \in 1..sent /\ sent \in Nat /\ 0 \notin 1..sent
      BY <2>3, <1>p, SizeAssumption DEF BoxOK
    <3>4. \A u \in Turns : turn[u].held \subseteq 1..sent /\ slot \notin turn[u].held
      BY <1>p DEF BoxOK, PlaceInv
    <3>5. \A u \in Turns : turn'[u].held \subseteq 1..sent' /\ slot' \notin turn'[u].held
      BY <2>3, <3>1, <3>3, <3>4
    <3>6. /\ \A u \in Turns : turn'[u].held \cap back' = {}
          /\ \A u, w \in Turns : u # w => turn'[u].held \cap turn'[w].held = {}
      BY <2>5, <3>1, <3>4, <1>p DEF BoxOK, PlaceInv
    <3>7. back' \subseteq 1..sent' /\ slot' \in 0..sent' /\ slot' \notin back'
      BY <2>3, <2>5, <3>3, <1>p DEF BoxOK, PlaceInv
    <3>8. PlaceInv'
      BY <2>3, <3>5, <3>6, <3>7, <1>p DEF BoxOK, PlaceInv
    <3>9. BoxOK'
      BY <2>3, <2>5, <3>7, <3>8, <1>p DEF BoxOK
    <3> QED
      BY <2>1, <3>2, <3>9
  <2> QED
    BY <2>4, <2>5, <1>25 DEF PromptReads
<1>26. ASSUME NEW t \in Turns, turn[t].at \in {"run", "ask"}, Closes(t)
       PROVE  BoxOK' /\ TurnOK' /\ HandOK' /\ turn[t].chat \in Chats
  <2>1. HandOK' /\ UNCHANGED <<box, marker>>
    BY <1>26, Untouched DEF Closes
  <2>2. turn' \in [Turns -> TurnRec]
    BY <1>26, <1>p, TurnSteps
  <2>3. /\ turn'[t].held = {} /\ turn'[t].chat = turn[t].chat /\ turn[t].chat \in Chats
        /\ \A u \in Turns : u # t => turn'[u] = turn[u]
    BY <1>26, <1>p DEF Closes, TurnOK, TurnRec, Claims
  <2>4. TurnOK'
    BY <2>2, <2>3, <1>p DEF TurnOK
  <2>5. UNCHANGED <<slot, sent, addr, lock, late, ran>> /\ back' = back \cup turn[t].held
    BY <2>1, <1>26 DEF Closes, box
  <2>6. BoxOK'
    BY <2>3, <2>5, <1>p, HandsBack DEF BoxOK
  <2> QED
    BY <2>1, <2>3, <2>4, <2>6
<1>27. ASSUME NEW t \in Turns, Ends(t) \/ Cut(t) PROVE Kept
  <2>1. turn[t].at \in {"run", "ask"} /\ Closes(t)
    BY <1>27 DEF Ends, Cut, Over
  <2>2. UNCHANGED <<kept, doc>> \/ Saves(turn[t].chat, turn[t].mem)
    BY <1>27 DEF Ends, Cut, Over
  <2>3. turn[t].chat \in Chats /\ turn[t].mem \in Doc
    BY <2>1, <1>26, Holders
  <2>4. kept' \subseteq Chats /\ doc' \in [Chats -> Doc]
    BY <2>2, <2>3, <1>p, SavesStore DEF StoreOK
  <2>5. StoreOK'
    BY <2>1, <2>3, <2>4, <1>p, StoreFacts DEF Closes, StoreOK
  <2> QED
    BY <2>1, <2>5, <1>26
<1>28. ASSUME NEW t \in Turns, Releases(t) PROVE Kept
  <2>1. StoreOK' /\ HandOK' /\ UNCHANGED <<box, back>>
    BY <1>28, Untouched DEF Releases
  <2>2. turn' \in [Turns -> TurnRec]
    BY <1>28, <1>p, TurnSteps
  <2>3. /\ \/ turn' = [turn EXCEPT ![t] = [NoTurn EXCEPT !.at = "done"]]
           \/ turn' = [turn EXCEPT ![t].at = "stuck"]
        /\ turn[t].at \in Claims
    BY <1>28 DEF Releases, Claims
  <2>4. \A u \in Turns : /\ turn'[u].held \in {{}, turn[u].held}
                         /\ turn'[u].at \in Claims => turn[u].at \in Claims /\ turn'[u].chat = turn[u].chat
    <3>1. CASE turn' = [turn EXCEPT ![t] = [NoTurn EXCEPT !.at = "done"]]
      BY <3>1, <1>p DEF TurnOK, NoTurn, Claims
    <3>2. CASE turn' = [turn EXCEPT ![t].at = "stuck"]
      BY <2>3, <3>2, <1>p DEF TurnOK, TurnRec
    <3> QED
      BY <2>3, <3>1, <3>2
  <2>5. TurnOK'
    BY <2>2, <2>4, <1>p DEF TurnOK
  <2>6. BoxOK'
    BY <2>1, <2>4, <1>p DEF BoxOK, PlaceInv, box
  <2> QED
    BY <2>1, <2>5, <2>6
<1>29. UNCHANGED chatVars => Kept
  BY Untouched DEF chatVars
<1>30. ChatNext => Kept
  BY <1>1, <1>2, <1>3, <1>4, <1>5, <1>6, <1>7, <1>8, <1>9, <1>10, <1>11, <1>12, <1>13, <1>14, <1>15, <1>16, <1>17,
     <1>19, <1>20, <1>21, <1>22, <1>23, <1>24, <1>25, <1>27, <1>28
     DEF ChatNext, Turn, Page, Threads, Place
<1> QED
  BY <1>29, <1>30, ConfStays, <1>p, PartsNext

(* The types hold in every state; a message waits in one place, and a claim is of a chat. *)
THEOREM ChatTypeCorrect == ChatSpec => []ChatTypeOK
<1>1. ChatInv => ChatTypeOK
  BY DEF ChatInv
<1> QED
  BY <1>1, InitChat, NextChat, PTL DEF ChatSpec

-----------------------------------------------------------------------------
OneTurnPerChat ==
  \A t, u \in Turns :
    turn[t].at \in Claims /\ turn[u].at \in Claims /\ turn[t].chat = turn[u].chat => t = u

Others(t) == \A u \in Turns : u # t => turn'[u] = turn[u]

(* What has a claim afterwards had it before. *)
KeepsClaims == \A u \in Turns : turn'[u].at \in Claims => turn[u].at \in Claims /\ turn'[u].chat = turn[u].chat

(* No step gives a turn a chat, but its start. *)
LEMMA Claimed ==
  ASSUME ChatInv, \/ \E t \in Turns : Turn(t) /\ ~Consume(t)
                  \/ Page \/ Threads \/ (\E c \in Chats : ElsewhereBegins(c)) \/ ElsewhereEnds
  PROVE  KeepsClaims
<1> USE DEF KeepsClaims
<1>p. turn \in [Turns -> TurnRec]
  BY DEF ChatInv, ChatTypeOK
<1>1. ASSUME NEW t \in Turns, Speak(t) \/ Interrupt(t) \/ ClientGoes(t) PROVE KeepsClaims
  <2>1. CASE Speak(t)
    BY <2>1, <1>p DEF Speak, TurnRec
  <2>2. CASE Interrupt(t)
    BY <2>2, <1>p DEF Interrupt, TurnRec
  <2>3. CASE ClientGoes(t)
    BY <2>3, <1>p DEF ClientGoes, TurnRec
  <2> QED
    BY <2>1, <2>2, <2>3, <1>1
<1>2. ASSUME NEW t \in Turns, Ask(t) \/ PromptDenies(t) \/ PromptReads(t) PROVE KeepsClaims
  <2>1. CASE Ask(t)
    BY <2>1, <1>p DEF Ask, TurnRec, Claims
  <2>2. CASE PromptDenies(t)
    BY <2>2, <1>p DEF PromptDenies, TurnRec, Claims
  <2>3. CASE PromptReads(t)
    <3>1. CASE turn' = [turn EXCEPT ![t].at = "run", ![t].held = {}]
      BY <2>3, <3>1, <1>p DEF PromptReads, TurnRec, Claims
    <3>2. CASE turn' = [turn EXCEPT ![t].held = @ \cup {slot}]
      BY <3>2, <1>p DEF TurnRec
    <3> QED
      BY <2>3, <3>1, <3>2 DEF PromptReads
  <2> QED
    BY <2>1, <2>2, <2>3, <1>2
<1>3. ASSUME NEW t \in Turns, Ends(t) \/ Cut(t) PROVE KeepsClaims
  <2>1. turn[t].at \in {"run", "ask"} /\ turn' = [turn EXCEPT ![t].at = "over", ![t].held = {}]
    BY <1>3 DEF Ends, Cut, Over, Closes
  <2> QED
    BY <2>1, <1>p DEF TurnRec, Claims
<1>4. ASSUME NEW t \in Turns, Releases(t) PROVE KeepsClaims
  <2>1. CASE turn' = [turn EXCEPT ![t] = [NoTurn EXCEPT !.at = "done"]]
    BY <2>1, <1>p DEF NoTurn, Claims
  <2>2. CASE turn' = [turn EXCEPT ![t].at = "stuck"]
    BY <2>2, <1>4, <1>p DEF Releases, TurnRec, Claims
  <2> QED
    BY <2>1, <2>2, <1>4 DEF Releases
<1>5. (\E t \in Turns : MidTurnSay(t)) \/ Page \/ Threads \/ (\E c \in Chats : ElsewhereBegins(c)) \/ ElsewhereEnds
      => KeepsClaims
  BY DEF MidTurnSay, Page, Threads, SayTest, SayWrite, Requeue, Switch, Rename, Delete, LookReads, LookLoads,
     LookHeals, Makes, MakerTests, MakerWrites, UploadReads, UploadTests, UploadSaves, ElsewhereBegins, ElsewhereEnds
<1> QED
  BY <1>1, <1>2, <1>3, <1>4, <1>5 DEF Turn

(* A turn begins in a chat that no turn claims, or the claims are those there were. *)
LEMMA TurnMoves ==
  ASSUME ChatInv, ChatNext
  PROVE  \/ \E t \in Turns, c \in Chats \ Inflight, who \in {"say", "chat", "stream"} : Starts(t, c, who)
         \/ KeepsClaims
<1>1. ASSUME NEW t \in Turns, Consume(t)
      PROVE  \E c \in Chats \ Inflight : Starts(t, c, "say")
  <2>1. PICK c \in Chats : Starts(t, c, "say")
    BY <1>1, Parts DEF Consume, Current, StoreOK, Fresh
  <2>2. Inflight = {}
    BY <1>1 DEF Consume
  <2> QED
    BY <2>1, <2>2
<1>2. ASSUME NEW t \in Turns, NEW c \in Chats, NEW who \in {"chat", "stream"}, Claim(t, c, who)
      PROVE  c \in Chats \ Inflight /\ Starts(t, c, who)
  BY <1>2 DEF Claim
<1> QED
  BY <1>1, <1>2, Claimed DEF ChatNext

LEMMA NextOneTurn == ChatInv /\ OneTurnPerChat /\ [ChatNext]_chatVars => OneTurnPerChat'
<1> SUFFICES ASSUME ChatInv, OneTurnPerChat, [ChatNext]_chatVars PROVE OneTurnPerChat'
  OBVIOUS
<1>p. turn \in [Turns -> TurnRec]
  BY DEF ChatInv, ChatTypeOK
<1>1. ASSUME NEW t \in Turns, NEW c \in Chats \ Inflight, NEW who \in {"say", "chat", "stream"}, Starts(t, c, who)
      PROVE  OneTurnPerChat'
  <2>1. turn'[t].chat = c /\ Others(t)
    BY <1>1, <1>p DEF Starts, NoTurn, Others
  <2>2. \A u \in Turns : turn[u].at \in Claims => turn[u].chat # c
    BY DEF Inflight
  <2> QED
    BY <2>1, <2>2 DEF OneTurnPerChat, Others
<1>2. CASE KeepsClaims
  BY <1>2 DEF OneTurnPerChat, KeepsClaims
<1>3. CASE UNCHANGED chatVars
  BY <1>3 DEF chatVars, OneTurnPerChat
<1> QED
  BY <1>1, <1>2, <1>3, TurnMoves

(* No two turns of the process ever run in one chat (server/app.py:920-926, 1494-1504), however
   POST /chat, POST /chat/stream and the say consumer come together.                          *)
THEOREM OneTurnPerChatAlways == ChatSpec => []OneTurnPerChat
<1>1. ASSUME ChatInit PROVE OneTurnPerChat
  <2>1. \A t \in Turns : turn[t].at = "none"
    BY <1>1 DEF ChatInit, NoTurn
  <2> QED
    BY <2>1 DEF OneTurnPerChat, Claims
<1> QED
  BY <1>1, InitChat, NextChat, NextOneTurn, PTL DEF ChatSpec

-----------------------------------------------------------------------------
RunsIn(t, c) == turn[t].at \in {"run", "ask"} /\ turn[t].chat = c

(* Whoever holds chat c in memory holds all that was saved in it, and nothing of it is missing
   from its document: a turn here, which is alone; a turn of another process; and an upload,
   that gives way to the turn it finds.                                                       *)
StoreKeeps(c) == /\ c \in deleted => c \notin kept
                 /\ c \in kept => saved[c] \subseteq doc[c]
                 /\ c \notin deleted /\ saved[c] # {} => c \in kept

TurnHolds(c) == \A t \in Turns : RunsIn(t, c) => /\ c \in kept /\ saved[c] \subseteq turn[t].mem
                                                 /\ elsewhere.chat # c

FarHolds(c) == elsewhere.chat = c => c \in kept /\ saved[c] \subseteq elsewhere.mem

UploadHolds(c) ==
  loader.chat = c =>
    /\ c \in kept /\ elsewhere.chat # c
    /\ loader.at = "read" => saved[c] \subseteq loader.mem \/ \E t \in Turns : RunsIn(t, c)
    /\ loader.at = "save" => saved[c] \subseteq loader.mem /\ ~\E t \in Turns : RunsIn(t, c)

CopyInv(c) == StoreKeeps(c) /\ TurnHolds(c) /\ FarHolds(c) /\ UploadHolds(c)

LossInv == \A c \in Chats \ crossed : CopyInv(c)

(* A step that changes neither chat c nor what is held of it. *)
StoreAside(c) == /\ (c \in kept') = (c \in kept) /\ (c \in deleted') = (c \in deleted)
                 /\ doc'[c] = doc[c] /\ saved'[c] = saved[c]

TurnsAside(c) == \A t \in Turns : /\ RunsIn(t, c)' = RunsIn(t, c)
                                  /\ RunsIn(t, c) => turn'[t].mem = turn[t].mem

HandsAside(c) == /\ elsewhere'.chat = c => elsewhere' = elsewhere
                 /\ loader'.chat = c => loader' = loader

LEMMA Aside ==
  ASSUME NEW c \in Chats, CopyInv(c), StoreAside(c), TurnsAside(c), HandsAside(c)
  PROVE  CopyInv(c)'
<1>1. StoreKeeps(c)'
  BY DEF CopyInv, StoreKeeps, StoreAside
<1>2. FarHolds(c)'
  BY DEF CopyInv, FarHolds, StoreAside, HandsAside
<1>3. TurnHolds(c)'
  BY DEF CopyInv, TurnHolds, StoreAside, TurnsAside, HandsAside
<1>4. UploadHolds(c)'
  BY DEF CopyInv, UploadHolds, StoreAside, TurnsAside, HandsAside
<1> QED
  BY <1>1, <1>2, <1>3, <1>4 DEF CopyInv

(* Nothing is lost of a chat that is not in the store and holds nothing yet. *)
LEMMA MadeFresh ==
  ASSUME NEW c \in Chats, CopyInv(c), c \notin kept, c \notin deleted, c \notin deleted', saved' = saved,
         UNCHANGED turn, HandsAside(c)
  PROVE  CopyInv(c)'
<1>1. saved[c] = {}
  BY DEF CopyInv, StoreKeeps
<1>2. /\ \A t \in Turns : ~RunsIn(t, c) /\ ~RunsIn(t, c)'
      /\ elsewhere.chat # c /\ elsewhere'.chat # c /\ loader.chat # c /\ loader'.chat # c
  BY DEF CopyInv, TurnHolds, FarHolds, UploadHolds, HandsAside, RunsIn
<1> QED
  BY <1>1, <1>2 DEF CopyInv, StoreKeeps, TurnHolds, FarHolds, UploadHolds

(* Every step keeps what holders hold, of a chat that no two writers held at once. *)
LEMMA NextCopy ==
  ASSUME ChatInv, OneTurnPerChat, [ChatNext]_chatVars, NEW c \in Chats, c \notin crossed', CopyInv(c)
  PROVE  CopyInv(c)'
<1>p. /\ turn \in [Turns -> TurnRec] /\ doc \in [Chats -> Doc] /\ saved \in [Chats -> Doc]
      /\ kept \subseteq Chats /\ Absent \notin Chats
  BY ChatAssumption DEF ChatInv, ChatTypeOK
<1>0. ASSUME UNCHANGED <<store, turn, elsewhere, loader>> PROVE CopyInv(c)'
  BY <1>0, Aside DEF StoreAside, TurnsAside, HandsAside, store, RunsIn
<1>1. ASSUME UNCHANGED chatVars PROVE CopyInv(c)'
  BY <1>1, <1>0 DEF chatVars, routes
<1>2. ASSUME \/ (\E d \in Place : SayTest(d)) \/ SayWrite \/ (\E s \in Says : Requeue(s)) \/ LookReads \/ LookLoads \/ LookHeals
             \/ MakerTests \/ MakerWrites
      PROVE  CopyInv(c)'
  BY <1>2, <1>0 DEF SayTest, SayWrite, Requeue, LookReads, LookLoads, LookHeals, MakerTests, MakerWrites, routes
<1>3. ASSUME NEW d \in Chats, Makes(d) \/ Switch(d) PROVE CopyInv(c)'
  <2>1. UNCHANGED <<saved, deleted, turn, elsewhere, loader>>
    BY <1>3 DEF Makes, Switch, routes
  <2>2. UNCHANGED <<kept, doc>> \/ (d \in Fresh /\ Saves(d, {}))
    BY <1>3 DEF Makes, Switch
  <2>3. CASE d = c /\ c \in Fresh
    BY <2>1, <2>3, MadeFresh DEF HandsAside, Fresh
  <2>4. CASE UNCHANGED <<kept, doc>> \/ (d # c /\ Saves(d, {}))
    BY <2>1, <2>4, <1>p, Aside DEF StoreAside, TurnsAside, HandsAside, RunsIn, Saves
  <2> QED
    BY <2>2, <2>3, <2>4
<1>4. ASSUME NEW d \in Chats, Rename(d) PROVE CopyInv(c)'
  <2>1. UNCHANGED <<deleted, turn, elsewhere, loader>> /\ Saves(d, doc[d] \cup {Name})
    BY <1>4 DEF Rename, routes
  <2>2. saved' = [saved EXCEPT ![d] = @ \cup {Name}] /\ d \in kept /\ crossed' = Crossed(d) /\ MayChange(d)
    BY <1>4 DEF Rename
  <2>3. CASE d # c
    BY <2>1, <2>2, <2>3, <1>p, Aside DEF StoreAside, TurnsAside, HandsAside, RunsIn, Saves
  <2>4. CASE d = c
    <3>1. loader.chat # c /\ elsewhere.chat # c /\ c \notin Inflight
      BY <2>2, <2>4 DEF Crossed, MayChange
    <3>2. \A t \in Turns : ~RunsIn(t, c)'
      BY <2>1, <3>1 DEF RunsIn, Inflight, Claims
    <3>3. StoreKeeps(c)'
      BY <2>1, <2>2, <2>4, <1>p DEF CopyInv, StoreKeeps, Saves
    <3> QED
      BY <2>1, <3>1, <3>2, <3>3 DEF CopyInv, TurnHolds, FarHolds, UploadHolds
  <2> QED
    BY <2>3, <2>4
<1>5. ASSUME NEW d \in Chats, Delete(d) PROVE CopyInv(c)'
  <2>1. UNCHANGED <<doc, saved, turn, elsewhere, loader>>
    BY <1>5 DEF Delete, routes
  <2>2. /\ kept' = kept \ {d} \/ \E f \in Fresh : kept' = (kept \cup {f}) \ {d}
        /\ deleted' = deleted \cup {d} /\ crossed' = Crossed(d) /\ MayChange(d) /\ d \in kept
    BY <1>5 DEF Delete
  <2>3. CASE d = c
    <3>1. loader.chat # c /\ elsewhere.chat # c /\ c \notin Inflight
      BY <2>2, <2>3 DEF Crossed, MayChange
    <3>2. \A t \in Turns : ~RunsIn(t, c)'
      BY <2>1, <3>1 DEF RunsIn, Inflight, Claims
    <3>3. StoreKeeps(c)'
      BY <2>2, <2>3 DEF StoreKeeps
    <3> QED
      BY <2>1, <3>1, <3>2, <3>3 DEF CopyInv, TurnHolds, FarHolds, UploadHolds
  <2>4. CASE d # c /\ c \in kept' /\ c \notin kept
    BY <2>1, <2>2, <2>4, MadeFresh DEF HandsAside, Fresh
  <2>5. CASE d # c /\ (c \in kept') = (c \in kept)
    BY <2>1, <2>2, <2>5, Aside DEF StoreAside, TurnsAside, HandsAside, RunsIn
  <2> QED
    BY <2>2, <2>3, <2>4, <2>5
<1>6. ASSUME NEW t \in Turns, NEW d \in Chats \ Inflight, NEW who \in {"say", "chat", "stream"}, Starts(t, d, who)
      PROVE  CopyInv(c)'
  <2>1. UNCHANGED <<saved, deleted, elsewhere, loader>>
    BY <1>6 DEF Starts, routes
  <2>2. (UNCHANGED <<kept, doc>> /\ d \in kept) \/ (d \in Fresh /\ Saves(d, {}))
    BY <1>6 DEF Starts
  <2>3. /\ turn[t].at = "none" /\ turn'[t].chat = d /\ turn'[t].mem = doc[d]
        /\ \A u \in Turns : u # t => turn'[u] = turn[u]
    BY <1>6, <1>p DEF Starts, NoTurn
  <2>4. CASE d # c
    <3>1. TurnsAside(c)
      BY <2>3, <2>4 DEF TurnsAside, RunsIn
    <3> QED
      BY <2>1, <2>2, <2>4, <3>1, <1>p, Aside DEF StoreAside, HandsAside, Saves
  <2>5. CASE d = c
    <3>1. loader.chat # c /\ elsewhere.chat # c
      BY <1>6, <2>5 DEF Starts, Crossed
    <3>2. \A u \in Turns : RunsIn(u, c)' => u = t
      BY <2>3, <2>5 DEF RunsIn, Inflight, Claims
    <3>3. saved[c] \subseteq doc[c] /\ c \in kept' /\ saved[c] \subseteq doc'[c] /\ c \notin deleted
      <4>1. CASE UNCHANGED <<kept, doc>> /\ d \in kept
        BY <2>5, <4>1 DEF CopyInv, StoreKeeps
      <4>2. CASE d \in Fresh /\ Saves(d, {})
        BY <2>5, <4>2 DEF CopyInv, StoreKeeps, Fresh, Saves
      <4> QED
        BY <2>2, <4>1, <4>2
    <3> QED
      BY <2>1, <2>3, <2>5, <3>1, <3>2, <3>3 DEF CopyInv, StoreKeeps, TurnHolds, FarHolds, UploadHolds
  <2> QED
    BY <2>4, <2>5
<1>7. ASSUME NEW t \in Turns, Speak(t) PROVE CopyInv(c)'
  <2>1. /\ UNCHANGED <<deleted, elsewhere, loader>> /\ turn[t].at = "run"
        /\ Saves(turn[t].chat, turn[t].mem \cup {t})
        /\ saved' = [saved EXCEPT ![turn[t].chat] = @ \cup {t}]
    BY <1>7 DEF Speak, routes
  <2>2. /\ turn'[t].at = "run" /\ turn'[t].chat = turn[t].chat /\ turn'[t].mem = turn[t].mem \cup {t}
        /\ \A u \in Turns : u # t => turn'[u] = turn[u]
    BY <1>7, <1>p DEF Speak, TurnRec
  <2>3. \A u \in Turns : RunsIn(u, c)' = RunsIn(u, c)
    BY <2>1, <2>2 DEF RunsIn
  <2>4. CASE turn[t].chat # c
    <3>1. TurnsAside(c)
      BY <2>2, <2>3, <2>4 DEF TurnsAside, RunsIn
    <3> QED
      BY <2>1, <2>4, <3>1, <1>p, Aside DEF StoreAside, HandsAside, Saves
  <2>5. CASE turn[t].chat = c
    <3>1. RunsIn(t, c) /\ \A u \in Turns : RunsIn(u, c) => u = t
      BY <2>1, <2>5 DEF RunsIn, OneTurnPerChat, Claims
    <3>2. c \in kept /\ c \notin deleted /\ saved[c] \subseteq turn[t].mem /\ elsewhere.chat # c
      BY <3>1 DEF CopyInv, TurnHolds, StoreKeeps
    <3>3. /\ c \in kept' /\ c \notin deleted' /\ saved'[c] \subseteq turn'[t].mem /\ saved'[c] \subseteq doc'[c]
          /\ elsewhere'.chat # c
      BY <2>1, <2>2, <2>5, <3>2, <1>p DEF Saves
    <3>4. StoreKeeps(c)' /\ TurnHolds(c)' /\ FarHolds(c)'
      BY <2>3, <3>1, <3>3 DEF StoreKeeps, TurnHolds, FarHolds
    <3>5. UploadHolds(c)'
      BY <2>1, <2>3, <3>1, <3>3 DEF CopyInv, UploadHolds
    <3> QED
      BY <3>4, <3>5 DEF CopyInv
  <2> QED
    BY <2>4, <2>5
<1>8. ASSUME NEW t \in Turns,
             Ask(t) \/ PromptReads(t) \/ PromptDenies(t) \/ Interrupt(t) \/ ClientGoes(t) \/ Releases(t)
      PROVE  CopyInv(c)'
  <2>1. UNCHANGED <<store, elsewhere, loader>>
    BY <1>8 DEF Ask, PromptReads, PromptDenies, Interrupt, ClientGoes, Releases, routes
  <2>2. \A u \in Turns : u # t => turn'[u] = turn[u]
    BY <1>8, <1>p DEF Ask, PromptReads, PromptDenies, Interrupt, ClientGoes, Releases
  <2>3. RunsIn(t, c)' = RunsIn(t, c) /\ (RunsIn(t, c) => turn'[t].mem = turn[t].mem)
    <3>1. CASE Ask(t)
      BY <3>1, <1>p DEF Ask, TurnRec, RunsIn
    <3>2. CASE PromptReads(t)
      <4>1. turn[t].at = "ask"
        BY <3>2 DEF PromptReads
      <4>2. CASE turn' = [turn EXCEPT ![t].at = "run", ![t].held = {}]
        BY <4>1, <4>2, <1>p DEF TurnRec, RunsIn
      <4>3. CASE turn' = [turn EXCEPT ![t].held = @ \cup {slot}]
        BY <4>3, <1>p DEF TurnRec, RunsIn
      <4> QED
        BY <3>2, <4>2, <4>3 DEF PromptReads
    <3>3. CASE PromptDenies(t)
      BY <3>3, <1>p DEF PromptDenies, TurnRec, RunsIn
    <3>4. CASE Interrupt(t) \/ ClientGoes(t)
      <4>1. CASE Interrupt(t)
        BY <4>1, <1>p DEF Interrupt, TurnRec, RunsIn
      <4>2. CASE ClientGoes(t)
        BY <4>2, <1>p DEF ClientGoes, TurnRec, RunsIn
      <4> QED
        BY <3>4, <4>1, <4>2
    <3>5. CASE Releases(t)
      <4>1. ~RunsIn(t, c)
        BY <3>5 DEF Releases, RunsIn
      <4>2. turn'[t].at \in {"done", "stuck"}
        BY <3>5, <1>p DEF Releases, TurnRec, NoTurn
      <4> QED
        BY <4>1, <4>2 DEF RunsIn
    <3> QED
      BY <3>1, <3>2, <3>3, <3>4, <3>5, <1>8
  <2>4. TurnsAside(c)
    BY <2>2, <2>3 DEF TurnsAside, RunsIn
  <2> QED
    BY <2>1, <2>4, Aside DEF StoreAside, HandsAside, store
<1>9. ASSUME NEW t \in Turns, MidTurnSay(t) PROVE CopyInv(c)'
  BY <1>9, <1>0 DEF MidTurnSay, routes
<1>10. ASSUME NEW t \in Turns, Ends(t) \/ Cut(t) PROVE CopyInv(c)'
  <2>1. /\ turn[t].at \in {"run", "ask"} /\ turn' = [turn EXCEPT ![t].at = "over", ![t].held = {}]
        /\ crossed' = Crossed(turn[t].chat) /\ UNCHANGED <<saved, deleted, elsewhere, loader>>
        /\ UNCHANGED <<kept, doc>> \/ Saves(turn[t].chat, turn[t].mem)
    BY <1>10 DEF Ends, Cut, Over, Closes, routes
  <2>2. turn'[t].at = "over" /\ \A u \in Turns : u # t => turn'[u] = turn[u]
    BY <2>1, <1>p DEF TurnRec
  <2>3. CASE turn[t].chat # c
    <3>1. TurnsAside(c)
      BY <2>2, <2>3 DEF TurnsAside, RunsIn
    <3> QED
      BY <2>1, <2>3, <3>1, <1>p, Aside DEF StoreAside, HandsAside, Saves
  <2>4. CASE turn[t].chat = c
    <3>1. RunsIn(t, c) /\ loader.chat # c
      BY <2>1, <2>4 DEF RunsIn, Crossed
    <3>2. c \in kept /\ c \notin deleted /\ saved[c] \subseteq turn[t].mem /\ elsewhere.chat # c
      BY <3>1 DEF CopyInv, TurnHolds, StoreKeeps
    <3>3. \A u \in Turns : ~RunsIn(u, c)'
      <4>1. ~RunsIn(t, c)'
        BY <2>2 DEF RunsIn
      <4>2. ASSUME NEW u \in Turns, u # t PROVE ~RunsIn(u, c)'
        BY <2>1, <2>2, <2>4, <4>2 DEF RunsIn, OneTurnPerChat, Claims
      <4> QED
        BY <4>1, <4>2
    <3>4. c \in kept' /\ saved'[c] \subseteq doc'[c]
      BY <2>1, <2>4, <3>2, <1>p DEF Saves, CopyInv, StoreKeeps
    <3> QED
      BY <2>1, <3>1, <3>2, <3>3, <3>4 DEF CopyInv, StoreKeeps, TurnHolds, FarHolds, UploadHolds
  <2> QED
    BY <2>3, <2>4
<1>11. ASSUME NEW d \in Chats, ElsewhereBegins(d) PROVE CopyInv(c)'
  <2>1. /\ UNCHANGED <<kept, doc, saved, deleted, turn, loader>> /\ elsewhere' = [chat |-> d, mem |-> doc[d]]
        /\ crossed' = Crossed(d) /\ Inflight = {} /\ d \in kept
    BY <1>11 DEF ElsewhereBegins, routes
  <2>2. \A t \in Turns : ~RunsIn(t, c) /\ ~RunsIn(t, c)'
    BY <2>1 DEF RunsIn, Inflight, Claims
  <2>3. CASE d # c
    BY <2>1, <2>2, <2>3 DEF CopyInv, StoreKeeps, TurnHolds, FarHolds, UploadHolds
  <2>4. CASE d = c
    <3>1. loader.chat # c /\ saved[c] \subseteq doc[c]
      BY <2>1, <2>4 DEF Crossed, CopyInv, StoreKeeps
    <3> QED
      BY <2>1, <2>2, <2>4, <3>1 DEF CopyInv, StoreKeeps, TurnHolds, FarHolds, UploadHolds
  <2> QED
    BY <2>3, <2>4
<1>12. ASSUME ElsewhereEnds PROVE CopyInv(c)'
  <2> DEFINE d == elsewhere.chat
  <2>1. /\ UNCHANGED <<deleted, turn, loader>> /\ elsewhere' = Nobody /\ Saves(d, elsewhere.mem \cup {Far})
        /\ saved' = [saved EXCEPT ![d] = @ \cup {Far}] /\ crossed' = Crossed(d)
    BY <1>12 DEF ElsewhereEnds, routes
  <2>2. elsewhere'.chat # c
    BY <2>1, <1>p DEF Nobody
  <2>3. CASE d # c
    BY <2>1, <2>2, <2>3, <1>p, Aside DEF StoreAside, TurnsAside, HandsAside, RunsIn, Saves
  <2>4. CASE d = c
    <3>1. c \in kept /\ c \notin deleted /\ saved[c] \subseteq elsewhere.mem
      BY <2>4 DEF CopyInv, FarHolds, StoreKeeps
    <3>2. c \in kept' /\ saved'[c] \subseteq doc'[c]
      BY <2>1, <2>4, <3>1, <1>p DEF Saves
    <3>3. \A t \in Turns : ~RunsIn(t, c)'
      BY <2>1, <2>4 DEF CopyInv, TurnHolds, RunsIn
    <3>4. loader.chat # c
      BY <2>1, <2>4 DEF Crossed
    <3> QED
      BY <2>1, <2>2, <3>1, <3>2, <3>3, <3>4 DEF CopyInv, StoreKeeps, TurnHolds, FarHolds, UploadHolds
  <2> QED
    BY <2>3, <2>4
<1>13. ASSUME NEW d \in Chats, UploadReads(d) PROVE CopyInv(c)'
  <2>1. /\ UNCHANGED <<kept, doc, saved, deleted, turn, elsewhere>> /\ d \in kept
        /\ loader' = [at |-> "read", chat |-> d, mem |-> doc[d]]
        /\ crossed' = IF elsewhere.chat = d THEN crossed \cup {d} ELSE crossed
    BY <1>13 DEF UploadReads
  <2>2. StoreKeeps(c)' /\ TurnHolds(c)' /\ FarHolds(c)'
    BY <2>1 DEF CopyInv, StoreKeeps, TurnHolds, FarHolds, RunsIn
  <2>3. CASE d # c
    BY <2>1, <2>2, <2>3 DEF CopyInv, UploadHolds
  <2>4. CASE d = c
    BY <2>1, <2>2, <2>4 DEF CopyInv, StoreKeeps, UploadHolds
  <2> QED
    BY <2>3, <2>4
<1>14. ASSUME UploadTests PROVE CopyInv(c)'
  <2>1. UNCHANGED <<store, turn, elsewhere>> /\ loader.at = "read"
    BY <1>14 DEF UploadTests
  <2>2. loader' = Rest \/ (loader.chat \notin Inflight /\ loader' = [loader EXCEPT !.at = "save"])
    BY <1>14 DEF UploadTests
  <2>3. StoreKeeps(c)' /\ TurnHolds(c)' /\ FarHolds(c)'
    BY <2>1 DEF CopyInv, StoreKeeps, TurnHolds, FarHolds, RunsIn, store
  <2>4. CASE loader' = Rest
    BY <2>3, <2>4, <1>p DEF CopyInv, UploadHolds, Rest
  <2>5. CASE loader.chat \notin Inflight /\ loader' = [loader EXCEPT !.at = "save"]
    <3>1. loader'.chat = loader.chat /\ loader'.mem = loader.mem /\ loader'.at = "save"
      BY <2>5 DEF ChatInv, ChatTypeOK, Hand
    <3>2. \A t \in Turns : RunsIn(t, c)' = RunsIn(t, c) /\ (RunsIn(t, c) => c \in Inflight)
      BY <2>1 DEF RunsIn, Inflight, Claims
    <3>3. UploadHolds(c)'
      BY <2>1, <2>5, <3>1, <3>2 DEF CopyInv, UploadHolds, store
    <3> QED
      BY <2>3, <3>3 DEF CopyInv
  <2> QED
    BY <2>2, <2>4, <2>5
<1>15. ASSUME UploadSaves PROVE CopyInv(c)'
  <2> DEFINE d == loader.chat
  <2>1. /\ UNCHANGED <<deleted, turn, elsewhere>> /\ loader' = Rest /\ Saves(d, loader.mem \cup {File})
        /\ saved' = [saved EXCEPT ![d] = @ \cup {File}] /\ loader.at = "save"
    BY <1>15 DEF UploadSaves
  <2>2. loader'.chat # c
    BY <2>1, <1>p DEF Rest
  <2>3. CASE d # c
    BY <2>1, <2>2, <2>3, <1>p, Aside DEF StoreAside, TurnsAside, HandsAside, RunsIn, Saves
  <2>4. CASE d = c
    <3>1. /\ c \in kept /\ c \notin deleted /\ saved[c] \subseteq loader.mem /\ elsewhere.chat # c
          /\ \A t \in Turns : ~RunsIn(t, c)
      BY <2>1, <2>4 DEF CopyInv, UploadHolds, StoreKeeps
    <3>2. c \in kept' /\ saved'[c] \subseteq doc'[c]
      BY <2>1, <2>4, <3>1, <1>p DEF Saves
    <3>3. \A t \in Turns : ~RunsIn(t, c)'
      BY <2>1, <3>1 DEF RunsIn
    <3> QED
      BY <2>1, <2>2, <3>1, <3>2, <3>3 DEF CopyInv, StoreKeeps, TurnHolds, FarHolds, UploadHolds
  <2> QED
    BY <2>3, <2>4
<1>16. ASSUME NEW t \in Turns, Consume(t) PROVE CopyInv(c)'
  <2>1. PICK d \in Chats : Starts(t, d, "say")
    BY <1>16, <1>p DEF Consume, Current, Fresh
  <2>2. Inflight = {}
    BY <1>16 DEF Consume
  <2> QED
    BY <2>1, <2>2, <1>6
<1>17. ASSUME NEW t \in Turns, NEW d \in Chats, NEW who \in {"chat", "stream"}, Claim(t, d, who) PROVE CopyInv(c)'
  BY <1>17, <1>6 DEF Claim
<1> QED
  BY <1>1, <1>2, <1>3, <1>4, <1>5, <1>7, <1>8, <1>9, <1>10, <1>11, <1>12, <1>13, <1>14, <1>15, <1>16, <1>17
     DEF ChatNext, Turn, Page, Threads, Place

LEMMA NextLoss == ChatInv /\ OneTurnPerChat /\ LossInv /\ [ChatNext]_chatVars => LossInv'
<1> SUFFICES ASSUME ChatInv, OneTurnPerChat, LossInv, [ChatNext]_chatVars, NEW c \in Chats, c \notin crossed'
             PROVE  CopyInv(c)'
  BY DEF LossInv
<1>1. crossed \subseteq crossed'
  <2>1. \A t \in Turns : Turn(t) => crossed \subseteq crossed'
    BY DEF Turn, store, Crossed, Consume, Starts, Speak, MidTurnSay, Ask, PromptReads, PromptDenies, Interrupt,
       ClientGoes, Ends, Cut, Over, Closes, Releases
  <2>2. \A t \in Turns, d \in Chats, who \in {"chat", "stream"} : Claim(t, d, who) => crossed \subseteq crossed'
    BY DEF Claim, Starts, Crossed
  <2>3. Page => crossed \subseteq crossed'
    BY DEF Page, store, Crossed, SayTest, SayWrite, Requeue, Switch, Rename, Delete
  <2>4. Threads => crossed \subseteq crossed'
    BY DEF Threads, store, LookReads, LookLoads, LookHeals, Makes, MakerTests, MakerWrites, UploadReads,
       UploadTests, UploadSaves
  <2>5. (\E d \in Chats : ElsewhereBegins(d)) \/ ElsewhereEnds => crossed \subseteq crossed'
    BY DEF ElsewhereBegins, ElsewhereEnds, Crossed
  <2>6. UNCHANGED chatVars => crossed \subseteq crossed'
    BY DEF chatVars, store
  <2> QED
    BY <2>1, <2>2, <2>3, <2>4, <2>5, <2>6 DEF ChatNext
<1> QED
  BY <1>1, NextCopy DEF LossInv

(* What was saved in a chat is in its document for as long as the chat is kept, and a deleted
   chat does not come back (server/app.py:920-926, 1450-1453), for any number of chats, turns
   and messages, and with every client, process and thread at work at once.                  *)
THEOREM NothingSavedIsLostAlways == ChatSpec => []NothingSavedIsLost
<1>1. ASSUME ChatInit PROVE LossInv
  <2>1. \A t \in Turns : turn[t].at = "none"
    BY <1>1 DEF ChatInit, NoTurn
  <2>2. /\ \A c \in Chats : saved[c] = {} /\ c \notin deleted
        /\ elsewhere.chat = Absent /\ loader.chat = Absent
    BY <1>1 DEF ChatInit, Nobody, Rest
  <2> QED
    BY <2>1, <2>2, ChatAssumption DEF LossInv, CopyInv, StoreKeeps, TurnHolds, FarHolds, UploadHolds, RunsIn
<1>2. LossInv => NothingSavedIsLost
  BY DEF LossInv, CopyInv, StoreKeeps, NothingSavedIsLost
<1> QED
  BY <1>1, <1>2, InitChat, NextChat, NextOneTurn, NextLoss, OneTurnPerChatAlways, PTL DEF ChatSpec

-----------------------------------------------------------------------------
(* Where the turns are the say consumer's and one page has the workspace open. *)
Quiet == conf \cap {"drivers", "pages"} = {}

(* Only a message that was sent is read; and the marker names a saved chat, which a turn, the
   message being queued and the one in the slot are all of: it changes only beside none of
   them.                                                                                    *)
ReadWasSent == \A s \in Says : ran[s] # Absent => s \in 1..sent

AtMarker == /\ marker \in kept /\ looker = Rest /\ maker = Rest
            /\ \A t \in Turns : turn[t].at \in Claims => turn[t].chat = marker
            /\ lock \in {"free", Absent, marker}

SlotAtMarker == slot # 0 /\ slot \notin late => addr[slot] \in {Absent, marker}

ReadAtAddress == \A s \in Says \ late : ran[s] # Absent /\ addr[s] # Absent => ran[s] = addr[s]

AddressInv == ReadWasSent /\ (Quiet => AtMarker /\ SlotAtMarker /\ ReadAtAddress)

(* A message in the slot was sent. *)
LEMMA SlotSent == ASSUME ChatInv PROVE slot # 0 => slot \in Says /\ slot \in 1..sent
<1>1. slot \in 0..sent /\ sent \in 0..MaxSay
  BY DEF ChatInv, ChatTypeOK
<1> QED
  BY <1>1, SizeAssumption DEF Says

(* What a step does to the slot and its histories: nothing; a message comes; what was in the
   slot is read in a turn; or a prompt takes or puts back a message.                         *)
LEMMA SlotMoves ==
  ASSUME ChatInv, ChatNext
  PROVE  \/ UNCHANGED <<slot, sent, addr, ran, late>>
         \/ SayWrite
         \/ \E t \in Turns : Consume(t)
         \/ \E t \in Turns :
              /\ turn[t].at \in Claims /\ slot # 0 /\ slot' = 0 /\ ran' = [ran EXCEPT ![slot] = turn[t].chat]
              /\ UNCHANGED <<sent, addr, late>>
         \/ slot' = 0 /\ UNCHANGED <<sent, addr, ran, late>>
         \/ \E s \in Says : Requeue(s)
<1>1. ASSUME NEW t \in Turns, MidTurnSay(t) PROVE
              /\ turn[t].at \in Claims /\ slot # 0 /\ slot' = 0 /\ ran' = [ran EXCEPT ![slot] = turn[t].chat]
              /\ UNCHANGED <<sent, addr, late>>
  BY <1>1 DEF MidTurnSay, Claims
<1>2. ASSUME NEW t \in Turns, PromptReads(t) PROVE
              \/ /\ turn[t].at \in Claims /\ slot # 0 /\ slot' = 0 /\ ran' = [ran EXCEPT ![slot] = turn[t].chat]
                 /\ UNCHANGED <<sent, addr, late>>
              \/ slot' = 0 /\ UNCHANGED <<sent, addr, ran, late>>
  BY <1>2 DEF PromptReads, Claims
<1>3. ASSUME NEW t \in Turns, Turn(t) PROVE Consume(t) \/ MidTurnSay(t) \/ PromptReads(t) \/ UNCHANGED box
  BY <1>3 DEF Turn, Speak, Ask, PromptDenies, Interrupt, ClientGoes, Ends, Cut, Over, Closes, Releases
<1>4. ASSUME NEW t \in Turns, NEW c \in Chats, NEW who \in {"chat", "stream"}, Claim(t, c, who) PROVE UNCHANGED box
  BY <1>4 DEF Claim
<1>5. Page => SayWrite \/ (\E s \in Says : Requeue(s)) \/ UNCHANGED <<slot, sent, addr, ran, late>>
  BY DEF Page, SayTest, Switch, Rename, Delete, box
<1>6. Threads => UNCHANGED box
  BY DEF Threads, LookReads, LookLoads, LookHeals, Makes, MakerTests, MakerWrites, UploadReads, UploadTests,
     UploadSaves
<1>7. (\E c \in Chats : ElsewhereBegins(c)) \/ ElsewhereEnds => UNCHANGED box
  BY DEF ElsewhereBegins, ElsewhereEnds
<1> QED
  BY <1>1, <1>2, <1>3, <1>4, <1>5, <1>6, <1>7 DEF ChatNext, box

LEMMA NextReadWasSent == ChatInv /\ ReadWasSent /\ [ChatNext]_chatVars => ReadWasSent'
<1> SUFFICES ASSUME ChatInv, ReadWasSent, [ChatNext]_chatVars PROVE ReadWasSent'
  OBVIOUS
<1>p. ran \in [Says -> Place] /\ sent \in Nat
  <2>1. ran \in [Says -> Place] /\ sent \in 0..MaxSay
    BY DEF ChatInv, ChatTypeOK
  <2> QED
    BY <2>1, SizeAssumption
<1>1. CASE UNCHANGED <<slot, sent, addr, ran, late>> \/ (slot' = 0 /\ UNCHANGED <<sent, addr, ran, late>>)
  BY <1>1 DEF ReadWasSent
<1>2. CASE SayWrite
  <2>1. sent' \in {sent, sent + 1} /\ ran' = ran
    BY <1>2 DEF SayWrite
  <2> QED
    BY <2>1, <1>p DEF ReadWasSent
<1>3. CASE \E t \in Turns : Consume(t)
  <2>1. sent' = sent /\ (slot = 0 => ran' = ran) /\ \E c : slot # 0 => ran' = [ran EXCEPT ![slot] = c]
    BY <1>3 DEF Consume
  <2> QED
    BY <2>1, SlotSent, <1>p DEF ReadWasSent
<1>4. ASSUME NEW t \in Turns, slot # 0, ran' = [ran EXCEPT ![slot] = turn[t].chat], sent' = sent PROVE ReadWasSent'
  BY <1>4, SlotSent, <1>p DEF ReadWasSent
<1>5. CASE \E s \in Says : Requeue(s)
  BY <1>5 DEF ReadWasSent, Requeue
<1>6. CASE UNCHANGED chatVars
  BY <1>6 DEF ReadWasSent, chatVars, box
<1> QED
  BY <1>1, <1>2, <1>3, <1>4, <1>5, <1>6, SlotMoves

LEMMA NextAtMarker ==
  ASSUME ChatInv, Quiet, AtMarker, SlotAtMarker, [ChatNext]_chatVars
  PROVE  AtMarker' /\ (slot # 0 => marker' = marker)
<1>p. /\ turn \in [Turns -> TurnRec] /\ kept \subseteq Chats /\ Absent \notin Chats
      /\ "drivers" \notin conf /\ "pages" \notin conf /\ Rest.at = "rest"
  BY ChatAssumption DEF ChatInv, ChatTypeOK, Quiet, Rest
<1> DEFINE Goal == AtMarker' /\ (slot # 0 => marker' = marker)
<1>0. ASSUME marker' = marker, marker \in kept', UNCHANGED <<lock, looker, maker>>, KeepsClaims PROVE Goal
  BY <1>0 DEF AtMarker, KeepsClaims
<1>1. CASE UNCHANGED chatVars
  BY <1>0, <1>1 DEF chatVars, store, box, routes, AtMarker, KeepsClaims
<1>2. ASSUME NEW c \in Place, SayTest(c) PROVE Goal
  BY <1>2 DEF SayTest, AtMarker, store, routes
<1>3. CASE SayWrite
  BY <1>3 DEF SayWrite, AtMarker, store, routes
<1>4. ASSUME NEW s \in Says, Requeue(s) PROVE Goal
  BY <1>4, <1>0 DEF Requeue, AtMarker, store, routes, KeepsClaims
<1>5. ASSUME NEW c \in Chats, Switch(c) PROVE Goal
  <2>1. lock = "free" /\ Inflight = {} /\ slot = 0 /\ marker' = c /\ c \in kept'
    BY <1>5 DEF Switch, MaySwitch, Saves
  <2>2. UNCHANGED <<lock, looker, maker, turn>>
    BY <1>5 DEF Switch, box, routes
  <2>3. \A u \in Turns : turn'[u].at \notin Claims
    BY <2>1, <2>2 DEF Inflight
  <2> QED
    BY <2>1, <2>2, <2>3 DEF AtMarker
<1>6. ASSUME NEW c \in Chats, Rename(c) PROVE Goal
  BY <1>6, <1>0 DEF Rename, AtMarker, Saves, box, routes, KeepsClaims
<1>7. ASSUME NEW c \in Chats, Delete(c) PROVE Goal
  <2>1. UNCHANGED <<lock, looker, maker, turn, slot>>
    BY <1>7 DEF Delete, box, routes
  <2>2. CASE c = marker
    <3>1. lock = "free" /\ Inflight = {} /\ slot = 0 /\ \E f \in Fresh : marker' = f /\ kept' = (kept \cup {f}) \ {c}
      BY <1>7, <2>2 DEF Delete, MaySwitch
    <3>2. marker' \in kept'
      BY <1>7, <3>1 DEF Delete, Fresh
    <3>3. \A u \in Turns : turn'[u].at \notin Claims
      BY <2>1, <3>1 DEF Inflight
    <3> QED
      BY <2>1, <3>1, <3>2, <3>3 DEF AtMarker
  <2>3. CASE c # marker
    BY <1>7, <2>1, <2>3, <1>0 DEF Delete, AtMarker, KeepsClaims
  <2> QED
    BY <2>2, <2>3
<1>8. ASSUME NEW t \in Turns, Consume(t) PROVE Goal
  <2>1. PICK c \in {Current} : Starts(t, c, "say") /\ marker' = c
    BY <1>8, <1>p DEF Consume, Current, AtMarker
  <2>2. c = marker /\ marker \in kept' /\ UNCHANGED <<lock, looker, maker>>
    BY <1>8, <2>1 DEF Consume, Starts, Current, AtMarker, Saves, routes
  <2>3. turn'[t].chat = marker /\ \A u \in Turns : u # t => turn'[u] = turn[u]
    BY <2>1, <2>2, <1>p DEF Starts, NoTurn
  <2> QED
    BY <2>1, <2>2, <2>3 DEF AtMarker
<1>9. ASSUME NEW t \in Turns, NEW c \in Chats, NEW who \in {"chat", "stream"}, Claim(t, c, who) PROVE FALSE
  BY <1>9, <1>p DEF Claim
<1>10. ASSUME NEW t \in Turns, Turn(t), ~Consume(t) PROVE Goal
  <2>1. UNCHANGED <<marker, lock, looker, maker>>
    BY <1>10 DEF Turn, Speak, MidTurnSay, Ask, PromptReads, PromptDenies, Interrupt, ClientGoes, Ends,
       Cut, Over, Closes, Releases, box, routes
  <2>2. marker \in kept'
    BY <1>10 DEF Turn, Speak, MidTurnSay, Ask, PromptReads, PromptDenies, Interrupt, ClientGoes, Ends,
       Cut, Over, Closes, Releases, Saves, store, AtMarker
  <2>3. KeepsClaims
    BY <1>10, Claimed
  <2> QED
    BY <2>1, <2>2, <2>3, <1>0
<1>11. CASE Threads
  <2>1. CASE LookReads \/ LookLoads \/ LookHeals \/ (\E c \in Chats : Makes(c)) \/ MakerTests \/ MakerWrites
    BY <2>1, <1>p DEF LookReads, LookLoads, LookHeals, Makes, MakerTests, MakerWrites, AtMarker
  <2>2. CASE (\E c \in Chats : UploadReads(c)) \/ UploadTests \/ UploadSaves
    BY <2>2, <1>0 DEF UploadReads, UploadTests, UploadSaves, Saves, AtMarker, store, box, KeepsClaims
  <2> QED
    BY <1>11, <2>1, <2>2 DEF Threads
<1>12. CASE (\E c \in Chats : ElsewhereBegins(c)) \/ ElsewhereEnds
  BY <1>12, <1>0 DEF ElsewhereBegins, ElsewhereEnds, Saves, AtMarker, box, routes, KeepsClaims
<1> QED
  BY <1>1, <1>2, <1>3, <1>4, <1>5, <1>6, <1>7, <1>8, <1>9, <1>10, <1>11, <1>12 DEF ChatNext, Page, Place

LEMMA NextAddress ==
  ASSUME ChatInv, ReadWasSent, Quiet, AtMarker, SlotAtMarker, ReadAtAddress, [ChatNext]_chatVars
  PROVE  SlotAtMarker' /\ ReadAtAddress'
<1> DEFINE Goal == SlotAtMarker' /\ ReadAtAddress'
<1>p. /\ addr \in [Says -> Place] /\ ran \in [Says -> Place] /\ slot \in 0..sent /\ sent \in 0..MaxSay
      /\ PlaceInv /\ MaxSay \in Nat /\ Absent \notin Chats /\ kept \subseteq Chats
  BY SizeAssumption, ChatAssumption DEF ChatInv, ChatTypeOK
<1>m. AtMarker' /\ (slot # 0 => marker' = marker)
  BY NextAtMarker
<1>1. ASSUME UNCHANGED <<slot, sent, addr, ran, late>> PROVE Goal
  BY <1>1, <1>m DEF SlotAtMarker, ReadAtAddress
<1>2. CASE slot' = 0 /\ UNCHANGED <<sent, addr, ran, late>>
  BY <1>2 DEF SlotAtMarker, ReadAtAddress
<1>3. CASE SayWrite
  <2>1. UNCHANGED <<marker, ran, late>>
    BY <1>3 DEF SayWrite, store
  <2>2. CASE slot = 0
    <3>1. slot' = sent + 1 /\ addr' = [addr EXCEPT ![sent + 1] = lock] /\ lock # "free" /\ sent + 1 \in Says
      BY <1>3, <2>2, <1>p DEF SayWrite, PlaceInv, Says
    <3>2. ran[sent + 1] = Absent
      BY <3>1, <1>p DEF ReadWasSent
    <3>3. addr'[sent + 1] \in {Absent, marker} /\ \A s \in Says : s # sent + 1 => addr'[s] = addr[s]
      BY <3>1, <1>p DEF AtMarker
    <3> QED
      BY <2>1, <3>1, <3>2, <3>3 DEF SlotAtMarker, ReadAtAddress
  <2>3. CASE slot # 0
    BY <1>1, <1>3, <2>1, <2>3 DEF SayWrite
  <2> QED
    BY <2>2, <2>3
<1>4. ASSUME slot # 0, slot' = 0, ran' = [ran EXCEPT ![slot] = marker], UNCHANGED <<sent, addr, late>> PROVE Goal
  <2>1. slot \in Says /\ (slot \notin late => addr[slot] \in {Absent, marker})
    BY <1>4, SlotSent DEF SlotAtMarker
  <2>2. ran'[slot] = marker /\ \A s \in Says : s # slot => ran'[s] = ran[s]
    BY <2>1, <1>4, <1>p
  <2> QED
    BY <2>1, <2>2, <1>4 DEF SlotAtMarker, ReadAtAddress
<1>5. ASSUME NEW t \in Turns, turn[t].at \in Claims, slot # 0, slot' = 0, ran' = [ran EXCEPT ![slot] = turn[t].chat],
             UNCHANGED <<sent, addr, late>>
      PROVE  Goal
  BY <1>4, <1>5 DEF AtMarker
<1>6. ASSUME NEW t \in Turns, Consume(t) PROVE Goal
  <2>1. /\ slot' = 0 /\ UNCHANGED <<sent, addr, late>>
        /\ ran' = IF slot = 0 THEN ran ELSE [ran EXCEPT ![slot] = marker]
    <3>1. Current = marker /\ Current # Absent
      BY <1>p DEF Current, AtMarker
    <3> QED
      BY <1>6, <3>1 DEF Consume
  <2> QED
    BY <2>1, <1>2, <1>4
<1>7. ASSUME NEW s \in Says, Requeue(s) PROVE Goal
  <2>1. /\ UNCHANGED <<marker, addr, ran>> /\ late' = late \cup {s}
        /\ slot' = IF slot = 0 THEN s ELSE slot
    BY <1>7 DEF Requeue, store
  <2> QED
    BY <2>1 DEF SlotAtMarker, ReadAtAddress
<1>8. CASE UNCHANGED chatVars
  BY <1>1, <1>8 DEF chatVars, box
<1> QED
  BY <1>1, <1>2, <1>3, <1>5, <1>6, <1>7, <1>8, SlotMoves

(* A message that names a chat is read in that chat's turn and in no other (docs/DECISIONS.md,
   ADR-0320), through switches, deletions and renames beside the thread that queues it, for any
   number of chats, turns and messages; where the turns are the say consumer's, no second page
   opens the workspace, and no prompt held the message.                                        *)
THEOREM SayRunsInItsChatAlways == ChatSpec => []SayRunsInItsChat
<1>1. ASSUME ChatInit PROVE AddressInv
  <2>1. \A t \in Turns : turn[t].at = "none"
    BY <1>1 DEF ChatInit, NoTurn
  <2>2. /\ \A s \in Says : ran[s] = Absent
        /\ marker = First /\ kept = Known /\ slot = 0 /\ lock = "free" /\ looker = Rest /\ maker = Rest
    BY <1>1 DEF ChatInit
  <2> QED
    BY <2>1, <2>2, ChatAssumption DEF AddressInv, ReadWasSent, AtMarker, SlotAtMarker, ReadAtAddress, Claims
<1>2. ASSUME ChatInv, AddressInv, [ChatNext]_chatVars PROVE AddressInv'
  <2>1. Quiet' = Quiet
    BY <1>2, ConfStays DEF Quiet
  <2> QED
    BY <2>1, <1>2, NextReadWasSent, NextAtMarker, NextAddress DEF AddressInv
<1>3. AddressInv => SayRunsInItsChat
  BY DEF AddressInv, ReadAtAddress, Quiet, SayRunsInItsChat
<1> QED
  BY <1>1, <1>2, <1>3, InitChat, NextChat, PTL DEF ChatSpec

-----------------------------------------------------------------------------
(* A turn that is stopped, or whose client is gone. *)
IsCut(t) == turn[t].stop \/ turn[t].gone

(* Such a turn has its claim, and one that will not give it back is behind an egress proxy. *)
CutPlace(t) == /\ IsCut(t) => turn[t].at \in Claims
               /\ turn[t].at = "stuck" => "egress" \in conf /\ turn[t].gone
CutPlaces == \A t \in Turns : CutPlace(t)

(* A cut stands until the claim is given back, and a turn that is over goes no way but that. *)
CutGoesOn(t) ==
  /\ IsCut(t) => IsCut(t)' \/ turn'[t].at = "done"
  /\ turn[t].at = "over" => turn'[t].at \in {"over", "stuck", "done"}
  /\ turn[t].at = "done" => turn'[t].at = "done"

CutStands == [][\A t \in Turns : CutGoesOn(t)]_chatVars

LEMMA CutStep ==
  ASSUME ChatInv, CutPlaces, ChatNext, NEW u \in Turns
  PROVE  CutGoesOn(u) /\ CutPlace(u)'
<1> DEFINE Goal == CutGoesOn(u) /\ CutPlace(u)'
<1>p. turn \in [Turns -> TurnRec] /\ conf' = conf /\ CutPlace(u)
  BY ConfStays DEF ChatInv, ChatTypeOK, CutPlaces
<1> USE DEF CutGoesOn, CutPlace, IsCut
<1>0. turn'[u] = turn[u] => Goal
  BY <1>p
<1>1. ASSUME NEW t \in Turns, NEW c \in Chats, NEW who \in {"say", "chat", "stream"}, Starts(t, c, who)
      PROVE  Goal
  <2>1. turn[t].at = "none"
        /\ turn' = [turn EXCEPT ![t] = [NoTurn EXCEPT !.at = "run", !.chat = c, !.by = who, !.mem = doc[c]]]
    BY <1>1 DEF Starts
  <2>2. CASE u = t
    BY <2>1, <2>2, <1>p DEF NoTurn, Claims
  <2> QED
    BY <2>1, <2>2, <1>0, <1>p
<1>2. ASSUME NEW t \in Turns, Speak(t) \/ Ask(t) \/ PromptReads(t) \/ PromptDenies(t) PROVE Goal
  <2>1. \/ turn' = [turn EXCEPT ![t].mem = @ \cup {t}] /\ turn[t].at = "run"
        \/ turn' = [turn EXCEPT ![t].at = "ask"] /\ turn[t].at = "run"
        \/ turn' = [turn EXCEPT ![t].at = "run", ![t].held = {}] /\ turn[t].at = "ask"
        \/ turn' = [turn EXCEPT ![t].held = @ \cup {slot}] /\ turn[t].at = "ask"
    BY <1>2 DEF Speak, Ask, PromptReads, PromptDenies
  <2>2. /\ turn'[u].stop = turn[u].stop /\ turn'[u].gone = turn[u].gone
        /\ turn'[u].at = turn[u].at \/ (turn[u].at \in {"run", "ask"} /\ turn'[u].at \in {"run", "ask"})
    <3> DEFINE Small == /\ turn'[u].stop = turn[u].stop /\ turn'[u].gone = turn[u].gone
                        /\ turn'[u].at = turn[u].at \/ (turn[u].at \in {"run", "ask"} /\ turn'[u].at \in {"run", "ask"})
    <3>0. turn \in [Turns -> TurnRec]
      BY <1>p
    <3>1. ASSUME NEW m, turn' = [turn EXCEPT ![t].mem = m] PROVE Small
      BY <3>0, <3>1 DEF TurnRec
    <3>2. turn' = [turn EXCEPT ![t].at = "ask"] /\ turn[t].at = "run" => Small
      BY <3>0 DEF TurnRec
    <3>3. ASSUME NEW m, turn' = [turn EXCEPT ![t].at = "run", ![t].held = m], turn[t].at = "ask" PROVE Small
      BY <3>0, <3>3 DEF TurnRec
    <3>4. ASSUME NEW m, turn' = [turn EXCEPT ![t].held = m] PROVE Small
      BY <3>0, <3>4 DEF TurnRec
    <3> QED
      BY <2>1, <3>1, <3>2, <3>3, <3>4
  <2> QED
    BY <2>2, <1>p DEF Claims
<1>3. ASSUME NEW t \in Turns, Interrupt(t) \/ ClientGoes(t) PROVE Goal
  <2>1. /\ turn[t].at \in {"run", "ask", "over"}
        /\ turn' = [turn EXCEPT ![t].stop = TRUE] \/ turn' = [turn EXCEPT ![t].gone = TRUE]
    BY <1>3 DEF Interrupt, ClientGoes
  <2>2. turn[t].at \in Claims
    BY <2>1 DEF Claims
  <2>3. CASE u = t /\ turn' = [turn EXCEPT ![t].stop = TRUE]
    <3>1. turn'[u].at = turn[u].at /\ turn'[u].stop /\ turn'[u].gone = turn[u].gone
      BY <2>3, <1>p DEF TurnRec
    <3> QED
      BY <3>1, <2>1, <2>2, <2>3, <1>p
  <2>4. CASE u = t /\ turn' = [turn EXCEPT ![t].gone = TRUE]
    <3>1. turn'[u].at = turn[u].at /\ turn'[u].gone /\ turn[t].at # "stuck"
      BY <2>1, <2>4, <1>p DEF TurnRec
    <3> QED
      BY <3>1, <2>1, <2>2, <2>4, <1>p
  <2>5. CASE u # t
    BY <2>1, <2>5, <1>0, <1>p
  <2> QED
    BY <2>1, <2>3, <2>4, <2>5
<1>4. ASSUME NEW t \in Turns, Ends(t) \/ Cut(t) PROVE Goal
  <2>1. turn[t].at \in {"run", "ask"} /\ turn' = [turn EXCEPT ![t].at = "over", ![t].held = {}]
    BY <1>4 DEF Ends, Cut, Over, Closes
  <2> QED
    BY <2>1, <1>p DEF TurnRec, Claims
<1>5. ASSUME NEW t \in Turns, Releases(t) PROVE Goal
  <2>1. CASE turn' = [turn EXCEPT ![t] = [NoTurn EXCEPT !.at = "done"]]
    BY <2>1, <1>5, <1>p DEF NoTurn, Claims, Releases
  <2>2. CASE turn' = [turn EXCEPT ![t].at = "stuck"] /\ "egress" \in conf /\ turn[t].gone
    BY <2>2, <1>5, <1>p DEF Releases, TurnRec, Claims
  <2> QED
    BY <2>1, <2>2, <1>5 DEF Releases
<1>6. (\E t \in Turns : MidTurnSay(t)) \/ Page \/ Threads \/ (\E c \in Chats : ElsewhereBegins(c)) \/ ElsewhereEnds
      => turn' = turn
  BY DEF MidTurnSay, Page, Threads, SayTest, SayWrite, Requeue, Switch, Rename, Delete, LookReads, LookLoads,
     LookHeals, Makes, MakerTests, MakerWrites, UploadReads, UploadTests, UploadSaves, ElsewhereBegins, ElsewhereEnds
<1>7. ASSUME NEW t \in Turns, Consume(t) PROVE Goal
  <2>1. PICK c \in Chats : Starts(t, c, "say")
    BY <1>7, Parts DEF Consume, Current, StoreOK, Fresh
  <2> QED
    BY <2>1, <1>1
<1>8. ASSUME NEW t \in Turns, NEW c \in Chats, NEW who \in {"chat", "stream"}, Claim(t, c, who) PROVE Goal
  BY <1>8, <1>1 DEF Claim
<1> HIDE DEF CutGoesOn, CutPlace, IsCut, Goal
<1>9. Goal
  BY <1>0, <1>2, <1>3, <1>4, <1>5, <1>6, <1>7, <1>8 DEF ChatNext, Turn
<1> QED
  BY <1>9 DEF Goal

(* A turn that is stopped, or whose client goes, stays so until its chat is given back, is never
   back at work once it is over, and keeps its chat for good only behind an egress proxy, its
   client gone (server/app.py:1747-1759): the safety of CutGivesBack.                          *)
THEOREM CutStandsAlways == ChatSpec => []CutPlaces /\ CutStands
<1>1. ASSUME ChatInit PROVE CutPlaces
  BY <1>1 DEF ChatInit, NoTurn, CutPlaces, CutPlace, IsCut
<1>2. ChatInv /\ CutPlaces /\ [ChatNext]_chatVars => CutPlaces'
  <2>1. ASSUME UNCHANGED chatVars, CutPlaces PROVE CutPlaces'
    BY <2>1 DEF chatVars, CutPlaces, CutPlace, IsCut
  <2> QED
    BY <2>1, CutStep DEF CutPlaces
<1>3. ChatInv /\ CutPlaces /\ [ChatNext]_chatVars => [\A t \in Turns : CutGoesOn(t)]_chatVars
  BY CutStep
<1> QED
  BY <1>1, <1>2, <1>3, InitChat, NextChat, PTL DEF ChatSpec, CutStands

-----------------------------------------------------------------------------
USE BoundAssumption, FileAssumption

LEMMA LedgerType ==
  /\ Blank \in Ledger /\ [Blank EXCEPT !.armed = TRUE] \in Ledger
  /\ \A g \in Ledger : [g EXCEPT !.soft = TRUE] \in Ledger
  /\ \A g \in Ledger, cost \in Money : [g EXCEPT !.counted = @ + cost] \in Ledger
  /\ \A g \in Ledger : Spent(g) \in Nat
<1>1. Blank \in Ledger
  BY DEF Blank, Ledger
<1>2. [Blank EXCEPT !.armed = TRUE] \in Ledger
  BY DEF Blank, Ledger
<1>3. \A g \in Ledger : [g EXCEPT !.soft = TRUE] \in Ledger
  BY DEF Ledger
<1>4. ASSUME NEW g \in Ledger, NEW cost \in Money PROVE [g EXCEPT !.counted = @ + cost] \in Ledger
  <2>1. g.counted + cost \in Nat
    BY DEF Ledger, Money
  <2> QED
    BY <2>1 DEF Ledger
<1>5. ASSUME NEW g \in Ledger PROVE Spent(g) \in Nat
  BY DEF Spent, Ledger
<1> QED
  BY <1>1, <1>2, <1>3, <1>4, <1>5

LEMMA InitType == Init => TypeOK
<1> SUFFICES ASSUME Init PROVE TypeOK
  OBVIOUS
<1>1. gate \in Ledger /\ gate.reserve <= gate.cap
  BY LedgerType DEF Init, Blank
<1>2. up \in BOOLEAN /\ failed \in BOOLEAN /\ untrusted \in BOOLEAN
  BY DEF Init
<1>5. sound \in BOOLEAN
  BY DEF Init
<1>3. /\ at \in {Free, Saving, Rebased, Due, Marked, Firing} /\ disk \in Ledger \cup {None, Bad}
      /\ call \in [Calls -> {"idle", "sent", "counted"}] /\ atCap \subseteq Calls
  BY DEF Init
<1>4. crashes \in 0..MaxCrash /\ fired \in Nat
  BY DEF Init
<1> QED
  BY <1>1, <1>2, <1>3, <1>4, <1>5 DEF TypeOK

(* A ledger on disk also keeps its reserve within its cap. *)
DiskSound == disk \in Ledger => disk.reserve <= disk.cap

TypeInv == TypeOK /\ DiskSound

(* Every step keeps the types, and a reserve within its cap. *)
LEMMA NextType == TypeInv /\ [Next]_vars => TypeInv'
<1> SUFFICES ASSUME TypeInv, [Next]_vars PROVE TypeInv'
  OBVIOUS
<1> USE LedgerType DEF TypeInv, TypeOK, DiskSound, mem, hist, vars, Free, Saving, Rebased, Due, Marked, Firing
<1>1. ASSUME NEW c \in Money, NEW r \in Money, NEW f \in Money, Push(c, r, f) PROVE TypeInv'
  <2>1. Pushed(c, r, f) \in Ledger /\ Pushed(c, r, f).reserve <= Pushed(c, r, f).cap
    BY <1>1 DEF Push, Pushed, Ledger, Money
  <2>2. atCap' \subseteq Calls
    BY <1>1 DEF Push, NoteCap
  <2> QED
    BY <1>1, <2>1, <2>2 DEF Push
<1>2. ASSUME NEW k \in Calls, Admit(k) PROVE TypeInv'
  BY <1>2 DEF Admit
<1>3. ASSUME NEW k \in Calls, Uncharged(k) PROVE TypeInv'
  BY <1>3 DEF Uncharged
<1>4. ASSUME NEW k \in Calls, NEW cost \in Money, Charge(k, cost) PROVE TypeInv'
  <2>1. gate' \in Ledger /\ gate'.reserve <= gate'.cap
    <3>1. [gate EXCEPT !.counted = @ + cost].reserve = gate.reserve /\ [gate EXCEPT !.counted = @ + cost].cap = gate.cap
      BY DEF Ledger
    <3>2. gate' = gate \/ gate' = [gate EXCEPT !.counted = @ + cost]
      BY <1>4 DEF Charge
    <3> QED
      BY <3>1, <3>2
  <2>2. atCap' \subseteq Calls
    BY <1>4 DEF Charge, NoteCap
  <2> QED
    BY <1>4, <2>1, <2>2 DEF Charge
<1>5. CASE Save
  BY <1>5 DEF Save, Written
<1>6. CASE SoftDue
  <2>1. [gate EXCEPT !.soft = TRUE].reserve = gate.reserve /\ [gate EXCEPT !.soft = TRUE].cap = gate.cap
    BY DEF Ledger
  <2>2. gate' = gate \/ gate' = [gate EXCEPT !.soft = TRUE]
    BY <1>6 DEF SoftDue
  <2>3. gate' \in Ledger /\ gate'.reserve <= gate'.cap
    BY <2>1, <2>2
  <2> QED
    BY <1>6, <2>3 DEF SoftDue
<1>7. CASE SaveMark
  BY <1>7 DEF SaveMark, Written
<1>8. CASE Fire
  BY <1>8 DEF Fire
<1>9. CASE Crash
  <2>1. Blank.reserve <= Blank.cap
    BY DEF Blank
  <2>2. gate' \in Ledger /\ gate'.reserve <= gate'.cap
    BY <1>9, <2>1 DEF Crash
  <2>3. crashes' \in 0..MaxCrash /\ call' \in [Calls -> {"idle", "sent", "counted"}]
    BY <1>9 DEF Crash
  <2>4. UNCHANGED <<disk, sound, fired, untrusted>> /\ up' = FALSE /\ failed' = FALSE /\ atCap' = {} /\ at' = Free
    BY <1>9 DEF Crash
  <2>5. up' \in BOOLEAN /\ failed' \in BOOLEAN /\ untrusted' \in BOOLEAN
    BY <2>4
  <2> QED
    BY <2>2, <2>3, <2>4, <2>5
<1>10. CASE Corrupt
  BY <1>10 DEF Corrupt
<1>11. CASE Boot
  <2>1. Loaded(disk) \in Ledger /\ Loaded(disk).reserve <= Loaded(disk).cap
    BY DEF Loaded, Blank
  <2> QED
    BY <1>11, <2>1 DEF Boot
<1>12. CASE UNCHANGED vars
  BY <1>12
<1> QED
  BY <1>1, <1>2, <1>3, <1>4, <1>5, <1>6, <1>7, <1>8, <1>9, <1>10, <1>11, <1>12 DEF Next

(* The types, and a reserve never above its cap, hold whatever the disk does. *)
THEOREM TypeCorrect == Spec => []TypeOK
<1>1. Init => TypeInv
  BY InitType DEF Init, TypeInv, DiskSound
<1>2. TypeInv => TypeOK
  BY DEF TypeInv
<1> QED
  BY <1>1, <1>2, NextType, PTL DEF Spec

-----------------------------------------------------------------------------
(* A process that is down, and one that found its ledger spoilt, has no call in flight. *)
QuietInv == /\ ~up => InFlight = {}
            /\ up /\ untrusted => failed /\ gate.armed /\ InFlight = {}

OvershootInv == TypeInv /\ QuietInv /\ OvershootBounded

LEMMA NextOvershoot == OvershootInv /\ [Next]_vars => OvershootInv'
<1> SUFFICES ASSUME OvershootInv, [Next]_vars PROVE OvershootInv'
  OBVIOUS
<1>0. TypeInv /\ TypeInv'
  BY NextType DEF OvershootInv
<1> DEFINE Left == QuietInv /\ OvershootBounded
<1> SUFFICES Left'
  BY <1>0 DEF OvershootInv
<1>t. call \in [Calls -> {"idle", "sent", "counted"}] /\ gate \in Ledger /\ Spent(gate) \in Nat
  BY <1>0, LedgerType DEF TypeInv, TypeOK
<1> USE DEF OvershootInv, QuietInv, OvershootBounded, InFlight, mem, hist, vars
<1>1. ASSUME NEW c \in Money, NEW r \in Money, NEW f \in Money, Push(c, r, f) PROVE Left'
  BY <1>1 DEF Push, NoteCap
<1>2. ASSUME NEW k \in Calls, Admit(k) PROVE Left'
  <2>1. Reached(gate) => ~Admits
    BY <1>t DEF Reached, Admits, Ledger
  <2> QED
    BY <1>2, <2>1 DEF Admit, Admits
<1>3. ASSUME NEW k \in Calls, Uncharged(k) PROVE Left'
  BY <1>3, <1>t DEF Uncharged
<1>4. ASSUME NEW k \in Calls, NEW cost \in Money, Charge(k, cost) PROVE Left'
  <2>1. {j \in Calls : call'[j] = "sent"} \subseteq {j \in Calls : call[j] = "sent"}
    BY <1>4, <1>t DEF Charge
  <2> QED
    BY <1>4, <2>1 DEF Charge, NoteCap
<1>5. CASE Save
  BY <1>5, <1>t DEF Save
<1>6. CASE SoftDue
  <2>1. Reached(gate') <=> Reached(gate)
    BY <1>6, <1>t DEF SoftDue, Reached, Spent, Ledger
  <2>2. gate'.armed = gate.armed
    BY <1>6, <1>t DEF SoftDue, Ledger
  <2> QED
    BY <1>6, <2>1, <2>2 DEF SoftDue
<1>7. CASE SaveMark
  BY <1>7 DEF SaveMark
<1>8. CASE Fire
  BY <1>8 DEF Fire
<1>9. CASE Crash
  BY <1>9 DEF Crash
<1>10. CASE Corrupt
  BY <1>10 DEF Corrupt
<1>11. CASE Boot
  BY <1>11 DEF Boot, Loaded, Blank
<1>12. CASE UNCHANGED vars
  BY <1>12
<1> QED
  BY <1>1, <1>2, <1>3, <1>4, <1>5, <1>6, <1>7, <1>8, <1>9, <1>10, <1>11, <1>12 DEF Next

LEMMA InitOvershoot == Init => OvershootInv
<1> SUFFICES ASSUME Init PROVE OvershootInv
  OBVIOUS
<1>1. TypeInv
  BY InitType DEF Init, TypeInv, DiskSound
<1> QED
  BY <1>1 DEF Init, OvershootInv, QuietInv, OvershootBounded, Reached, Blank, InFlight

(* Past the cap only the calls already in flight when it was reached may still run,
   over pushes, failed writes, spoilt ledgers and restarts.                         *)
THEOREM OvershootAlways == Spec => []OvershootBounded
<1>1. OvershootInv => OvershootBounded
  BY DEF OvershootInv
<1> QED
  BY <1>1, InitOvershoot, NextOvershoot, PTL DEF Spec

(* A spoilt ledger keeps every call out until the vessel pushes. *)
THEOREM FailsClosedAlways == Spec => []FailsClosed
<1>1. OvershootInv => FailsClosed
  BY DEF OvershootInv, QuietInv, FailsClosed, TypeInv, TypeOK
<1> QED
  BY <1>1, InitOvershoot, NextOvershoot, PTL DEF Spec

-----------------------------------------------------------------------------
(* How far the memory is ahead of the ledger, at each step of an operation. *)
Changing == at \in {Saving, Rebased}

PushAhead == \E c, r, f \in Money : /\ r <= c
                                   /\ gate = Cap!Pushed(Budget, c, r, f)
                                   /\ \A k \in Calls : call[k] # "counted"

ChargeAhead == \E k \in Calls, cost \in Money :
                 /\ Budget.armed
                 /\ gate = [Budget EXCEPT !.counted = @ + cost]
                 /\ \A j \in Calls : call[j] = "counted" <=> j = k

AheadInv ==
  /\ disk # Bad
  /\ up /\ at \in {Free, Due, Firing} => gate = Budget
  /\ ~up => at = Free
  /\ ~Changing => \A k \in Calls : call[k] # "counted"
  /\ ~failed
  /\ up /\ at \in {Due, Marked} => gate.armed
  /\ up /\ at = Marked => /\ ~Budget.soft
                         /\ gate = [Budget EXCEPT !.soft = TRUE]
                         /\ Spent(Budget) >= Budget.cap - Budget.reserve
  /\ up /\ at = Saving => PushAhead \/ ChargeAhead
  /\ up /\ at = Rebased => PushAhead

(* The hook was called at most once, and only after its mark was saved. *)
FiredInv ==
  /\ fired <= 1
  /\ fired = 1 => Budget.soft
  /\ up /\ at = Firing => fired = 0 /\ gate.soft
  /\ up /\ at = Rebased => ~gate.soft
  /\ up /\ at = Saving => gate.soft = Budget.soft

Ahead == AheadInv /\ FiredInv

Inv == TypeInv /\ (sound => Ahead)

LEMMA InitInv == Init => Inv
<1> SUFFICES ASSUME Init PROVE Inv
  OBVIOUS
<1>1. TypeInv
  BY InitType DEF Init, TypeInv, DiskSound
<1>2. Budget = Blank
  BY DEF Init, Budget
<1> QED
  BY <1>1, <1>2 DEF Init, Inv, Ahead, AheadInv, FiredInv, Changing, Free, Saving, Rebased, Due, Marked, Firing

(* Whether the disk may fail is settled once. *)
LEMMA SoundStays == [Next]_vars => sound' = sound
  BY DEF Next, vars, Push, Admit, Uncharged, Charge, Save, SoftDue, SaveMark, Fire, Crash, Corrupt, Boot

LEMMA NextInv == Inv /\ [Next]_vars => Inv'
<1> SUFFICES ASSUME Inv, [Next]_vars, sound PROVE Ahead'
  BY NextType, SoundStays DEF Inv
<1>0. TypeInv /\ TypeInv' /\ AheadInv /\ FiredInv /\ sound /\ sound'
  BY NextType, SoundStays DEF Inv, Ahead
<1> DEFINE Left == AheadInv /\ FiredInv
<1> SUFFICES Left'
  BY DEF Ahead
<1>t. /\ gate \in Ledger /\ call \in [Calls -> {"idle", "sent", "counted"}] /\ fired \in Nat
      /\ Budget \in Ledger /\ disk \in Ledger \cup {None}
  BY <1>0, LedgerType DEF TypeInv, TypeOK, Budget, AheadInv
<1> USE DEF AheadInv, FiredInv, Changing, mem, hist, vars,
            Free, Saving, Rebased, Due, Marked, Firing
<1>1. ASSUME NEW c \in Money, NEW r \in Money, NEW f \in Money, Push(c, r, f) PROVE Left'
  <2>1. up /\ at = Free /\ r <= c /\ gate = Budget /\ ~failed /\ \A k \in Calls : call[k] # "counted"
    BY <1>0, <1>1 DEF Push
  <2>2. gate' = Pushed(c, r, f) /\ UNCHANGED <<disk, call, up, fired>> /\ ~failed'
        /\ at' = IF Rebases(f) THEN Rebased ELSE Saving
    BY <1>1 DEF Push
  <2>3. Pushed(c, r, f) = Cap!Pushed(Budget, c, r, f)
    BY <2>1 DEF Pushed, Rebases, Cap!Pushed
  <2>4. Budget' = Budget
    BY <1>0, <2>2 DEF Budget
  <2>5. PushAhead'
    BY <2>1, <2>2, <2>3, <2>4 DEF PushAhead
  <2>6. (Rebases(f) => ~gate'.soft) /\ (~Rebases(f) => gate'.soft = Budget.soft)
    BY <2>1, <2>2, <1>t DEF Pushed, Ledger
  <2> QED
    BY <1>0, <2>1, <2>2, <2>4, <2>5, <2>6
<1>2. ASSUME NEW k \in Calls, Admit(k) PROVE Left'
  <2>1. Budget' = Budget
    BY <1>2 DEF Admit, Budget
  <2> QED
    BY <1>0, <1>2, <1>t, <2>1 DEF Admit
<1>3. ASSUME NEW k \in Calls, Uncharged(k) PROVE Left'
  <2>1. Budget' = Budget
    BY <1>3 DEF Uncharged, Budget
  <2> QED
    BY <1>0, <1>3, <1>t, <2>1 DEF Uncharged
<1>4. ASSUME NEW k \in Calls, NEW cost \in Money, Charge(k, cost) PROVE Left'
  <2>1. Budget' = Budget
    BY <1>4 DEF Charge, Budget
  <2>2. up /\ at = Free /\ gate = Budget /\ ~failed /\ \A j \in Calls : call[j] # "counted"
    BY <1>0, <1>4 DEF Charge
  <2>3. CASE gate.armed
    <3>1. /\ gate' = [gate EXCEPT !.counted = @ + cost] /\ call' = [call EXCEPT ![k] = "counted"]
          /\ at' = Saving /\ UNCHANGED <<up, failed, disk, fired>>
      BY <1>4, <2>3 DEF Charge
    <3>2. ChargeAhead'
      BY <1>t, <2>1, <2>2, <2>3, <3>1 DEF ChargeAhead
    <3>3. gate'.soft = Budget.soft
      BY <1>t, <2>2, <3>1 DEF Ledger
    <3> QED
      BY <1>0, <2>1, <2>2, <3>1, <3>2, <3>3
  <2>4. CASE ~gate.armed
    BY <1>0, <1>4, <1>t, <2>1, <2>2, <2>4 DEF Charge
  <2> QED
    BY <2>3, <2>4
<1>5. CASE Save
  <2>1. up /\ disk' = gate /\ gate' = gate /\ at' = Due /\ up' = up /\ failed' = failed /\ at \in {Saving, Rebased}
    BY <1>5 DEF Save, Written
  <2>2. Budget' = gate
    BY <1>0, <1>t, <2>1 DEF Budget
  <2>3. gate.armed
    BY <1>0, <1>t, <2>1 DEF PushAhead, ChargeAhead, Cap!Pushed, Ledger
  <2>4. \A k \in Calls : call'[k] # "counted"
    BY <1>5, <1>t DEF Save
  <2>5. fired' = IF at = Rebased THEN 0 ELSE fired
    BY <1>5 DEF Save
  <2> QED
    BY <1>0, <1>t, <2>1, <2>2, <2>3, <2>4, <2>5
<1>6. CASE SoftDue
  <2>1. Budget' = Budget /\ UNCHANGED <<up, failed, call, disk, fired>> /\ up /\ at = Due /\ gate = Budget
    BY <1>0, <1>6 DEF SoftDue, Budget
  <2>2. CASE gate.soft \/ Spent(gate) < gate.cap - gate.reserve
    BY <1>0, <1>6, <2>1, <2>2 DEF SoftDue
  <2>3. CASE ~(gate.soft \/ Spent(gate) < gate.cap - gate.reserve)
    <3>1. at' = Marked /\ gate' = [gate EXCEPT !.soft = TRUE]
      BY <1>6, <2>3 DEF SoftDue
    <3>2. Spent(Budget) >= Budget.cap - Budget.reserve
      BY <1>t, <2>1, <2>3, LedgerType DEF Ledger
    <3>3. gate'.armed = gate.armed
      BY <1>t, <3>1 DEF Ledger
    <3> QED
      BY <1>0, <2>1, <2>3, <3>1, <3>2, <3>3
  <2> QED
    BY <2>2, <2>3
<1>7. CASE SaveMark
  <2>1. up /\ at = Marked /\ disk' = gate /\ gate' = gate /\ at' = Firing /\ UNCHANGED <<up, failed, call, fired>>
    BY <1>7 DEF SaveMark, Written
  <2>2. Budget' = gate
    BY <1>0, <1>t, <2>1 DEF Budget
  <2>3. gate.soft /\ ~Budget.soft
    BY <1>0, <1>t, <2>1 DEF Ledger
  <2>4. fired = 0
    BY <1>0, <1>t, <2>3
  <2>5. \A k \in Calls : call[k] # "counted"
    BY <1>0, <2>1
  <2>6. disk' # Bad /\ ~failed
    BY <1>0, <1>t, <2>1
  <2>7. AheadInv'
    BY <2>1, <2>2, <2>5, <2>6
  <2>8. FiredInv'
    BY <2>1, <2>2, <2>3, <2>4
  <2> QED
    BY <2>7, <2>8
<1>8. CASE Fire
  <2>1. Budget' = Budget
    BY <1>8 DEF Fire, Budget
  <2> QED
    BY <1>0, <1>8, <2>1 DEF Fire
<1>9. CASE Crash
  <2>1. Budget' = Budget
    BY <1>9 DEF Crash, Budget
  <2> QED
    BY <1>0, <1>9, <2>1 DEF Crash
<1>10. CASE Corrupt
  BY <1>10 DEF Corrupt
<1>11. CASE Boot
  <2>1. Budget' = Budget
    BY <1>11 DEF Boot, Budget
  <2>2. gate' = Budget
    BY <1>0, <1>11, <1>t DEF Boot, Loaded, Budget
  <2> QED
    BY <1>0, <1>11, <2>1, <2>2 DEF Boot
<1>12. CASE UNCHANGED vars
  <2>1. Budget' = Budget
    BY <1>12 DEF Budget
  <2>2. UNCHANGED <<up, gate, failed, at, call, disk, fired>>
    BY <1>12
  <2>3. (PushAhead' <=> PushAhead) /\ (ChargeAhead' <=> ChargeAhead)
    BY <2>1, <2>2 DEF PushAhead, ChargeAhead
  <2> QED
    BY <1>0, <2>1, <2>2, <2>3
<1> QED
  BY <1>1, <1>2, <1>3, <1>4, <1>5, <1>6, <1>7, <1>8, <1>9, <1>10, <1>11, <1>12 DEF Next

(* With a disk that never fails the run's graceful ending is asked for at most once a
   period, wherever between its steps the process ends.                              *)
THEOREM OneEndingAlways == Spec => []OneEnding
<1>1. Inv => OneEnding
  BY DEF Inv, Ahead, FiredInv, OneEnding
<1> QED
  BY InitInv, NextInv, <1>1, PTL DEF Spec

-----------------------------------------------------------------------------
(* The gate with its ledger implements the gate that never restarts. *)
LEMMA InitCap == Init => Cap!Init
<1> SUFFICES ASSUME Init PROVE Cap!Init
  OBVIOUS
<1>1. Budget = Cap!Blank
  BY DEF Init, Cap!Blank, Blank, Budget
<1>2. Flight = {}
  BY DEF Init, Flight
<1> QED
  BY <1>1, <1>2 DEF Cap!Init

(* A disk that may fail is mapped to a gate nobody uses. *)
LEMMA UnsoundStep == ~sound /\ [Next]_vars => UNCHANGED Cap!vars
<1> SUFFICES ASSUME ~sound, ~sound' PROVE UNCHANGED Cap!vars
  BY SoundStays
<1>1. Budget = Blank /\ Budget' = Blank
  BY DEF Budget, Blank
<1>2. Flight = {} /\ Flight' = {}
  BY DEF Flight
<1> QED
  BY <1>1, <1>2 DEF Cap!vars

LEMMA SoundStep == sound /\ Inv /\ [Next]_vars => [Cap!Next]_(Cap!vars)
<1> SUFFICES ASSUME sound, Inv, [Next]_vars PROVE [Cap!Next]_(Cap!vars)
  OBVIOUS
<1>0. TypeInv /\ AheadInv /\ sound /\ sound'
  BY SoundStays DEF Inv, Ahead
<1>t. /\ gate \in Ledger /\ call \in [Calls -> {"idle", "sent", "counted"}]
      /\ Budget \in Ledger /\ disk \in Ledger \cup {None} /\ disk # Bad
  BY <1>0, LedgerType DEF TypeInv, TypeOK, Budget, AheadInv
<1>s. Budget' = Budget /\ Flight' = Flight => UNCHANGED Cap!vars
  BY DEF Cap!vars, Flight
<1>l. \A S \in SUBSET Flight : Budget' = Budget /\ Flight' = Flight \ S => Cap!Next
  BY DEF Cap!Next, Cap!Lose, Flight
<1> USE DEF mem, hist, vars, Free, Saving, Rebased, Due, Marked, Firing
<1>1. ASSUME NEW c \in Money, NEW r \in Money, NEW f \in Money, Push(c, r, f) PROVE UNCHANGED Cap!vars
  BY <1>1, <1>s DEF Push, Budget, Flight
<1>2. ASSUME NEW k \in Calls, Admit(k) PROVE Cap!Next
  <2>1. Budget' = Budget /\ gate = Budget /\ ~failed
    BY <1>0, <1>2 DEF Admit, Budget, AheadInv
  <2>2. k \notin Flight /\ Flight' = Flight \cup {k}
    BY <1>2, <1>t DEF Admit, Flight
  <2>3. Budget.armed => Spent(Budget) < Budget.cap
    BY <1>2, <2>1 DEF Admit, Admits
  <2>4. Cap!Admit(k)
    BY <2>1, <2>2, <2>3 DEF Cap!Admit, Cap!Spent, Spent, Flight
  <2> QED
    BY <2>4 DEF Cap!Next
<1>3. ASSUME NEW k \in Calls, Uncharged(k) PROVE Cap!Next
  <2>1. Budget' = Budget /\ Flight' = Flight \ {k} /\ {k} \in SUBSET Flight
    BY <1>3, <1>t DEF Uncharged, Budget, Flight
  <2> QED
    BY <1>l, <2>1
<1>4. ASSUME NEW k \in Calls, NEW cost \in Money, Charge(k, cost) PROVE [Cap!Next]_(Cap!vars)
  <2>1. Budget' = Budget
    BY <1>4 DEF Charge, Budget
  <2>2. CASE gate.armed
    <3>1. Flight' = Flight
      BY <1>4, <1>t, <2>2 DEF Charge, Flight
    <3> QED
      BY <1>s, <2>1, <3>1
  <2>3. CASE ~gate.armed
    <3>1. Flight' = Flight \ {k} /\ {k} \in SUBSET Flight
      BY <1>4, <1>t, <2>3 DEF Charge, Flight
    <3> QED
      BY <1>l, <2>1, <3>1
  <2> QED
    BY <2>2, <2>3
<1>5. CASE Save
  <2>1. disk' = gate /\ up /\ at \in {Saving, Rebased} /\ Budget' = gate
    BY <1>5, <1>t DEF Save, Written, Budget
  <2>2. CASE PushAhead
    <3>1. PICK c \in Money, r \in Money, f \in Money : r <= c /\ gate = Cap!Pushed(Budget, c, r, f)
      BY <2>2 DEF PushAhead
    <3>2. \A k \in Calls : call'[k] = call[k]
      BY <1>5, <1>t, <2>2 DEF Save, PushAhead
    <3>3. Flight' = Flight
      BY <1>0, <3>2 DEF Flight
    <3>4. Cap!Push(c, r, f)
      BY <2>1, <3>1, <3>3 DEF Cap!Push, Flight
    <3> QED
      BY <3>1, <3>4 DEF Cap!Next, Money
  <2>3. CASE ChargeAhead
    <3>1. PICK k \in Calls, cost \in Money :
            /\ Budget.armed
            /\ gate = [Budget EXCEPT !.counted = @ + cost]
            /\ \A j \in Calls : call[j] = "counted" <=> j = k
      BY <2>3 DEF ChargeAhead
    <3>2. Flight' = Flight \ {k} /\ k \in Flight
      BY <1>5, <1>t, <3>1 DEF Save, Flight
    <3>3. Cap!Answer(k, cost)
      BY <2>1, <3>1, <3>2 DEF Cap!Answer, Flight
    <3> QED
      BY <3>1, <3>3 DEF Cap!Next
  <2> QED
    BY <1>0, <2>1, <2>2, <2>3 DEF AheadInv
<1>6. CASE SoftDue
  BY <1>6, <1>s DEF SoftDue, Budget, Flight
<1>7. CASE SaveMark
  <2>1. disk' = gate /\ up /\ at = Marked /\ Budget' = gate /\ Flight' = Flight
    BY <1>7, <1>t DEF SaveMark, Written, Budget, Flight
  <2>2. ~Budget.soft /\ gate = [Budget EXCEPT !.soft = TRUE] /\ Spent(Budget) >= Budget.cap - Budget.reserve
    BY <1>0, <2>1 DEF AheadInv
  <2>3. Budget.armed
    BY <1>0, <1>t, <2>1, <2>2 DEF AheadInv, Ledger
  <2>4. Cap!Trip
    BY <2>1, <2>2, <2>3 DEF Cap!Trip, Cap!Spent, Spent, Flight
  <2> QED
    BY <2>4 DEF Cap!Next
<1>8. CASE Fire
  BY <1>8, <1>s DEF Fire, Budget, Flight
<1>9. CASE Crash
  <2>1. Budget' = Budget /\ Flight' = Flight \ Flight
    BY <1>9, <1>t DEF Crash, Budget, Flight
  <2> QED
    BY <1>l, <2>1
<1>10. CASE Corrupt
  BY <1>10 DEF Corrupt
<1>11. CASE Boot
  BY <1>11, <1>s DEF Boot, Budget, Flight
<1>12. CASE UNCHANGED vars
  BY <1>12, <1>s DEF Budget, Flight
<1> QED
  BY <1>1, <1>2, <1>3, <1>4, <1>5, <1>6, <1>7, <1>8, <1>9, <1>10, <1>11, <1>12 DEF Next

(* With a disk that never fails a restart is invisible but for the calls it loses: every
   step is a step of the gate that never restarts, or leaves its budget and calls alone. *)
THEOREM ImplementsCap == Spec => CapSpec
<1>1. Inv /\ [Next]_vars => [Cap!Next]_(Cap!vars)
  BY SoundStep, UnsoundStep
<1> QED
  BY InitInv, InitCap, NextInv, <1>1, PTL DEF Spec, CapSpec, Cap!Spec
=============================================================================
