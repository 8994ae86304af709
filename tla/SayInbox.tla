------------------------------ MODULE SayInbox ------------------------------
(***************************************************************************)
(* The say inbox (session/say_inbox.py) at the grain of its file calls:    *)
(* <workspace>/.say, the slot; <workspace>/.busy, the marker of the turn   *)
(* in flight; <workspace>/.served, the marker of the web app.  Several     *)
(* processes share one workspace with no lock between them, so every call  *)
(* that reads a file and then acts on what it read is two steps here.  A   *)
(* marker test is one step: its answer is the one of a single moment.      *)
(*                                                                         *)
(*   Senders  - `zakcode say`, the cockpit's say box: they call write_say. *)
(*   Repls    - terminal REPLs (cli/__init__.py): they poll between turns  *)
(*              and at the iteration boundaries of a turn.                 *)
(*   Servers  - web apps (server/app.py): they poll the same way and keep  *)
(*              the served marker while they are up.                       *)
(*   Boxes    - say boxes whose Esc takes a pending message back.          *)
(*                                                                         *)
(* Abstracted: the text of a message (a model value), the temp file behind *)
(* os.replace (nobody reads it), OS errors, and the wall clock: a marker   *)
(* is fresh while its holder refreshes it (every BUSY_REFRESH_SECONDS) and *)
(* may turn stale (BUSY_STALE_SECONDS) only once the holder is gone.       *)
(* A process runs one turn at a time and polls from the thread that runs   *)
(* it, so a process has one program counter.                               *)
(***************************************************************************)
EXTENDS Integers, Sequences

CONSTANTS Msg, Senders, Repls, Servers, Boxes, None,
          MaxCrash   \* how many processes may die in one behaviour

ASSUME NoneAssumption == None \notin Msg \cup Repls \cup Servers \cup Boxes
ASSUME KindsAssumption == Repls \cap Servers = {} /\ Boxes \cap (Repls \cup Servers) = {}
ASSUME CrashAssumption == MaxCrash \in Nat

Readers == Repls \cup Servers

VARIABLES
  slot,       \* the content of .say, or None
  writing,    \* [Senders -> Msg or None]: the text of a write_say past its exists() test
  box,        \* [Boxes -> Msg or None]: what an Esc has read and not yet unlinked
  pc,         \* [Readers -> where the process is in its polling or its turn]
  got,        \* [Readers -> Msg or None]: the text a read_say holds before its unlink
  lease,      \* [Readers -> BOOLEAN]: BusyLease.held
  busy,       \* .busy: the pid it names and whether it is fresh, or NoMarker
  served,     \* .served: the same
  crashes,    \* processes that died so far
  sent,       \* history: messages a write_say answered True for
  refused,    \* history: messages a write_say answered False for
  taken,      \* history: every hand-over, in order: who took which message
  own,        \* history: the messages that are the web app's alone (see WriteReplace)
  alone       \* history: so far nobody met another of his kind (OneAtATime)

file == <<slot, busy, served, own>>
code == <<slot, writing, box, pc, got, lease, busy, served, crashes, sent, refused, taken, own>>
vars == <<code, alone>>

NoMarker == [pid |-> None, fresh |-> FALSE]
Marker == [pid : Readers, fresh : BOOLEAN] \cup {NoMarker}

Down == "down"        \* not started
Dead == "dead"        \* ended, or crashed: a restart is another process with another pid
Idle == "idle"        \* between turns
Look == "look"        \* the markers allowed a read; read_text is next
Read == "read"        \* read_text returned a message; unlink is next
Start == "start"      \* a turn is about to begin; claim_busy's test is next
Claim == "claim"      \* the busy marker named nobody else; os.replace is next
Turn == "turn"        \* a turn runs
MidLook == "midlook"  \* as Look, at an iteration boundary of a turn
MidRead == "midread"  \* as Read, at an iteration boundary of a turn
Release == "release"  \* the marker was ours at turn end; unlink is next

PC == {Down, Dead, Idle, Look, Read, Start, Claim, Turn, MidLook, MidRead, Release}
Alive(r) == pc[r] \notin {Down, Dead}
PastTest == {Look, Read, MidLook, MidRead}  \* asked the markers, has not yet taken

(* Mutant: a marker never grows stale. *)
ElsewhereHoweverOld(marker, r) == marker.pid \notin {None, r}

(* busy_elsewhere: a fresh marker names another process. *)
Elsewhere(marker, r) == marker.fresh /\ marker.pid # r

TypeOK ==
  /\ slot \in Msg \cup {None}
  /\ writing \in [Senders -> Msg \cup {None}]
  /\ box \in [Boxes -> Msg \cup {None}]
  /\ pc \in [Readers -> PC]
  /\ got \in [Readers -> Msg \cup {None}]
  /\ lease \in [Readers -> BOOLEAN]
  /\ busy \in Marker /\ served \in Marker
  /\ crashes \in 0..MaxCrash
  /\ sent \subseteq Msg /\ refused \subseteq Msg
  /\ taken \in Seq([by : Readers \cup Boxes, msg : Msg])
  /\ own \subseteq Msg
  /\ alone \in BOOLEAN

(* One write under way, one consumer up, and no say box that takes something back. *)
OneAtATime ==
  /\ \A p, q \in Senders : writing[p] # None /\ writing[q] # None => p = q
  /\ \A q, r \in Readers : Alive(q) /\ Alive(r) => q = r
  /\ \A b \in Boxes : box[b] = None

Init ==
  /\ slot = None
  /\ writing = [p \in Senders |-> None]
  /\ box = [b \in Boxes |-> None]
  /\ pc = [r \in Readers |-> Down]
  /\ got = [r \in Readers |-> None]
  /\ lease = [r \in Readers |-> FALSE]
  /\ busy = NoMarker /\ served = NoMarker
  /\ crashes = 0
  /\ sent = {} /\ refused = {} /\ taken = <<>> /\ own = {} /\ alone = TRUE

Used == sent \cup refused \cup {writing[p] : p \in Senders}

-----------------------------------------------------------------------------
(* write_say: the exists() test ... *)
WriteRefused(p, m) ==
  /\ writing[p] = None /\ m \notin Used
  /\ slot # None
  /\ refused' = refused \cup {m}
  /\ UNCHANGED <<file, writing, box, pc, got, lease, crashes, sent, taken>>

WriteTest(p, m) ==
  /\ writing[p] = None /\ m \notin Used
  /\ slot = None
  /\ writing' = [writing EXCEPT ![p] = m]
  /\ UNCHANGED <<file, box, pc, got, lease, crashes, sent, refused, taken>>

(* ... and the os.replace, which overwrites whatever is there by now.  A message
   that arrives while a live web app's marker stands, no other web app runs and no
   REPL is past its test is the web app's own for as long as that lasts.          *)
ServedAlone ==
  /\ served.fresh /\ Alive(served.pid)
  /\ \A s \in Servers \ {served.pid} : ~Alive(s)
  /\ \A r \in Repls : pc[r] \notin PastTest

WriteReplace(p) ==
  /\ writing[p] # None
  /\ slot' = writing[p]
  /\ sent' = sent \cup {writing[p]}
  /\ writing' = [writing EXCEPT ![p] = None]
  /\ own' = IF ServedAlone THEN own \cup {writing[p]} ELSE own
  /\ UNCHANGED <<box, pc, got, lease, busy, served, crashes, refused, taken>>

-----------------------------------------------------------------------------
(* Esc in a say box: read_say with no marker asked. *)
RecallRead(b) ==
  /\ box[b] = None /\ slot # None
  /\ box' = [box EXCEPT ![b] = slot]
  /\ UNCHANGED <<file, writing, pc, got, lease, crashes, sent, refused, taken>>

RecallUnlink(b) ==
  /\ box[b] # None
  /\ slot' = None
  /\ taken' = Append(taken, [by |-> b, msg |-> box[b]])
  /\ box' = [box EXCEPT ![b] = None]
  /\ UNCHANGED <<writing, pc, got, lease, busy, served, crashes, sent, refused, own>>

-----------------------------------------------------------------------------
(* A process comes up.  A web app takes the served marker over (take_over),
   whoever it names.                                                        *)
Up(r) ==
  /\ pc[r] = Down
  /\ pc' = [pc EXCEPT ![r] = Idle]
  /\ IF r \in Servers
     THEN served' = [pid |-> r, fresh |-> TRUE] /\ own' = {}
     ELSE UNCHANGED <<served, own>>
  /\ UNCHANGED <<slot, writing, box, got, lease, busy, crashes, sent, refused, taken>>

(* A process ends between turns.  A web app's lease drops the served marker if
   it still names it.                                                         *)
Leave(r) ==
  /\ pc[r] = Idle
  /\ pc' = [pc EXCEPT ![r] = Dead]
  /\ IF served.pid = r
     THEN served' = NoMarker /\ own' = {}
     ELSE UNCHANGED <<served, own>>
  /\ UNCHANGED <<slot, writing, box, got, lease, busy, crashes, sent, refused, taken>>

(* A process dies anywhere; its files stay, what it had read is gone. *)
Crash(r) ==
  /\ Alive(r) /\ crashes < MaxCrash
  /\ pc' = [pc EXCEPT ![r] = Dead]
  /\ got' = [got EXCEPT ![r] = None]
  /\ lease' = [lease EXCEPT ![r] = FALSE]
  /\ crashes' = crashes + 1
  /\ UNCHANGED <<file, writing, box, sent, refused, taken>>

(* A marker nobody refreshes any more grows stale. *)
BusyAges ==
  /\ busy.fresh /\ pc[busy.pid] = Dead
  /\ busy' = [busy EXCEPT !.fresh = FALSE]
  /\ UNCHANGED <<slot, writing, box, pc, got, lease, served, crashes, sent, refused, taken, own>>

ServedAges ==
  /\ served.fresh /\ pc[served.pid] = Dead
  /\ served' = [served EXCEPT !.fresh = FALSE]
  /\ own' = {}
  /\ UNCHANGED <<slot, writing, box, pc, got, lease, busy, crashes, sent, refused, taken>>

-----------------------------------------------------------------------------
(* The idle poll asks the markers.  A REPL stands back from a served workspace
   and from another process's turn, a web app from another process's turn.    *)
(* Mutant: the rule before the served marker. *)
StandsBackFromTurns(r) == Elsewhere(busy, r)

StandsBack(r) == Elsewhere(busy, r) \/ (r \in Repls /\ Elsewhere(served, r))

Poll(r) ==
  /\ pc[r] = Idle /\ ~StandsBack(r)
  /\ pc' = [pc EXCEPT ![r] = Look]
  /\ UNCHANGED <<file, writing, box, got, lease, crashes, sent, refused, taken>>

(* Mutant: the boundary asks for a say only. *)
MidTurnPollUnserved(r) ==
  /\ pc[r] = Turn /\ slot # None
  /\ pc' = [pc EXCEPT ![r] = MidLook]
  /\ UNCHANGED <<file, writing, box, got, lease, crashes, sent, refused, taken>>

(* The loop's iteration boundary asks for a pending say and the served marker. *)
MidTurnPoll(r) ==
  /\ pc[r] = Turn /\ slot # None /\ ~Elsewhere(served, r)
  /\ pc' = [pc EXCEPT ![r] = MidLook]
  /\ UNCHANGED <<file, writing, box, got, lease, crashes, sent, refused, taken>>

(* Mutant: delete first, then read. *)
ReadTextDeletesFirst(r) ==
  /\ pc[r] \in {Look, MidLook}
  /\ got' = [got EXCEPT ![r] = slot]
  /\ slot' = None
  /\ pc' = [pc EXCEPT ![r] =
              IF @ = Look THEN (IF slot = None THEN Idle ELSE Read)
                          ELSE (IF slot = None THEN Turn ELSE MidRead)]
  /\ UNCHANGED <<busy, served, own, writing, box, lease, crashes, sent, refused, taken>>

(* read_say: read_text ... *)
ReadText(r) ==
  /\ pc[r] \in {Look, MidLook}
  /\ got' = [got EXCEPT ![r] = slot]
  /\ pc' = [pc EXCEPT ![r] =
              IF @ = Look THEN (IF slot = None THEN Idle ELSE Read)
                          ELSE (IF slot = None THEN Turn ELSE MidRead)]
  /\ UNCHANGED <<file, writing, box, lease, crashes, sent, refused, taken>>

(* ... and unlink, which removes whatever is there by now. *)
Unlink(r) ==
  /\ pc[r] \in {Read, MidRead}
  /\ slot' = None
  /\ taken' = Append(taken, [by |-> r, msg |-> got[r]])
  /\ got' = [got EXCEPT ![r] = None]
  /\ pc' = [pc EXCEPT ![r] = IF @ = Read THEN Start ELSE Turn]
  /\ UNCHANGED <<writing, box, lease, busy, served, crashes, sent, refused, own>>

(* A turn nobody said anything for: a typed line, a wake-up that came due.  A web
   app's beat yields to another process's turn before it looks for one.          *)
OwnTurn(r) ==
  /\ pc[r] = Idle
  /\ r \in Servers => ~Elsewhere(busy, r)
  /\ pc' = [pc EXCEPT ![r] = Start]
  /\ UNCHANGED <<file, writing, box, got, lease, crashes, sent, refused, taken>>

(* claim_busy: busy_elsewhere, and the turn runs without a claim when it is ... *)
ClaimTest(r) ==
  /\ pc[r] = Start
  /\ pc' = [pc EXCEPT ![r] = IF Elsewhere(busy, r) THEN Turn ELSE Claim]
  /\ UNCHANGED <<file, writing, box, got, lease, crashes, sent, refused, taken>>

(* Mutant: the marker names no process. *)
ClaimNameless(r) ==
  /\ pc[r] = Claim
  /\ busy' = [pid |-> None, fresh |-> TRUE]
  /\ lease' = [lease EXCEPT ![r] = TRUE]
  /\ pc' = [pc EXCEPT ![r] = Turn]
  /\ UNCHANGED <<slot, writing, box, got, served, crashes, sent, refused, taken, own>>

(* ... or os.replace. *)
ClaimReplace(r) ==
  /\ pc[r] = Claim
  /\ busy' = [pid |-> r, fresh |-> TRUE]
  /\ lease' = [lease EXCEPT ![r] = TRUE]
  /\ pc' = [pc EXCEPT ![r] = Turn]
  /\ UNCHANGED <<slot, writing, box, got, served, crashes, sent, refused, taken, own>>

(* The turn ends: BusyLease.release asks whose the marker is only when held ... *)
TurnEnds(r) ==
  /\ pc[r] = Turn
  /\ pc' = [pc EXCEPT ![r] = IF lease[r] /\ busy.pid = r THEN Release ELSE Idle]
  /\ lease' = [lease EXCEPT ![r] = FALSE]
  /\ UNCHANGED <<file, writing, box, got, crashes, sent, refused, taken>>

(* ... and unlinks it. *)
ReleaseUnlink(r) ==
  /\ pc[r] = Release
  /\ busy' = NoMarker
  /\ pc' = [pc EXCEPT ![r] = Idle]
  /\ UNCHANGED <<slot, writing, box, got, lease, served, crashes, sent, refused, taken, own>>

-----------------------------------------------------------------------------
Sender(p) == WriteReplace(p) \/ \E m \in Msg : WriteTest(p, m) \/ WriteRefused(p, m)

Esc(b) == RecallRead(b) \/ RecallUnlink(b)

Reader(r) == \/ MidTurnPoll(r) \/ ReadText(r) \/ Unlink(r)
             \/ ClaimTest(r) \/ ClaimReplace(r) \/ TurnEnds(r) \/ ReleaseUnlink(r)

Process(r) == Poll(r) \/ Reader(r) \/ Up(r) \/ Leave(r) \/ Crash(r) \/ OwnTurn(r)

Step == \/ \E p \in Senders : Sender(p)
        \/ \E b \in Boxes : Esc(b)
        \/ \E r \in Readers : Process(r)
        \/ BusyAges \/ ServedAges

Next == Step /\ alone' = (alone /\ OneAtATime')

Spec == Init /\ [][Next]_vars

(* A process in the middle of a call or a turn goes on; a marker nobody refreshes
   ages; and the idle poll (every 0.3 s in a REPL, 0.5 s in a web app) sees a
   marker-free slot that keeps coming back, which is the gap a person or an idle
   beat leaves between two turns of the other process.                           *)
Fairness == /\ \A r \in Readers : WF_code(Reader(r)) /\ SF_code(Poll(r))
            /\ WF_code(BusyAges) /\ WF_code(ServedAges)

FairSpec == Spec /\ Fairness

-----------------------------------------------------------------------------
(* As long as one consumer runs at a time, one write is under way at a time and no
   say box reaches in, the files keep the whole promise, a crash in the middle of a
   read included: the slot accepts and hands over as SaySlot says, the replace and
   the unlink being the moments.  (The next two are the same promise by parts.)     *)
Slot == INSTANCE SaySlot WITH pending <- slot, sent <- sent,
          taken <- [i \in DOMAIN taken |-> taken[i].msg]

SlotSpec == Slot!Init /\ [][alone' => Slot!Next]_(Slot!vars)

(* "Exactly-once delivery. Reading consumes (read then delete)." *)
ExactlyOnce == alone => \A i, j \in DOMAIN taken : taken[i].msg = taken[j].msg => i = j

(* "Writing while one is pending is refused." *)
PendingIsRefused == [][alone' => \A m \in Msg : m \in sent' \ sent => slot = None]_vars

(* While a web app serves the workspace a REPL takes none of its messages, idle or
   mid-turn (ADR-0320), whatever the busy marker says meanwhile.                  *)
ServedSlotIsTheServers ==
  \A i \in DOMAIN taken : taken[i].msg \in own => taken[i].by \notin Repls

(* ... and no consumer starts a second turn on one of them, whatever a say box
   that reaches around the markers takes back meanwhile.                        *)
ServedTakesOnce ==
  \A i, j \in DOMAIN taken :
    /\ taken[i].msg = taken[j].msg /\ taken[i].msg \in own
    /\ {taken[i].by, taken[j].by} \subseteq Readers
    => i = j

(* The messages that are the web app's own are its own: no other process reads them, and
   none of them starts two turns.                                                        *)
ServedOwnsItsSlot == ServedSlotIsTheServers /\ ServedTakesOnce

(* A message pending in the slot does not stay there while a web app lives, however
   the other processes' turns and deaths fall and whatever markers they leave.     *)
PendingIsTaken ==
  \A m \in Msg : slot = m ~> (slot # m \/ \A s \in Servers : ~Alive(s))
=============================================================================
