--------------------------- MODULE SayInbox_proof ---------------------------
(***************************************************************************)
(* Proofs about SayInbox for every set of processes and messages.          *)
(*                                                                         *)
(* TypeCorrect holds of every composition.  The theorems after it are      *)
(* about the time in which one write is under way, one consumer runs, to   *)
(* be replaced when it leaves or dies at any step, and no say box reaches  *)
(* in.  They rest on Inv: what a writer past its test, and a reader past   *)
(* its read, may then still believe of the slot.  The last two, about the  *)
(* web app's own messages and about the markers, hold of every composition *)
(* again.                                                                  *)
(***************************************************************************)
EXTENDS SayInbox, SequenceTheorems, TLAPS

USE NoneAssumption, CrashAssumption

(* A reader past its read_text holds a message. *)
HoldsWhatItRead == \A r \in Readers : pc[r] \in {Read, MidRead} => got[r] \in Msg

TypeInv == TypeOK /\ HoldsWhatItRead

LEMMA MarkerType ==
  /\ NoMarker \in Marker
  /\ \A r \in Readers : [pid |-> r, fresh |-> TRUE] \in Marker
  /\ \A k \in Marker : k.fresh => [k EXCEPT !.fresh = FALSE] \in Marker
<1>1. NoMarker \in Marker
  BY DEF Marker
<1>2. ASSUME NEW r \in Readers PROVE [pid |-> r, fresh |-> TRUE] \in Marker
  BY DEF Marker
<1>3. ASSUME NEW k \in Marker, k.fresh PROVE [k EXCEPT !.fresh = FALSE] \in Marker
  <2>1. ~NoMarker.fresh
    BY DEF NoMarker
  <2>2. k \in [pid : Readers, fresh : BOOLEAN]
    BY <1>3, <2>1 DEF Marker
  <2> QED
    BY <2>2 DEF Marker
<1> QED
  BY <1>1, <1>2, <1>3

LEMMA InitType == Init => TypeInv
  BY MarkerType DEF Init, TypeInv, TypeOK, HoldsWhatItRead, PC, Down, Read, MidRead

(* Every step keeps the types. *)
LEMMA NextType == TypeInv /\ [Next]_vars => TypeInv'
<1> SUFFICES ASSUME TypeInv, [Next]_vars PROVE TypeInv'
  OBVIOUS
<1>0. alone' \in BOOLEAN
  BY DEF TypeInv, TypeOK, Next, vars
<1> USE MarkerType DEF TypeInv, TypeOK, HoldsWhatItRead, PC, file, code, vars,
      Down, Dead, Idle, Look, Read, Start, Claim, Turn, MidLook, MidRead, Release
<1>1. ASSUME NEW p \in Senders, NEW m \in Msg, WriteTest(p, m) PROVE TypeInv'
  BY <1>0, <1>1 DEF WriteTest
<1>2. ASSUME NEW p \in Senders, NEW m \in Msg, WriteRefused(p, m) PROVE TypeInv'
  BY <1>0, <1>2 DEF WriteRefused
<1>3. ASSUME NEW p \in Senders, WriteReplace(p) PROVE TypeInv'
  BY <1>0, <1>3 DEF WriteReplace
<1>4. ASSUME NEW b \in Boxes, RecallRead(b) PROVE TypeInv'
  BY <1>0, <1>4 DEF RecallRead
<1>5. ASSUME NEW b \in Boxes, RecallUnlink(b) PROVE TypeInv'
  BY <1>0, <1>5 DEF RecallUnlink
<1>6. ASSUME NEW r \in Readers, Up(r) PROVE TypeInv'
  BY <1>0, <1>6 DEF Up
<1>7. ASSUME NEW r \in Readers, Leave(r) PROVE TypeInv'
  BY <1>0, <1>7 DEF Leave
<1>8. ASSUME NEW r \in Readers, Crash(r) PROVE TypeInv'
  BY <1>0, <1>8 DEF Crash
<1>9. ASSUME NEW r \in Readers, Poll(r) PROVE TypeInv'
  BY <1>0, <1>9 DEF Poll
<1>10. ASSUME NEW r \in Readers, MidTurnPoll(r) PROVE TypeInv'
  BY <1>0, <1>10 DEF MidTurnPoll
<1>11. ASSUME NEW r \in Readers, ReadText(r) PROVE TypeInv'
  BY <1>0, <1>11 DEF ReadText
<1>12. ASSUME NEW r \in Readers, Unlink(r) PROVE TypeInv'
  BY <1>0, <1>12 DEF Unlink
<1>13. ASSUME NEW r \in Readers, OwnTurn(r) PROVE TypeInv'
  BY <1>0, <1>13 DEF OwnTurn
<1>14. ASSUME NEW r \in Readers, ClaimTest(r) PROVE TypeInv'
  BY <1>0, <1>14 DEF ClaimTest
<1>15. ASSUME NEW r \in Readers, ClaimReplace(r) PROVE TypeInv'
  BY <1>0, <1>15 DEF ClaimReplace
<1>16. ASSUME NEW r \in Readers, TurnEnds(r) PROVE TypeInv'
  BY <1>0, <1>16 DEF TurnEnds
<1>17. ASSUME NEW r \in Readers, ReleaseUnlink(r) PROVE TypeInv'
  BY <1>0, <1>17 DEF ReleaseUnlink
<1>18. CASE BusyAges
  BY <1>0, <1>18 DEF BusyAges
<1>19. CASE ServedAges
  BY <1>0, <1>19 DEF ServedAges
<1>20. CASE UNCHANGED vars
  BY <1>0, <1>20
<1> QED
  BY <1>1, <1>2, <1>3, <1>4, <1>5, <1>6, <1>7, <1>8, <1>9, <1>10, <1>11, <1>12, <1>13, <1>14, <1>15, <1>16, <1>17, <1>18, <1>19, <1>20
     DEF Next, Step, Sender, Esc, Process, Reader

(* The types hold of every reachable state, in every composition of processes. *)
THEOREM TypeCorrect == Spec => []TypeOK
<1>1. TypeInv => TypeOK
  BY DEF TypeInv
<1> QED
  BY InitType, NextType, <1>1, PTL DEF Spec

-----------------------------------------------------------------------------
(* What a writer past its test believes is still so. *)
WriterInv == \A p \in Senders : writing[p] # None => slot = None /\ writing[p] \notin sent

(* What a reader past its read believes is still so. *)
ReaderInv == \A r \in Readers : pc[r] \in {Read, MidRead} => slot # None /\ got[r] = slot

(* A pending message was accepted and not yet handed over. *)
SlotInv == slot # None => slot \in sent /\ \A i \in DOMAIN taken : taken[i].msg # slot

TakenInv == /\ \A i \in DOMAIN taken : taken[i].msg \in sent
            /\ \A i, j \in DOMAIN taken : taken[i].msg = taken[j].msg => i = j

AloneInv == OneAtATime /\ WriterInv /\ ReaderInv /\ SlotInv /\ TakenInv

Inv == TypeInv /\ (alone => AloneInv)

LEMMA InitInv == Init => Inv
<1> SUFFICES ASSUME Init PROVE Inv
  OBVIOUS
<1>1. TypeInv
  BY InitType
<1>2. AloneInv
  BY DEF Init, AloneInv, OneAtATime, WriterInv, ReaderInv, SlotInv, TakenInv,
         Alive, Down, Read, MidRead
<1> QED
  BY <1>1, <1>2 DEF Inv

(* Appending a hand-over: what the new list is, entry by entry. *)
LEMMA Appended ==
  ASSUME NEW S, NEW s \in Seq(S), NEW e \in S
  PROVE  /\ DOMAIN Append(s, e) = DOMAIN s \cup {Len(s) + 1}
         /\ \A i \in DOMAIN s : Append(s, e)[i] = s[i]
         /\ Append(s, e)[Len(s) + 1] = e
         /\ Len(s) + 1 \notin DOMAIN s
OBVIOUS

LEMMA NextInv == Inv /\ [Next]_vars => Inv'
<1> SUFFICES ASSUME Inv, [Next]_vars PROVE Inv'
  OBVIOUS
<1>0. TypeInv /\ TypeInv'
  BY NextType DEF Inv
<1> SUFFICES ASSUME alone' PROVE AloneInv'
  BY <1>0 DEF Inv
<1>a. CASE UNCHANGED vars
  BY <1>a DEF vars, code, Inv, AloneInv, OneAtATime, WriterInv, ReaderInv, SlotInv, TakenInv, Alive
<1> SUFFICES ASSUME Step, AloneInv, OneAtATime' PROVE AloneInv'
  BY <1>a DEF Next, Inv, TypeInv, TypeOK
<1> HIDE NoneAssumption, CrashAssumption
<1> DEFINE Rest == WriterInv /\ ReaderInv /\ SlotInv /\ TakenInv
<1> SUFFICES Rest'
  BY DEF AloneInv
<1> USE DEF AloneInv, OneAtATime, WriterInv, ReaderInv, SlotInv, TakenInv, Alive, file, code,
      PC, Down, Dead, Idle, Look, Read, Start, Claim, Turn, MidLook, MidRead, Release
<1>1. ASSUME NEW p \in Senders, NEW m \in Msg, WriteTest(p, m) PROVE Rest'
  BY <1>0, <1>1, NoneAssumption DEF WriteTest, Used, TypeInv, TypeOK
<1>2. ASSUME NEW p \in Senders, NEW m \in Msg, WriteRefused(p, m) PROVE Rest'
  BY <1>0, <1>2, NoneAssumption DEF WriteRefused, TypeInv, TypeOK
<1>3. ASSUME NEW p \in Senders, WriteReplace(p) PROVE Rest'
  BY <1>0, <1>3, NoneAssumption DEF WriteReplace, TypeInv, TypeOK
<1>4. ASSUME NEW b \in Boxes, Esc(b) PROVE Rest'
  BY <1>0, <1>4 DEF Esc, RecallRead, RecallUnlink, TypeInv, TypeOK
<1>5. ASSUME NEW r \in Readers, Up(r) PROVE Rest'
  BY <1>0, <1>5, NoneAssumption DEF Up, TypeInv, TypeOK
<1>6. ASSUME NEW r \in Readers, Leave(r) PROVE Rest'
  BY <1>0, <1>6, NoneAssumption DEF Leave, TypeInv, TypeOK
<1>7. ASSUME NEW r \in Readers, Crash(r) PROVE Rest'
  BY <1>0, <1>7, NoneAssumption DEF Crash, TypeInv, TypeOK
<1>8. ASSUME NEW r \in Readers, Poll(r) PROVE Rest'
  BY <1>0, <1>8, NoneAssumption DEF Poll, TypeInv, TypeOK
<1>9. ASSUME NEW r \in Readers, MidTurnPoll(r) PROVE Rest'
  BY <1>0, <1>9, NoneAssumption DEF MidTurnPoll, TypeInv, TypeOK
<1>10. ASSUME NEW r \in Readers, ReadText(r) PROVE Rest'
  BY <1>0, <1>10, NoneAssumption DEF ReadText, TypeInv, TypeOK
<1>11. ASSUME NEW r \in Readers, Unlink(r) PROVE Rest'
  <2> DEFINE e == [by |-> r, msg |-> got[r]]
             S == [by : Readers \cup Boxes, msg : Msg]
  <2>1. taken \in Seq(S) /\ e \in S /\ taken' = Append(taken, e) /\ e.msg = slot
    BY <1>0, <1>11 DEF Unlink, TypeInv, TypeOK, HoldsWhatItRead
  <2>2. /\ DOMAIN taken' = DOMAIN taken \cup {Len(taken) + 1}
        /\ \A i \in DOMAIN taken : taken'[i] = taken[i]
        /\ taken'[Len(taken) + 1] = e
        /\ Len(taken) + 1 \notin DOMAIN taken
    BY <2>1, Appended
  <2>3. TakenInv'
    BY <1>11, <2>1, <2>2 DEF Unlink
  <2>4. WriterInv' /\ SlotInv'
    BY <1>0, <1>11, NoneAssumption DEF Unlink, TypeInv, TypeOK
  <2>5. ReaderInv'
    BY <1>0, <1>11, NoneAssumption DEF Unlink, TypeInv, TypeOK
  <2> QED
    BY <2>3, <2>4, <2>5
<1>12. ASSUME NEW r \in Readers, OwnTurn(r) PROVE Rest'
  BY <1>0, <1>12, NoneAssumption DEF OwnTurn, TypeInv, TypeOK
<1>13. ASSUME NEW r \in Readers, ClaimTest(r) PROVE Rest'
  BY <1>0, <1>13, NoneAssumption DEF ClaimTest, TypeInv, TypeOK
<1>14. ASSUME NEW r \in Readers, ClaimReplace(r) PROVE Rest'
  BY <1>0, <1>14, NoneAssumption DEF ClaimReplace, TypeInv, TypeOK
<1>15. ASSUME NEW r \in Readers, TurnEnds(r) PROVE Rest'
  BY <1>0, <1>15, NoneAssumption DEF TurnEnds, TypeInv, TypeOK
<1>16. ASSUME NEW r \in Readers, ReleaseUnlink(r) PROVE Rest'
  BY <1>0, <1>16, NoneAssumption DEF ReleaseUnlink, TypeInv, TypeOK
<1>17. CASE BusyAges
  BY <1>0, <1>17, NoneAssumption DEF BusyAges, TypeInv, TypeOK
<1>18. CASE ServedAges
  BY <1>0, <1>18, NoneAssumption DEF ServedAges, TypeInv, TypeOK
<1> QED
  BY <1>1, <1>2, <1>3, <1>4, <1>5, <1>6, <1>7, <1>8, <1>9, <1>10, <1>11, <1>12, <1>13, <1>14, <1>15, <1>16, <1>17, <1>18
     DEF Step, Sender, Process, Reader

-----------------------------------------------------------------------------
(* A lone consumer and a lone writer keep every message exactly once, whichever
   step a consumer dies at: no message is handed over twice.                    *)
THEOREM AloneExactlyOnce == Spec => []ExactlyOnce
<1>1. Inv => ExactlyOnce
  BY DEF Inv, AloneInv, TakenInv, ExactlyOnce
<1> QED
  BY InitInv, NextInv, <1>1, PTL DEF Spec

(* ... and a write that is accepted never overwrites a pending one. *)
THEOREM AlonePendingIsRefused == Spec => PendingIsRefused
<1> DEFINE A == alone' => \A m \in Msg : m \in sent' \ sent => slot = None
<1>1. Inv /\ [Next]_vars => [A]_vars
  <2> SUFFICES ASSUME Inv, Next, alone', NEW m \in Msg, m \in sent' \ sent PROVE slot = None
    OBVIOUS
  <2>1. PICK p \in Senders : WriteReplace(p)
    BY DEF Next, Step, Sender, WriteTest, WriteRefused, Esc, RecallRead, RecallUnlink, Process, Reader,
       Up, Leave, Crash, Poll, MidTurnPoll, ReadText, Unlink, OwnTurn, ClaimTest, ClaimReplace,
       TurnEnds, ReleaseUnlink, BusyAges, ServedAges
  <2>2. AloneInv
    BY DEF Inv, Next, TypeInv, TypeOK
  <2> QED
    BY <2>1, <2>2 DEF AloneInv, WriterInv, WriteReplace
<1> HIDE DEF A
<1>2. Spec => [][A]_vars
  BY InitInv, NextInv, <1>1, PTL DEF Spec
<1> QED
  BY <1>2 DEF A, PendingIsRefused

-----------------------------------------------------------------------------
(* The implementation of SaySlot: the replace sends, the unlink takes. *)
LEMMA InitSlot == Init => Slot!Init
  BY DEF Init, Slot!Init

LEMMA SendStep == ASSUME TypeInv, AloneInv, NEW p \in Senders, WriteReplace(p) PROVE Slot!Send(writing[p])
  BY DEF AloneInv, TypeInv, TypeOK, WriterInv, WriteReplace, Slot!Send

LEMMA TakeStep == ASSUME TypeInv, AloneInv, NEW r \in Readers, Unlink(r) PROVE Slot!Take
<1> DEFINE e == [by |-> r, msg |-> got[r]]
           S == [by : Readers \cup Boxes, msg : Msg]
           Text(s) == [i \in DOMAIN s |-> s[i].msg]
<1>1. taken \in Seq(S) /\ e \in S /\ taken' = Append(taken, e) /\ e.msg = slot
  BY DEF Unlink, AloneInv, ReaderInv, TypeInv, TypeOK, HoldsWhatItRead
<1>2. slot # None /\ slot' = None /\ UNCHANGED sent
  BY DEF Unlink, AloneInv, ReaderInv
<1>3. Text(taken') = Append(Text(taken), slot)
  <2>1. Text(taken) \in Seq(Msg) /\ Len(Text(taken)) = Len(taken)
    <3> HIDE DEF S, e
    <3>0. Len(taken) \in Nat /\ DOMAIN taken = 1..Len(taken) /\ \A i \in 1..Len(taken) : taken[i] \in S
      BY <1>1, LenProperties, ElementOfSeq
    <3> USE DEF S
    <3>1. DOMAIN taken = 1..Len(taken) /\ \A i \in 1..Len(taken) : taken[i].msg \in Msg
      BY <3>0
    <3>2. Text(taken) \in [1..Len(taken) -> Msg]
      BY <3>1
    <3> QED
      BY <3>0, <3>2, SeqDef, LenProperties
  <2>2. slot \in Msg
    BY <1>2 DEF TypeInv, TypeOK
  <2> QED
    BY <1>1, <2>1, <2>2
<1> QED
  BY <1>2, <1>3 DEF Slot!Take

LEMMA SlotStep == Inv /\ [Next]_vars => [alone' => Slot!Next]_(Slot!vars)
<1> DEFINE Goal == [Slot!Next]_(Slot!vars)
<1>a. CASE UNCHANGED vars
  BY <1>a DEF vars, code, Slot!vars
<1> SUFFICES ASSUME TypeInv, AloneInv, Step PROVE Goal
  BY <1>a DEF Inv, TypeInv, TypeOK, Next
<1> USE DEF file, code, Slot!vars
<1>1. ASSUME NEW p \in Senders, NEW m \in Msg, WriteTest(p, m) PROVE Goal
  BY <1>1 DEF WriteTest
<1>2. ASSUME NEW p \in Senders, NEW m \in Msg, WriteRefused(p, m) PROVE Goal
  BY <1>2 DEF WriteRefused
<1>3. ASSUME NEW p \in Senders, WriteReplace(p) PROVE Goal
  BY <1>3, SendStep DEF Slot!Next, WriteReplace, TypeInv, TypeOK
<1>4. ASSUME NEW b \in Boxes, Esc(b) PROVE Goal
  BY <1>4 DEF Esc, RecallRead, RecallUnlink, AloneInv, OneAtATime
<1>5. ASSUME NEW r \in Readers, Up(r) PROVE Goal
  BY <1>5 DEF Up
<1>6. ASSUME NEW r \in Readers, Leave(r) PROVE Goal
  BY <1>6 DEF Leave
<1>7. ASSUME NEW r \in Readers, Crash(r) PROVE Goal
  BY <1>7 DEF Crash
<1>8. ASSUME NEW r \in Readers, Poll(r) PROVE Goal
  BY <1>8 DEF Poll
<1>9. ASSUME NEW r \in Readers, MidTurnPoll(r) PROVE Goal
  BY <1>9 DEF MidTurnPoll
<1>10. ASSUME NEW r \in Readers, ReadText(r) PROVE Goal
  BY <1>10 DEF ReadText
<1>11. ASSUME NEW r \in Readers, Unlink(r) PROVE Goal
  BY <1>11, TakeStep DEF Slot!Next
<1>12. ASSUME NEW r \in Readers, OwnTurn(r) PROVE Goal
  BY <1>12 DEF OwnTurn
<1>13. ASSUME NEW r \in Readers, ClaimTest(r) PROVE Goal
  BY <1>13 DEF ClaimTest
<1>14. ASSUME NEW r \in Readers, ClaimReplace(r) PROVE Goal
  BY <1>14 DEF ClaimReplace
<1>15. ASSUME NEW r \in Readers, TurnEnds(r) PROVE Goal
  BY <1>15 DEF TurnEnds
<1>16. ASSUME NEW r \in Readers, ReleaseUnlink(r) PROVE Goal
  BY <1>16 DEF ReleaseUnlink
<1>17. CASE BusyAges
  BY <1>17 DEF BusyAges
<1>18. CASE ServedAges
  BY <1>18 DEF ServedAges
<1> QED
  BY <1>1, <1>2, <1>3, <1>4, <1>5, <1>6, <1>7, <1>8, <1>9, <1>10, <1>11, <1>12, <1>13, <1>14, <1>15, <1>16, <1>17, <1>18
     DEF Step, Sender, Process, Reader

(* As long as writers and consumers come one at a time the files implement the
   abstract slot, crashes included.                                            *)
THEOREM ImplementsSlot == Spec => SlotSpec
  BY InitSlot, InitInv, NextInv, SlotStep, PTL DEF Spec, SlotSpec
-----------------------------------------------------------------------------
(* The served workspace, with any number of senders, say boxes and consumers.  A
   message is sent once and is known only from then on.                         *)
FreshInv ==
  /\ \A p \in Senders : writing[p] # None => writing[p] \notin sent
  /\ \A p, q \in Senders : writing[p] # None /\ writing[p] = writing[q] => p = q
  /\ slot # None => slot \in sent
  /\ \A r \in Readers : pc[r] \in {Read, MidRead} => got[r] \in sent
  /\ \A b \in Boxes : box[b] # None => box[b] \in sent
  /\ \A i \in DOMAIN taken : taken[i].msg \in sent
  /\ own \subseteq sent

(* The web app's own messages exist while its marker stands, alone, and nobody else
   is past a test of the markers.                                                  *)
OwnInv ==
  /\ served.fresh => served.pid \in Servers
  /\ own # {} =>
       /\ served.fresh
       /\ \A s \in Servers \ {served.pid} : ~Alive(s)
       /\ \A r \in Repls : pc[r] \notin PastTest

(* One that is pending, or read and not yet taken, no consumer has taken yet. *)
Afresh(m) == \A i \in DOMAIN taken : taken[i].msg = m => taken[i].by \notin Readers

PendingInv ==
  \A m \in own :
    slot = m \/ (\E r \in Readers : pc[r] \in {Read, MidRead} /\ got[r] = m) => Afresh(m)

ServedInv == FreshInv /\ OwnInv /\ PendingInv /\ ServedTakesOnce /\ ServedSlotIsTheServers

LEMMA InitServed == Init => ServedInv
  BY DEF Init, ServedInv, FreshInv, OwnInv, PendingInv, ServedTakesOnce, ServedSlotIsTheServers,
         Down, Read, MidRead, NoMarker

(* A hand-over that grows the history. *)
LEMMA Grown ==
  ASSUME TypeInv, NEW e \in [by : Readers \cup Boxes, msg : Msg], taken' = Append(taken, e)
  PROVE  /\ DOMAIN taken' = DOMAIN taken \cup {Len(taken) + 1}
         /\ \A i \in DOMAIN taken : taken'[i] = taken[i]
         /\ taken'[Len(taken) + 1] = e
         /\ Len(taken) + 1 \notin DOMAIN taken
<1>1. taken \in Seq([by : Readers \cup Boxes, msg : Msg])
  BY DEF TypeInv, TypeOK
<1> QED
  BY <1>1, Appended

(* While the web app has messages of its own only it can be past a test. *)
LEMMA OnlyTheServer ==
  ASSUME OwnInv, own # {}, NEW r \in Readers, pc[r] \in PastTest
  PROVE  r = served.pid /\ r \in Servers
  BY DEF OwnInv, Readers, Alive, PastTest, Look, Read, MidLook, MidRead, Down, Dead

LEMMA NextServed == TypeInv /\ ServedInv /\ [Next]_vars => ServedInv'
<1> SUFFICES ASSUME TypeInv, ServedInv, [Next]_vars PROVE ServedInv'
  OBVIOUS
<1>0. TypeInv'
  BY NextType
<1> HIDE CrashAssumption
<1> USE DEF ServedInv, file, code, vars
<1>1. ASSUME NEW p \in Senders, NEW m \in Msg, WriteTest(p, m) PROVE ServedInv'
  BY <1>1 DEF WriteTest, Used, FreshInv, OwnInv, PendingInv, Afresh, ServedTakesOnce,
              ServedSlotIsTheServers, TypeInv, TypeOK, Alive
<1>2. ASSUME NEW p \in Senders, NEW m \in Msg, WriteRefused(p, m) PROVE ServedInv'
  BY <1>2 DEF WriteRefused, FreshInv, OwnInv, PendingInv, Afresh, ServedTakesOnce,
              ServedSlotIsTheServers, Alive
<1>3. ASSUME NEW p \in Senders, WriteReplace(p) PROVE ServedInv'
  <2>1. writing[p] \in Msg /\ writing[p] \notin sent
    BY <1>3 DEF WriteReplace, FreshInv, TypeInv, TypeOK
  <2>2. FreshInv'
    BY <1>3, <2>1 DEF WriteReplace, FreshInv, TypeInv, TypeOK
  <2>3. OwnInv'
    BY <1>3 DEF WriteReplace, OwnInv, ServedAlone, Alive
  <2>4. own' \subseteq own \cup {writing[p]} /\ slot' = writing[p] /\ UNCHANGED <<taken, pc, got>>
    BY <1>3 DEF WriteReplace
  <2>5. PendingInv'
    BY <2>1, <2>4 DEF PendingInv, Afresh, FreshInv
  <2>6. ServedTakesOnce' /\ ServedSlotIsTheServers'
    BY <2>1, <2>4 DEF ServedTakesOnce, ServedSlotIsTheServers, FreshInv
  <2> QED
    BY <2>2, <2>3, <2>5, <2>6
<1>4. ASSUME NEW b \in Boxes, RecallRead(b) PROVE ServedInv'
  BY <1>4 DEF RecallRead, FreshInv, OwnInv, PendingInv, Afresh, ServedTakesOnce,
              ServedSlotIsTheServers, TypeInv, TypeOK, Alive
<1>5. ASSUME NEW b \in Boxes, RecallUnlink(b) PROVE ServedInv'
  <2> DEFINE e == [by |-> b, msg |-> box[b]]
  <2>1. box[b] \in Msg /\ box[b] \in sent
    BY <1>5 DEF RecallUnlink, FreshInv, TypeInv, TypeOK
  <2>2. e \in [by : Readers \cup Boxes, msg : Msg] /\ taken' = Append(taken, e)
    BY <1>5, <2>1 DEF RecallUnlink
  <2>3. /\ DOMAIN taken' = DOMAIN taken \cup {Len(taken) + 1}
        /\ \A i \in DOMAIN taken : taken'[i] = taken[i]
        /\ taken'[Len(taken) + 1] = e
    BY <2>2, Grown
  <2>4. b \notin Readers /\ b \notin Repls
    BY KindsAssumption DEF Readers
  <2>5. FreshInv'
    BY <1>5, <2>1, <2>3 DEF RecallUnlink, FreshInv, TypeInv, TypeOK
  <2>6. OwnInv'
    BY <1>5 DEF RecallUnlink, OwnInv, Alive
  <2>7. slot' = None /\ UNCHANGED <<pc, got, own>> /\ own \subseteq Msg
    BY <1>5 DEF RecallUnlink, TypeInv, TypeOK
  <2>8. PendingInv'
    BY <2>3, <2>4, <2>7 DEF PendingInv, Afresh
  <2>9. ServedTakesOnce' /\ ServedSlotIsTheServers'
    BY <2>3, <2>4, <2>7 DEF ServedTakesOnce, ServedSlotIsTheServers
  <2> QED
    BY <2>5, <2>6, <2>8, <2>9
<1>6. ASSUME NEW r \in Readers, Unlink(r) PROVE ServedInv'
  <2> DEFINE e == [by |-> r, msg |-> got[r]]
  <2>1. pc[r] \in {Read, MidRead} /\ got[r] \in Msg /\ got[r] \in sent
    BY <1>6 DEF Unlink, FreshInv, TypeInv, HoldsWhatItRead
  <2>2. e \in [by : Readers \cup Boxes, msg : Msg] /\ taken' = Append(taken, e)
    BY <1>6, <2>1 DEF Unlink
  <2>3. /\ DOMAIN taken' = DOMAIN taken \cup {Len(taken) + 1}
        /\ \A i \in DOMAIN taken : taken'[i] = taken[i]
        /\ taken'[Len(taken) + 1] = e
    BY <2>2, Grown
  <2>4. /\ slot' = None /\ UNCHANGED <<own, served>>
        /\ pc' = [pc EXCEPT ![r] = IF @ = Read THEN Start ELSE Turn]
        /\ pc \in [Readers -> PC] /\ own \subseteq Msg
    BY <1>6 DEF Unlink, TypeInv, TypeOK
  <2>5. own # {} => r = served.pid /\ r \in Servers /\ r \notin Repls
    BY <2>1, OnlyTheServer, KindsAssumption DEF PastTest
  <2>6. FreshInv'
    <3>1. \A q \in Readers : pc'[q] \in {Read, MidRead} => got'[q] \in sent
      BY <1>6, <2>4 DEF Unlink, FreshInv, Start, Turn, Read, MidRead, TypeInv, TypeOK
    <3>2. \A i \in DOMAIN taken' : taken'[i].msg \in sent
      BY <2>1, <2>3 DEF FreshInv
    <3> QED
      BY <1>6, <3>1, <3>2 DEF Unlink, FreshInv
  <2>7. OwnInv'
    BY <2>1, <2>4 DEF OwnInv, Alive, PastTest, PC, Down, Dead, Idle, Look, Read, Start, Claim, Turn, MidLook, MidRead, Release, Readers
  <2>8. \A q \in Readers : own # {} => pc'[q] \notin {Read, MidRead}
    BY <2>4, <2>5, OnlyTheServer DEF PastTest, Start, Turn, Read, MidRead
  <2>9. PendingInv'
    BY <2>4, <2>8, NoneAssumption DEF PendingInv
  <2>10. \A i \in DOMAIN taken : got[r] \in own /\ taken[i].msg = got[r] => taken[i].by \notin Readers
    BY <2>1 DEF PendingInv, Afresh
  <2>11. ServedTakesOnce'
    BY <2>3, <2>4, <2>10 DEF ServedTakesOnce
  <2>12. ServedSlotIsTheServers'
    BY <2>3, <2>4, <2>5 DEF ServedSlotIsTheServers
  <2> QED
    BY <2>6, <2>7, <2>9, <2>11, <2>12
<1>7. ASSUME NEW r \in Readers, Up(r) PROVE ServedInv'
  BY <1>7 DEF Up, FreshInv, OwnInv, PendingInv, Afresh, ServedTakesOnce, ServedSlotIsTheServers,
              TypeInv, TypeOK, Alive, PastTest, Idle, Look, Read, MidLook, MidRead, Down, Dead, Readers
<1>8. ASSUME NEW r \in Readers, Leave(r) PROVE ServedInv'
  BY <1>8, NoneAssumption DEF Leave, FreshInv, OwnInv, PendingInv, Afresh, ServedTakesOnce, ServedSlotIsTheServers,
              TypeInv, TypeOK, Alive, PastTest, NoMarker, Idle, Look, Read, MidLook, MidRead, Down, Dead, Readers
<1>9. ASSUME NEW r \in Readers, Crash(r) PROVE ServedInv'
  BY <1>9 DEF Crash, FreshInv, OwnInv, PendingInv, Afresh, ServedTakesOnce, ServedSlotIsTheServers,
              TypeInv, TypeOK, Alive, PastTest, Look, Read, MidLook, MidRead, Down, Dead, Readers
<1>10. ASSUME NEW r \in Readers, Poll(r) PROVE ServedInv'
  <2>1. r \in Repls /\ own # {} => FALSE
    BY <1>10, KindsAssumption DEF Poll, StandsBack, Elsewhere, OwnInv
  <2> QED
    BY <1>10, <2>1 DEF Poll, FreshInv, OwnInv, PendingInv, Afresh, ServedTakesOnce, ServedSlotIsTheServers,
              TypeInv, TypeOK, Alive, Idle, Look, Read, MidRead, Down, Dead, Readers
<1>11. ASSUME NEW r \in Readers, MidTurnPoll(r) PROVE ServedInv'
  <2>1. r \in Repls /\ own # {} => FALSE
    BY <1>11, KindsAssumption DEF MidTurnPoll, Elsewhere, OwnInv
  <2> QED
    BY <1>11, <2>1 DEF MidTurnPoll, FreshInv, OwnInv, PendingInv, Afresh, ServedTakesOnce, ServedSlotIsTheServers,
              TypeInv, TypeOK, Alive, Turn, MidLook, Read, MidRead, Down, Dead, Readers
<1>12. ASSUME NEW r \in Readers, ReadText(r) PROVE ServedInv'
  <2>1. /\ pc[r] \in {Look, MidLook} /\ got' = [got EXCEPT ![r] = slot]
        /\ UNCHANGED <<slot, writing, box, sent, taken, own, served>>
        /\ pc \in [Readers -> PC] /\ got \in [Readers -> Msg \cup {None}]
    BY <1>12 DEF ReadText, TypeInv, TypeOK
  <2>2. /\ \A q \in Readers \ {r} : pc'[q] = pc[q] /\ got'[q] = got[q]
        /\ pc'[r] \in {Idle, Read, Turn, MidRead} /\ got'[r] = slot
        /\ pc'[r] \in {Read, MidRead} => slot # None
    BY <1>12, <2>1 DEF ReadText, Look, MidLook, Idle, Read, Turn, MidRead
  <2>3. FreshInv'
    BY <2>1, <2>2 DEF FreshInv
  <2>4. OwnInv'
    BY <2>1, <2>2 DEF OwnInv, Alive, PastTest, Idle, Look, Read, Turn, MidLook, MidRead, Down, Dead, Readers
  <2>5. PendingInv'
    BY <2>1, <2>2 DEF PendingInv, Afresh
  <2> QED
    BY <2>1, <2>3, <2>4, <2>5 DEF ServedTakesOnce, ServedSlotIsTheServers
<1>13. ASSUME NEW r \in Readers,
              OwnTurn(r) \/ ClaimTest(r) \/ ClaimReplace(r) \/ TurnEnds(r) \/ ReleaseUnlink(r)
       PROVE  ServedInv'
  <2>1. UNCHANGED <<slot, writing, box, sent, taken, own, served, got>> /\ pc \in [Readers -> PC]
    BY <1>13 DEF OwnTurn, ClaimTest, ClaimReplace, TurnEnds, ReleaseUnlink, TypeInv, TypeOK
  <2>2. \A q \in Readers \ {r} : pc'[q] = pc[q]
    BY <1>13, <2>1 DEF OwnTurn, ClaimTest, ClaimReplace, TurnEnds, ReleaseUnlink
  <2>3. pc'[r] \in {Start, Turn, Claim, Release, Idle} /\ Alive(r)
    BY <1>13, <2>1 DEF OwnTurn, ClaimTest, ClaimReplace, TurnEnds, ReleaseUnlink, Alive,
       Idle, Start, Turn, Claim, Release, Down, Dead
  <2>4. FreshInv'
    BY <2>1, <2>2, <2>3 DEF FreshInv, Start, Turn, Claim, Release, Idle, Read, MidRead
  <2>5. OwnInv'
    BY <2>1, <2>2, <2>3 DEF OwnInv, Alive, PastTest, Readers, Start, Turn, Claim, Release, Idle,
       Look, Read, MidLook, MidRead, Down, Dead
  <2>6. PendingInv'
    BY <2>1, <2>2, <2>3 DEF PendingInv, Afresh, Start, Turn, Claim, Release, Idle, Read, MidRead
  <2> QED
    BY <2>1, <2>4, <2>5, <2>6 DEF ServedTakesOnce, ServedSlotIsTheServers
<1>14. CASE BusyAges
  BY <1>14 DEF BusyAges, FreshInv, OwnInv, PendingInv, Afresh, ServedTakesOnce, ServedSlotIsTheServers, Alive
<1>15. CASE ServedAges
  <2>1. served'.fresh = FALSE /\ own' = {} /\ UNCHANGED <<slot, writing, box, pc, got, sent, taken>>
    BY <1>15 DEF ServedAges, TypeInv, TypeOK, Marker, NoMarker
  <2> QED
    BY <2>1 DEF FreshInv, OwnInv, PendingInv, ServedTakesOnce, ServedSlotIsTheServers
<1>16. CASE UNCHANGED vars
  BY <1>16 DEF FreshInv, OwnInv, PendingInv, Afresh, ServedTakesOnce, ServedSlotIsTheServers, Alive
<1> QED
  BY <1>1, <1>2, <1>3, <1>4, <1>5, <1>6, <1>7, <1>8, <1>9, <1>10, <1>11, <1>12, <1>13, <1>14, <1>15, <1>16
     DEF Next, Step, Sender, Esc, Process, Reader

LEMMA ServedAlways == Spec => []ServedInv
<1>1. TypeInv /\ [Next]_vars => TypeInv'
  BY NextType
<1>2. TypeInv /\ ServedInv /\ [Next]_vars => ServedInv'
  BY NextServed
<1> QED
  BY InitType, InitServed, <1>1, <1>2, PTL DEF Spec

(* Whatever the other processes do, the web app's own messages are read by no REPL and by
   no consumer twice.                                                                     *)
THEOREM ServedOwnsItsSlotAlways == Spec => []ServedOwnsItsSlot
<1>1. ServedInv => ServedOwnsItsSlot
  BY DEF ServedInv, ServedOwnsItsSlot
<1> QED
  BY <1>1, ServedAlways, PTL

-----------------------------------------------------------------------------
(* Whose a busy marker may be: of a process that died, which lets it age, or of one in the turn it
   claimed the marker for, which takes it away at its end.  The served marker is of a web app
   that runs or ran.                                                                           *)
BusyIsHeld ==
  busy.pid # None => \/ pc[busy.pid] \in {Dead, Release}
                     \/ lease[busy.pid] /\ pc[busy.pid] \in {Turn, MidLook, MidRead}
ServedIsHeld == served.pid # None => served.pid \in Servers /\ pc[served.pid] # Down

MarkersAreHeld == BusyIsHeld /\ ServedIsHeld

LEMMA InitHeld == Init => MarkersAreHeld
BY DEF Init, MarkersAreHeld, BusyIsHeld, ServedIsHeld, NoMarker

(* Only a claim names another process, and only of one that is about to run its turn. *)
LEMMA NextHeld == TypeInv /\ MarkersAreHeld /\ [Next]_vars => MarkersAreHeld'
<1> SUFFICES ASSUME TypeInv, MarkersAreHeld, [Next]_vars PROVE MarkersAreHeld'
  OBVIOUS
<1>0. /\ pc \in [Readers -> PC] /\ lease \in [Readers -> BOOLEAN]
      /\ busy \in Marker /\ served \in Marker
      /\ None \notin Readers /\ Servers \subseteq Readers
  BY DEF TypeInv, TypeOK, Readers
<1> USE <1>0 DEF MarkersAreHeld, BusyIsHeld, ServedIsHeld, Marker, NoMarker, file, code, vars,
      Down, Dead, Idle, Look, Read, Start, Claim, Turn, MidLook, MidRead, Release
<1>1. ASSUME NEW p \in Senders, Sender(p) PROVE MarkersAreHeld'
  BY <1>1 DEF Sender, WriteReplace, WriteTest, WriteRefused
<1>2. ASSUME NEW b \in Boxes, Esc(b) PROVE MarkersAreHeld'
  BY <1>2 DEF Esc, RecallRead, RecallUnlink
<1>3. ASSUME NEW r \in Readers, Up(r) PROVE MarkersAreHeld'
  BY <1>3 DEF Up
<1>4. ASSUME NEW r \in Readers, Leave(r) PROVE MarkersAreHeld'
  BY <1>4 DEF Leave
<1>5. ASSUME NEW r \in Readers, Crash(r) PROVE MarkersAreHeld'
  BY <1>5 DEF Crash, Alive
<1>6. ASSUME NEW r \in Readers, Poll(r) \/ MidTurnPoll(r) \/ OwnTurn(r) PROVE MarkersAreHeld'
  BY <1>6 DEF Poll, MidTurnPoll, OwnTurn
<1>7. ASSUME NEW r \in Readers, ReadText(r) PROVE MarkersAreHeld'
  BY <1>7 DEF ReadText
<1>8. ASSUME NEW r \in Readers, Unlink(r) PROVE MarkersAreHeld'
  BY <1>8 DEF Unlink
<1>9. ASSUME NEW r \in Readers, ClaimTest(r) PROVE MarkersAreHeld'
  BY <1>9 DEF ClaimTest
<1>10. ASSUME NEW r \in Readers, ClaimReplace(r) PROVE MarkersAreHeld'
  BY <1>10 DEF ClaimReplace
<1>11. ASSUME NEW r \in Readers, TurnEnds(r) PROVE MarkersAreHeld'
  BY <1>11 DEF TurnEnds
<1>12. ASSUME NEW r \in Readers, ReleaseUnlink(r) PROVE MarkersAreHeld'
  BY <1>12 DEF ReleaseUnlink
<1>13. CASE BusyAges \/ ServedAges
  BY <1>13 DEF BusyAges, ServedAges
<1>14. CASE UNCHANGED vars
  BY <1>14
<1> QED
  BY <1>1, <1>2, <1>3, <1>4, <1>5, <1>6, <1>7, <1>8, <1>9, <1>10, <1>11, <1>12, <1>13, <1>14
     DEF Next, Step, Process, Reader

(* No marker is left that keeps the others from the slot for good, however claims, releases and
   deaths of processes fall between each other's tests and replaces: somebody is there to take
   it away, or nobody refreshes it (the safety of PendingIsTaken).                             *)
THEOREM MarkersAreHeldAlways == Spec => []MarkersAreHeld
BY InitType, NextType, InitHeld, NextHeld, PTL DEF Spec
=============================================================================
