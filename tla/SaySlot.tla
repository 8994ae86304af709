------------------------------ MODULE SaySlot ------------------------------
(***************************************************************************)
(* What the say inbox promises, with no files in it: one slot that holds   *)
(* at most one message, refuses a second one while the first is pending,   *)
(* and hands every message it accepted over once, in the order accepted    *)
(* (session/say_inbox.py, the module docstring's "Single slot" and         *)
(* "Exactly-once delivery").                                               *)
(***************************************************************************)
EXTENDS Sequences

CONSTANTS Msg,   \* the messages that may be sent, each at most once
          None   \* the empty slot

VARIABLES pending,  \* the message waiting, or None
          sent,     \* every message ever accepted
          taken     \* the messages handed over, in order

vars == <<pending, sent, taken>>

Init == pending = None /\ sent = {} /\ taken = <<>>

Send(m) == /\ pending = None
           /\ m \notin sent
           /\ pending' = m
           /\ sent' = sent \cup {m}
           /\ UNCHANGED taken

Take == /\ pending # None
        /\ taken' = Append(taken, pending)
        /\ pending' = None
        /\ UNCHANGED sent

Next == Take \/ \E m \in Msg : Send(m)

Spec == Init /\ [][Next]_vars
=============================================================================
