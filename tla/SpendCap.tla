------------------------------ MODULE SpendCap ------------------------------
(***************************************************************************)
(* What the spend gate promises, with no process and no ledger in it: one  *)
(* budget, calls admitted only below its cap, every answered call counted, *)
(* one soft trip in each period (providers/spend_gate.py, the module       *)
(* docstring).  A call in flight may be lost and then is not counted.      *)
(***************************************************************************)
EXTENDS Integers

CONSTANTS Calls,  \* the calls that may be in flight together
          Money   \* the amounts a budget and a cost may be

VARIABLES budget,  \* [armed, cap, reserve, base, floor, counted, soft]
          flight   \* the calls in flight

vars == <<budget, flight>>

Blank == [armed |-> FALSE, cap |-> 0, reserve |-> 0, base |-> 0, floor |-> 0, counted |-> 0,
          soft |-> FALSE]

Spent(g) == IF g.base + g.counted >= g.floor THEN g.base + g.counted ELSE g.floor

Init == budget = Blank /\ flight = {}

(* The vessel pushes its row.  The first push, and a floor below the base, re-base. *)
Pushed(g, c, r, f) ==
  LET rebase == ~g.armed \/ f < g.base
  IN  [armed |-> TRUE, cap |-> c, reserve |-> r, floor |-> f,
       base |-> IF rebase THEN f ELSE g.base,
       counted |-> IF rebase THEN 0 ELSE g.counted,
       soft |-> g.soft /\ ~rebase]

Push(c, r, f) == r <= c /\ budget' = Pushed(budget, c, r, f) /\ UNCHANGED flight

Admit(k) == /\ k \notin flight
            /\ budget.armed => Spent(budget) < budget.cap
            /\ flight' = flight \cup {k}
            /\ UNCHANGED budget

Answer(k, cost) ==
  /\ k \in flight
  /\ flight' = flight \ {k}
  /\ budget' = IF budget.armed THEN [budget EXCEPT !.counted = @ + cost] ELSE budget

Lose(S) == flight' = flight \ S /\ UNCHANGED budget

Trip == /\ ~budget.soft /\ budget.armed
        /\ Spent(budget) >= budget.cap - budget.reserve
        /\ budget' = [budget EXCEPT !.soft = TRUE]
        /\ UNCHANGED flight

Next == \/ \E S \in SUBSET flight : Lose(S)
        \/ \E k \in Calls : Admit(k) \/ \E cost \in Money : Answer(k, cost)
        \/ Trip
        \/ \E c, r, f \in Money : Push(c, r, f)

Spec == Init /\ [][Next]_vars
=============================================================================
