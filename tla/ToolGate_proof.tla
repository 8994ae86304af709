--------------------------- MODULE ToolGate_proof ---------------------------
(***************************************************************************)
(* Proofs about ToolGate for every set of calls, postures and sub-agents,  *)
(* batches of any length, and any number of Agents made on the session.    *)
(*                                                                         *)
(* The invariant says of each call, by the stage it is at, what the gate   *)
(* knew of it when it let it that far (GoodItem); of each loop, that its   *)
(* grants are the operator's and its denials at least his (WordInv); and   *)
(* of a batch, that one call is worked on at a time unless all are         *)
(* (OrderInv).                                                             *)
(***************************************************************************)
EXTENDS ToolGate, TLAPS

Types ==
  /\ posture \in Postures
  /\ mem \in [Loops -> Memory] /\ doc \in Memory
  /\ item \in [Loops -> [Slots -> Item]] /\ par \in [Loops -> BOOLEAN]
  /\ live \subseteq Children /\ opens \in 1..MaxOpen /\ words \in 0..MaxWords
  /\ said \in [Loops -> Memory] /\ kept \subseteq Calls

(* A call of a batch that is worked through in order has left only finished ones behind. *)
OrderInv ==
  \A l \in Loops : ~par[l] =>
    \A i, j \in Slots : j < i /\ item[l][i].at \notin {"none", "wait"} => item[l][j].at = "done"

(* A loop that does not run has no calls. *)
LiveInv == \A l \in Loops : ~Runs(l) => \A i \in Slots : item[l][i].at = "none"

(* What a call that passed the gate passed it on. *)
Passed(p, s, r) ==
  \/ r.how = "yes"
  \/ r.how = "auto" /\ Verdict(p, r.asked) = "ALLOW"
  \/ /\ r.how = "grant"
     /\ ~r.asked.danger /\ ~Undeclared(p, r.asked) /\ r.asked.path = "plain"
     /\ \E g \in s.allow : g.tool = r.asked.tool /\ Looseness[g.mode] <= Looseness[p.mode]

GoodItem(p, s, r) ==
  /\ r.at \in {"wait", "ask", "hook", "run"} => r.asked \in Calls
  /\ r.at \in {"wait", "ask", "hook"} => r.now = r.asked
  /\ r.at \in {"ask", "hook", "run"} => ~r.late
  /\ r.at = "ask" => ~r.harness
  /\ r.at \in {"hook", "run"} => Passed(p, s, r)
  /\ r.at = "run" => /\ r.now \in Calls /\ r.now.tool = r.asked.tool
                     /\ r.now = r.asked \/ ~RewriteRefused(p, r.asked, r.now)

ItemInv == \A l \in Loops, i \in Slots : GoodItem(posture, said[l], item[l][i])

(* A call of the harness is alone, and would still go through. *)
HarnessInv ==
  \A l \in Loops, i \in Slots :
    item[l][i].harness /\ item[l][i].at = "wait" =>
      /\ AutoAllows(posture, mem[l], item[l][i].asked)
      /\ \A j \in Slots : j # i => item[l][j].at = "none"

(* A loop's grants are the operator's to it, none looser than its posture; its denials, and the
   saved ones, are at least his.                                                               *)
WordInv ==
  /\ \A l \in Loops :
       /\ said[l].deny \subseteq mem[l].deny
       /\ \A g \in mem[l].allow :
            g \in said[l].allow /\ Looseness[g.mode] <= Looseness[posture.mode]
  /\ doc.allow \subseteq said[Root].allow
  /\ kept \subseteq doc.deny

Inv == Types /\ OrderInv /\ LiveInv /\ ItemInv /\ HarnessInv /\ WordInv

-----------------------------------------------------------------------------
LEMMA CountOn == ASSUME NEW m \in Nat, NEW n \in 0..m, n < m PROVE n + 1 \in 0..m
  OBVIOUS

(* What authorize answers, and that auto_allows foretells it. *)
LEMMA Gated ==
  ASSUME NEW p, NEW m, NEW c
  PROVE  /\ Authorized(p, m, c) \in {"refused", "grant", "auto", "ask"}
         /\ c \in m.deny => Authorized(p, m, c) = "refused"
         /\ Authorized(p, m, c) = "grant" => Covered(p, m, c)
         /\ Authorized(p, m, c) = "auto" => Verdict(p, c) = "ALLOW"
         /\ AutoAllows(p, m, c) => Authorized(p, m, c) # "ask"
  BY DEF Authorized, AutoAllows

(* A call that is let through unasked is below every floor. *)
LEMMA Floors ==
  ASSUME NEW p, NEW c, Verdict(p, c) = "ALLOW"
  PROVE  /\ ~c.danger
         /\ "bypass" \notin Both(p, c.tool) => ~Undeclared(p, c) /\ ~Protected(c)
  BY DEF Verdict, Escalated, Floored

LEMMA LoosenessIsNat == Looseness \in [Modes -> Nat]
  BY DEF Looseness, Modes

LEMMA NoItemFacts ==
  /\ NoItem \in Item /\ NoItem.at = "none" /\ ~NoItem.harness
  /\ Done \in Item /\ Done.at = "done" /\ ~Done.harness
  BY DEF NoItem, Done, Item

(* A call in its place, before its turn comes. *)
LEMMA WaitingFacts ==
  ASSUME NEW c \in Calls, NEW own \in BOOLEAN, NEW p, NEW s
  PROVE  /\ Waiting(c, own) \in Item /\ Waiting(c, own).at = "wait" /\ Waiting(c, own).asked = c
         /\ Waiting(c, own).harness = own /\ GoodItem(p, s, Waiting(c, own))
  BY DEF NoItem, Waiting, Item, GoodItem

LEMMA NoItemIsGood ==
  ASSUME NEW p, NEW s
  PROVE  GoodItem(p, s, NoItem) /\ GoodItem(p, s, Done)
  BY NoItemFacts DEF GoodItem

(* What was let through stays so when the operator says more. *)
LEMMA GoodGrows ==
  ASSUME NEW p, NEW s, NEW t, NEW r, s.allow \subseteq t.allow, GoodItem(p, s, r)
  PROVE  GoodItem(p, t, r)
  BY DEF GoodItem, Passed

LEMMA InitInv == Init => Inv
<1> SUFFICES ASSUME Init PROVE Inv
  OBVIOUS
<1>1. \A l \in Loops : \A i \in Slots : item[l][i] = NoItem
  BY DEF Init, Blank
<1>2. Nothing \in Memory /\ Nothing.allow = {} /\ Nothing.deny = {}
  BY DEF Nothing, Memory
<1>3. Types
  BY <1>2, NoItemFacts, SizeAssumption DEF Init, Types, Blank
<1>4. OrderInv /\ LiveInv /\ HarnessInv
  BY <1>1, NoItemFacts DEF OrderInv, LiveInv, HarnessInv
<1>5. ItemInv
  BY <1>1, NoItemIsGood DEF ItemInv
<1>6. WordInv
  BY <1>2, LoopAssumption DEF Init, WordInv, Loops
<1> QED
  BY <1>3, <1>4, <1>5, <1>6 DEF Inv

-----------------------------------------------------------------------------
(* One call goes a stage further, and the operator may say something about the session. *)
LEMMA PutInv ==
  ASSUME Inv, NEW l \in Loops, NEW i \in Slots, NEW r \in Item, Put(l, i, r),
         UNCHANGED <<posture, doc, par, live, opens, kept>>, words' \in 0..MaxWords,
         r.at \notin {"none", "wait"}, item[l][i].at \notin {"none", "done"},
         item[l][i].at = "wait" => NextUp(l, i),
         GoodItem(posture, said'[l], r),
         \/ UNCHANGED <<mem, said>>
         \/ /\ item[l][i].at = "ask"
            /\ mem' \in [Loops -> Memory] /\ said' \in [Loops -> Memory]
            /\ \A k \in Loops : k # l => mem'[k] = mem[k] /\ said'[k] = said[k]
            /\ said[l].allow \subseteq said'[l].allow
            /\ WordInv'
  PROVE  Inv'
<1>0. Types /\ OrderInv /\ LiveInv /\ ItemInv /\ HarnessInv /\ WordInv
  BY DEF Inv
<1>1. /\ item' \in [Loops -> [Slots -> Item]] /\ item'[l][i] = r
      /\ \A k \in Loops, j \in Slots : k # l \/ j # i => item'[k][j] = item[k][j]
  BY <1>0 DEF Types, Put
<1>2. Types'
  BY <1>0, <1>1 DEF Types
<1>3. OrderInv'
  <2> SUFFICES ASSUME NEW k \in Loops, ~par[k], NEW a \in Slots, NEW b \in Slots, b < a,
                      item'[k][a].at \notin {"none", "wait"}
               PROVE  item'[k][b].at = "done"
    BY DEF OrderInv
  <2> a \in Nat /\ b \in Nat /\ i \in Nat
    BY SizeAssumption DEF Slots
  <2>1. CASE k # l
    BY <1>0, <1>1, <2>1 DEF OrderInv
  <2>2. CASE k = l /\ a = i
    <3>1. item[l][b].at = "done"
      BY <1>0, <2>2 DEF OrderInv, NextUp
    <3> QED
      BY <1>1, <2>2, <3>1
  <2>3. CASE k = l /\ a # i
    BY <1>0, <1>1, <2>3 DEF OrderInv
  <2> QED
    BY <2>1, <2>2, <2>3
<1>4. LiveInv'
  BY <1>0, <1>1 DEF LiveInv, Runs
<1>5. ItemInv'
  <2> SUFFICES ASSUME NEW k \in Loops, NEW j \in Slots
               PROVE  GoodItem(posture, said'[k], item'[k][j])
    BY DEF ItemInv
  <2>1. CASE k = l /\ j = i
    BY <1>1, <2>1
  <2>2. CASE k # l \/ j # i
    <3>1. said[k].allow \subseteq said'[k].allow
      OBVIOUS
    <3>2. GoodItem(posture, said[k], item[k][j])
      BY <1>0 DEF ItemInv
    <3> QED
      BY <1>1, <2>2, <3>1, <3>2, GoodGrows
  <2> QED
    BY <2>1, <2>2
<1>6. HarnessInv'
  <2> SUFFICES ASSUME NEW k \in Loops, NEW j \in Slots, item'[k][j].harness, item'[k][j].at = "wait"
               PROVE  /\ AutoAllows(posture, mem'[k], item'[k][j].asked)
                      /\ \A a \in Slots : a # j => item'[k][a].at = "none"
    BY DEF HarnessInv
  <2>1. k # l
    BY <1>0, <1>1 DEF HarnessInv
  <2>2. mem'[k] = mem[k] /\ \A a \in Slots : item'[k][a] = item[k][a]
    BY <1>1, <2>1
  <2> QED
    BY <1>0, <2>2 DEF HarnessInv
<1>7. WordInv'
  BY <1>0 DEF WordInv
<1> QED
  BY <1>2, <1>3, <1>4, <1>5, <1>6, <1>7 DEF Inv

(* A loop's calls are set anew: a batch, a call of the harness, or none. *)
LEMMA SetInv ==
  ASSUME Inv, NEW l \in Loops, NEW f \in [Slots -> Item], item' = [item EXCEPT ![l] = f],
         par' \in [Loops -> BOOLEAN], \A k \in Loops : k # l => par'[k] = par[k],
         UNCHANGED <<posture, mem, live, opens, words, said>>,
         doc' \in Memory, kept' \subseteq Calls, WordInv',
         \A i \in Slots : f[i].at \in {"none", "wait"} /\ GoodItem(posture, said[l], f[i]),
         Runs(l) \/ \A i \in Slots : f[i].at = "none",
         \A i \in Slots : f[i].harness /\ f[i].at = "wait" =>
            /\ AutoAllows(posture, mem[l], f[i].asked)
            /\ \A j \in Slots : j # i => f[j].at = "none"
  PROVE  Inv'
<1>0. Types /\ OrderInv /\ LiveInv /\ ItemInv /\ HarnessInv
  BY DEF Inv
<1>1. /\ item' \in [Loops -> [Slots -> Item]] /\ item'[l] = f
      /\ \A k \in Loops : k # l => item'[k] = item[k]
  BY <1>0 DEF Types
<1>2. Types'
  BY <1>0, <1>1 DEF Types
<1>3. OrderInv'
  BY <1>0, <1>1 DEF OrderInv
<1>4. LiveInv'
  BY <1>0, <1>1 DEF LiveInv, Runs
<1>5. ItemInv'
  BY <1>0, <1>1 DEF ItemInv
<1>6. HarnessInv'
  <2> SUFFICES ASSUME NEW k \in Loops, NEW i \in Slots, item'[k][i].harness, item'[k][i].at = "wait"
               PROVE  /\ AutoAllows(posture, mem[k], item'[k][i].asked)
                      /\ \A j \in Slots : j # i => item'[k][j].at = "none"
    BY DEF HarnessInv
  <2>1. CASE k = l
    BY <1>1, <2>1
  <2>2. CASE k # l
    BY <1>0, <1>1, <2>2 DEF HarnessInv
  <2> QED
    BY <2>1, <2>2
<1> QED
  BY <1>2, <1>3, <1>4, <1>5, <1>6 DEF Inv

(* Nothing runs any more. *)
LEMMA BlankInv ==
  ASSUME item' = [l \in Loops |-> Blank], par' = [l \in Loops |-> FALSE], live' = {},
         posture' \in Postures, mem' \in [Loops -> Memory], doc' \in Memory,
         opens' \in 1..MaxOpen, words' \in 0..MaxWords, said' \in [Loops -> Memory],
         kept' \subseteq Calls, WordInv'
  PROVE  Inv'
<1>1. Blank \in [Slots -> Item] /\ \A i \in Slots : Blank[i] = NoItem
  BY NoItemFacts DEF Blank
<1>2. \A l \in Loops, i \in Slots : item'[l][i] = NoItem
  BY <1>1
<1>3. Types'
  BY <1>1 DEF Types
<1>4. OrderInv' /\ LiveInv' /\ HarnessInv'
  BY <1>2, NoItemFacts DEF OrderInv, LiveInv, HarnessInv
<1>5. ItemInv'
  <2>1. \A l \in Loops, i \in Slots : GoodItem(posture', said'[l], item'[l][i])
    BY <1>2, NoItemIsGood
  <2> QED
    BY <2>1 DEF ItemInv
<1> QED
  BY <1>3, <1>4, <1>5 DEF Inv

-----------------------------------------------------------------------------
(* The stages of a call. *)
LEMMA GateInv == ASSUME Inv, NEW l \in Loops, NEW i \in Slots, Gate(l, i) PROVE Inv'
<1> DEFINE r == item[l][i]
           a == Authorized(posture, mem[l], r.asked)
           late == r.asked \in said[l].deny
           s == [r EXCEPT !.late = late]
<1>1. /\ r \in Item /\ r.at = "wait" /\ NextUp(l, i) /\ said[l].deny \subseteq mem[l].deny
      /\ GoodItem(posture, said[l], r) /\ words \in 0..MaxWords
  BY DEF Inv, Types, ItemInv, WordInv, Gate, NextUp
<1>2. UNCHANGED <<posture, mem, doc, par, live, opens, words, said, kept>>
  BY DEF Gate
<1>3. r.asked \in Calls /\ r.now = r.asked
  BY <1>1 DEF GoodItem
<1>4. late \in BOOLEAN
  OBVIOUS
<1>5. CASE a = "refused"
  <2>1. Put(l, i, Done)
    BY <1>5 DEF Gate
  <2> QED
    BY <1>1, <1>2, <2>1, NoItemFacts, NoItemIsGood, PutInv
<1>6. CASE a = "ask"
  <2> DEFINE t == [s EXCEPT !.at = "ask"]
  <2>1. Put(l, i, t)
    BY <1>6 DEF Gate
  <2>2. t \in Item /\ t.at = "ask" /\ t.asked = r.asked /\ t.now = r.now /\ t.harness = r.harness
        /\ t.late = late
    <3> HIDE DEF late, a, r
    <3> QED
      BY <1>1, <1>4 DEF Item
  <2>3. ~t.late
    BY <1>1, <1>6, <2>2, Gated
  <2>4. ~t.harness
    <3>1. r.harness => AutoAllows(posture, mem[l], r.asked)
      BY <1>1 DEF Inv, HarnessInv
    <3> QED
      BY <1>6, <2>2, <3>1, Gated
  <2> HIDE DEF t
  <2>5. GoodItem(posture, said[l], t)
    BY <1>3, <2>2, <2>3, <2>4 DEF GoodItem
  <2> QED
    BY <1>1, <1>2, <2>1, <2>2, <2>5, PutInv
<1>7. CASE a \in {"grant", "auto"}
  <2> DEFINE t == [s EXCEPT !.at = "hook", !.how = a]
  <2>1. Put(l, i, t)
    BY <1>7 DEF Gate
  <2>2. t \in Item /\ t.at = "hook" /\ t.asked = r.asked /\ t.now = r.now /\ t.how = a
        /\ t.late = late
    <3> HIDE DEF late, a, r
    <3> QED
      BY <1>1, <1>4, <1>7, Zenon DEF Item
  <2>3. ~t.late
    BY <1>1, <1>7, <2>2, Gated
  <2>4. Passed(posture, said[l], t)
    <3>1. CASE a = "auto"
      BY <2>2, <3>1, Gated DEF Passed
    <3>2. CASE a = "grant"
      <4>1. Covered(posture, mem[l], r.asked)
        BY <3>2, Gated
      <4>2. \A g \in mem[l].allow : g \in said[l].allow /\ Looseness[g.mode] <= Looseness[posture.mode]
        BY DEF Inv, WordInv
      <4> QED
        BY <2>2, <3>2, <4>1, <4>2 DEF Passed, Covered
    <3> QED
      BY <1>7, <3>1, <3>2
  <2> HIDE DEF t
  <2>5. GoodItem(posture, said[l], t)
    BY <1>3, <2>2, <2>3, <2>4 DEF GoodItem
  <2> QED
    BY <1>1, <1>2, <2>1, <2>2, <2>5, PutInv
<1> QED
  BY <1>5, <1>6, <1>7, Gated

LEMMA AnswerInv == ASSUME Inv, NEW l \in Loops, NEW i \in Slots, Answer(l, i) PROVE Inv'
<1> DEFINE r == item[l][i]
           t == [r EXCEPT !.at = "hook", !.how = "yes"]
<1>1. /\ r \in Item /\ r.at = "ask" /\ GoodItem(posture, said[l], r) /\ words \in 0..MaxWords
      /\ UNCHANGED <<posture, mem, doc, par, live, opens, words, said, kept>>
      /\ Put(l, i, t) \/ Put(l, i, Done)
  BY DEF Inv, Types, ItemInv, Answer
<1>2. t \in Item /\ t.at = "hook" /\ t.how = "yes" /\ t.asked = r.asked /\ t.now = r.now /\ t.late = r.late
  BY <1>1 DEF Item
<1> HIDE DEF t
<1>3. GoodItem(posture, said[l], t)
  BY <1>1, <1>2 DEF GoodItem, Passed
<1> QED
  BY <1>1, <1>2, <1>3, NoItemFacts, NoItemIsGood, PutInv

LEMMA AnswerForSessionInv ==
  ASSUME Inv, NEW l \in Loops, NEW i \in Slots, AnswerForSession(l, i) PROVE Inv'
<1> DEFINE r == item[l][i]
           g == [tool |-> r.asked.tool, mode |-> posture.mode]
           t == [r EXCEPT !.at = "hook", !.how = "yes"]
<1>1. /\ r \in Item /\ r.at = "ask" /\ GoodItem(posture, said[l], r)
      /\ words' \in 0..MaxWords /\ UNCHANGED <<posture, doc, par, live, opens, kept>>
  BY CountOn, SizeAssumption DEF Inv, Types, ItemInv, AnswerForSession
<1>2. /\ mem \in [Loops -> Memory] /\ said \in [Loops -> Memory] /\ WordInv
      /\ posture.mode \in Modes /\ r.asked \in Calls /\ r.asked.tool \in Tools
  BY <1>1, PostureAssumption, CallAssumption DEF Inv, Types, GoodItem, Posture, Call
<1>3. t \in Item /\ t.at = "hook" /\ t.how = "yes" /\ t.asked = r.asked /\ t.now = r.now /\ t.late = r.late
  BY <1>1 DEF Item
<1>4. CASE /\ Put(l, i, t)
           /\ mem' = [mem EXCEPT ![l].allow = @ \cup {g}]
           /\ said' = [said EXCEPT ![l].allow = @ \cup {g}]
  <2>1. g \in Grant /\ Looseness[g.mode] <= Looseness[posture.mode]
    BY <1>2, LoosenessIsNat DEF Grant
  <2> HIDE DEF g, t
  <2>2. /\ mem' \in [Loops -> Memory] /\ said' \in [Loops -> Memory]
        /\ \A k \in Loops : k # l => mem'[k] = mem[k] /\ said'[k] = said[k]
        /\ mem'[l].allow = mem[l].allow \cup {g} /\ mem'[l].deny = mem[l].deny
        /\ said'[l].allow = said[l].allow \cup {g} /\ said'[l].deny = said[l].deny
    BY <1>2, <1>4, <2>1 DEF Memory
  <2>3. WordInv'
    BY <1>1, <1>2, <2>1, <2>2, LoopAssumption DEF WordInv, Loops
  <2>4. GoodItem(posture, said'[l], t)
    BY <1>1, <1>3 DEF GoodItem, Passed
  <2> QED
    BY <1>1, <1>3, <1>4, <2>2, <2>3, <2>4, PutInv
<1>5. CASE /\ Put(l, i, Done)
           /\ mem' = [mem EXCEPT ![l].deny = @ \cup {r.asked}]
           /\ said' = [said EXCEPT ![l].deny = @ \cup {r.asked}]
  <2>1. /\ mem' \in [Loops -> Memory] /\ said' \in [Loops -> Memory]
        /\ \A k \in Loops : k # l => mem'[k] = mem[k] /\ said'[k] = said[k]
        /\ mem'[l].allow = mem[l].allow /\ mem'[l].deny = mem[l].deny \cup {r.asked}
        /\ said'[l].allow = said[l].allow /\ said'[l].deny = said[l].deny \cup {r.asked}
    BY <1>2, <1>5 DEF Memory
  <2>2. WordInv'
    BY <1>1, <1>2, <2>1, LoopAssumption DEF WordInv, Loops
  <2> QED
    BY <1>1, <1>5, <2>1, <2>2, NoItemFacts, NoItemIsGood, PutInv
<1> QED
  BY <1>4, <1>5 DEF AnswerForSession

LEMMA HooksInv == ASSUME Inv, NEW l \in Loops, NEW i \in Slots, Hooks(l, i) PROVE Inv'
<1> DEFINE r == item[l][i]
           t == [r EXCEPT !.at = "run"]
           u(c) == [r EXCEPT !.at = "run", !.now = c]
<1>1. /\ r \in Item /\ r.at = "hook" /\ GoodItem(posture, said[l], r) /\ words \in 0..MaxWords
      /\ UNCHANGED <<posture, mem, doc, par, live, opens, words, said, kept>>
  BY DEF Inv, Types, ItemInv, Hooks
<1>2. r.asked \in Calls /\ r.now = r.asked /\ ~r.late /\ Passed(posture, said[l], r)
  BY <1>1 DEF GoodItem
<1>3. CASE Put(l, i, Done)
  BY <1>1, <1>3, NoItemFacts, NoItemIsGood, PutInv
<1>4. CASE Put(l, i, t)
  <2>1. t \in Item /\ t.at = "run" /\ t.how = r.how /\ t.asked = r.asked /\ t.now = r.now /\ ~t.late
    BY <1>1, <1>2 DEF Item
  <2> HIDE DEF t
  <2>2. GoodItem(posture, said[l], t)
    BY <1>2, <2>1 DEF GoodItem, Passed
  <2> QED
    BY <1>1, <1>4, <2>1, <2>2, PutInv
<1>5. ASSUME NEW c \in Calls, c.tool = r.asked.tool, ~RewriteRefused(posture, r.asked, c), Put(l, i, u(c))
      PROVE  Inv'
  <2> DEFINE v == u(c)
  <2>1. v \in Item /\ v.at = "run" /\ v.how = r.how /\ v.asked = r.asked /\ v.now = c /\ ~v.late
    BY <1>1, <1>2 DEF Item
  <2>2. Put(l, i, v)
    BY <1>5
  <2> HIDE DEF v
  <2>3. GoodItem(posture, said[l], v)
    BY <1>2, <1>5, <2>1 DEF GoodItem, Passed
  <2> QED
    BY <1>1, <2>1, <2>2, <2>3, PutInv
<1> QED
  BY <1>3, <1>4, <1>5 DEF Hooks

LEMMA DropInv ==
  ASSUME Inv, NEW l \in Loops, NEW i \in Slots, Withheld(l, i) \/ Ran(l, i) PROVE Inv'
<1>1. /\ item[l][i].at \in {"wait", "run"} /\ (item[l][i].at = "wait" => NextUp(l, i))
      /\ Put(l, i, Done) /\ words \in 0..MaxWords
      /\ UNCHANGED <<posture, mem, doc, par, live, opens, words, said, kept>>
  BY DEF Withheld, Ran, NextUp, Inv, Types
<1> QED
  BY <1>1, NoItemFacts, NoItemIsGood, PutInv

-----------------------------------------------------------------------------
(* The coming and going of batches, sub-agents, and Agents. *)
LEMMA BatchInv == ASSUME Inv, NEW l \in Loops, Batch(l) PROVE Inv'
<1>1. PICK n \in Slots, b \in UNION {[1..k -> Calls] : k \in Slots} :
        /\ b \in [1..n -> Calls]
        /\ item' = [item EXCEPT ![l] = [i \in Slots |-> IF i <= n THEN Waiting(b[i], FALSE) ELSE NoItem]]
  <2>1. PICK n \in Slots : \E b \in [1..n -> {c \in Calls : l = Root \/ c.tool # "task"}] :
          item' = [item EXCEPT ![l] = [i \in Slots |-> IF i <= n THEN Waiting(b[i], FALSE) ELSE NoItem]]
    BY DEF Batch
  <2>2. PICK b \in [1..n -> {c \in Calls : l = Root \/ c.tool # "task"}] :
          item' = [item EXCEPT ![l] = [i \in Slots |-> IF i <= n THEN Waiting(b[i], FALSE) ELSE NoItem]]
    BY <2>1
  <2>3. b \in [1..n -> Calls]
    OBVIOUS
  <2> QED
    BY <2>2, <2>3
<1> DEFINE f == [i \in Slots |-> IF i <= n THEN Waiting(b[i], FALSE) ELSE NoItem]
<1>2. ASSUME NEW i \in Slots
      PROVE  /\ f[i] \in Item /\ f[i].at \in {"none", "wait"} /\ ~f[i].harness
             /\ GoodItem(posture, said[l], f[i])
  <2>1. CASE i <= n
    <3>1. b[i] \in Calls
      BY <1>1, <2>1, SizeAssumption DEF Slots
    <3>2. f[i] = Waiting(b[i], FALSE)
      BY <2>1
    <3> HIDE DEF f
    <3> QED
      BY <3>1, <3>2, WaitingFacts
  <2>2. CASE ~(i <= n)
    BY <2>2, NoItemFacts, NoItemIsGood
  <2> QED
    BY <2>1, <2>2
<1>3. f \in [Slots -> Item]
  BY <1>2
<1>4. item' = [item EXCEPT ![l] = f]
  BY <1>1
<1> HIDE DEF f
<1>5. /\ Runs(l) /\ par' \in [Loops -> BOOLEAN] /\ \A k \in Loops : k # l => par'[k] = par[k]
      /\ UNCHANGED <<posture, mem, doc, live, opens, words, said, kept>>
  BY DEF Batch, Inv, Types
<1>6. doc' \in Memory /\ kept' \subseteq Calls /\ WordInv'
  BY <1>5 DEF Inv, Types, WordInv
<1> QED
  BY <1>2, <1>3, <1>4, <1>5, <1>6, SetInv

LEMMA HarnessCallInv == ASSUME Inv, NEW l \in Loops, HarnessCall(l) PROVE Inv'
<1>1. PICK c \in Calls : /\ AutoAllows(posture, mem[l], c)
                         /\ item' = [item EXCEPT ![l][1] = Waiting(c, TRUE)]
  BY DEF HarnessCall
<1> DEFINE f == [item[l] EXCEPT ![1] = Waiting(c, TRUE)]
<1>2. item \in [Loops -> [Slots -> Item]] /\ 1 \in Slots
  BY SizeAssumption DEF Inv, Types, Slots
<1>a. /\ Waiting(c, TRUE) \in Item /\ Waiting(c, TRUE).at = "wait" /\ Waiting(c, TRUE).asked = c
      /\ GoodItem(posture, said[l], Waiting(c, TRUE))
  BY WaitingFacts
<1>3. /\ f \in [Slots -> Item] /\ f[1] = Waiting(c, TRUE)
      /\ \A i \in Slots : i # 1 => f[i] = item[l][i]
      /\ item' = [item EXCEPT ![l] = f]
  BY <1>1, <1>2, <1>a
<1> HIDE DEF f
<1>4. /\ Runs(l) /\ par' \in [Loops -> BOOLEAN] /\ \A k \in Loops : k # l => par'[k] = par[k]
      /\ UNCHANGED <<posture, mem, doc, live, opens, words, said, kept>>
      /\ \A i \in Slots : item[l][i].at = "none" /\ GoodItem(posture, said[l], item[l][i])
  BY DEF HarnessCall, Between, Inv, Types, ItemInv
<1>5. doc' \in Memory /\ kept' \subseteq Calls /\ WordInv'
  BY <1>4 DEF Inv, Types, WordInv
<1>6. /\ f[1].at = "wait" /\ f[1].asked = c /\ GoodItem(posture, said[l], f[1])
      /\ \A i \in Slots : i # 1 => f[i].at = "none" /\ GoodItem(posture, said[l], f[i])
  BY <1>3, <1>4, <1>a
<1>7. \A i \in Slots : f[i].harness /\ f[i].at = "wait" =>
         /\ AutoAllows(posture, mem[l], f[i].asked)
         /\ \A j \in Slots : j # i => f[j].at = "none"
  BY <1>1, <1>6
<1>8. \A i \in Slots : f[i].at \in {"none", "wait"} /\ GoodItem(posture, said[l], f[i])
  BY <1>6
<1> QED
  BY <1>3, <1>4, <1>5, <1>7, <1>8, SetInv

LEMMA BatchEndsInv == ASSUME Inv, NEW l \in Loops, BatchEnds(l) PROVE Inv'
<1>1. /\ Blank \in [Slots -> Item]
      /\ \A i \in Slots : Blank[i].at = "none" /\ GoodItem(posture, said[l], Blank[i]) /\ ~Blank[i].harness
  BY NoItemFacts, NoItemIsGood DEF Blank
<1>2. /\ item' = [item EXCEPT ![l] = Blank]
      /\ par' \in [Loops -> BOOLEAN] /\ \A k \in Loops : k # l => par'[k] = par[k]
      /\ UNCHANGED <<posture, mem, live, opens, words, said>>
  BY DEF BatchEnds, Inv, Types
<1>3. doc' \in Memory /\ kept' \subseteq Calls /\ WordInv'
  <2>1. CASE l = Root
    <3>1. doc' = mem[Root] /\ kept' = said[Root].deny
      BY <2>1 DEF BatchEnds
    <3> QED
      BY <1>2, <2>1, <3>1 DEF Inv, Types, WordInv, Memory
  <2>2. CASE l # Root
    <3>1. UNCHANGED <<doc, kept>>
      BY <2>2 DEF BatchEnds
    <3> QED
      BY <1>2, <3>1 DEF Inv, Types, WordInv
  <2> QED
    BY <2>1, <2>2
<1> HIDE DEF Blank
<1> QED
  BY <1>1, <1>2, <1>3, SetInv

LEMMA SaveInv == ASSUME Inv, Save PROVE Inv'
<1>1. /\ doc' = mem[Root] /\ kept' = said[Root].deny /\ Root \in Loops
      /\ UNCHANGED <<posture, mem, item, par, live, opens, words, said>>
  BY DEF Save, Loops
<1>2. Types' /\ WordInv'
  BY <1>1 DEF Inv, Types, WordInv, Memory
<1>3. OrderInv' /\ LiveInv' /\ ItemInv' /\ HarnessInv'
  BY <1>1 DEF Inv, OrderInv, LiveInv, ItemInv, HarnessInv, Runs
<1> QED
  BY <1>2, <1>3 DEF Inv

LEMMA DelegateInv == ASSUME Inv, NEW c \in Children, Delegate(c) PROVE Inv'
<1>1. /\ c \notin live /\ live' = live \cup {c} /\ c \in Loops /\ c # Root
      /\ mem' = [mem EXCEPT ![c] = Nothing] /\ said' = [said EXCEPT ![c] = Nothing]
      /\ UNCHANGED <<posture, doc, item, par, opens, words, kept>>
      /\ Nothing \in Memory /\ Nothing.allow = {} /\ Nothing.deny = {}
  BY LoopAssumption DEF Delegate, Loops, Nothing, Memory
<1> HIDE DEF Nothing
<1>2. /\ mem' \in [Loops -> Memory] /\ said' \in [Loops -> Memory]
      /\ \A k \in Loops : k # c => mem'[k] = mem[k] /\ said'[k] = said[k]
      /\ mem'[c] = Nothing /\ said'[c] = Nothing
  BY <1>1 DEF Inv, Types
<1>3. \A i \in Slots : item[c][i].at = "none"
  BY <1>1 DEF Inv, LiveInv, Runs
<1>4. Types'
  BY <1>1, <1>2 DEF Inv, Types
<1>5. OrderInv' /\ LiveInv'
  BY <1>1 DEF Inv, OrderInv, LiveInv, Runs
<1>6. ItemInv'
  BY <1>1, <1>2, <1>3 DEF Inv, ItemInv, GoodItem
<1>7. HarnessInv'
  BY <1>1, <1>2, <1>3 DEF Inv, HarnessInv
<1>8. WordInv'
  BY <1>1, <1>2, LoopAssumption DEF Inv, WordInv, Loops
<1> QED
  BY <1>4, <1>5, <1>6, <1>7, <1>8 DEF Inv

LEMMA ChildEndsInv == ASSUME Inv, NEW c \in Children, ChildEnds(c) PROVE Inv'
<1>1. /\ live' = live \ {c} /\ \A i \in Slots : item[c][i].at = "none"
      /\ UNCHANGED <<posture, mem, doc, item, par, opens, words, said, kept>>
  BY DEF ChildEnds, Between
<1>2. Types' /\ WordInv'
  BY <1>1 DEF Inv, Types, WordInv
<1>3. OrderInv' /\ LiveInv' /\ ItemInv' /\ HarnessInv'
  BY <1>1 DEF Inv, OrderInv, LiveInv, ItemInv, HarnessInv, Runs
<1> QED
  BY <1>2, <1>3 DEF Inv

LEMMA CancelInv == ASSUME Inv, Cancel PROVE Inv'
<1>1. /\ item' = [l \in Loops |-> Blank] /\ par' = [l \in Loops |-> FALSE] /\ live' = {}
      /\ UNCHANGED <<posture, mem, doc, opens, words, said, kept>>
  BY DEF Cancel
<1>2. WordInv' /\ posture' \in Postures /\ mem' \in [Loops -> Memory] /\ doc' \in Memory
      /\ opens' \in 1..MaxOpen /\ words' \in 0..MaxWords /\ said' \in [Loops -> Memory]
      /\ kept' \subseteq Calls
  BY <1>1 DEF Inv, Types, WordInv
<1> QED
  BY <1>1, <1>2, BlankInv

LEMMA ReopenInv == ASSUME Inv, Reopen PROVE Inv'
<1>1. /\ item' = [l \in Loops |-> Blank] /\ par' = [l \in Loops |-> FALSE] /\ live' = {}
      /\ posture' \in Postures /\ UNCHANGED <<doc, words, kept>>
      /\ Root \in Loops /\ Nothing \in Memory /\ Nothing.allow = {} /\ Nothing.deny = {}
  BY DEF Reopen, Loops, Nothing, Memory
<1>2. opens' \in 1..MaxOpen
  BY SizeAssumption DEF Reopen, Inv, Types
<1>3. /\ Honoured(posture', doc) \in Memory /\ Honoured(posture', doc).deny = doc.deny
      /\ \A g \in Honoured(posture', doc).allow :
           g \in doc.allow /\ Looseness[g.mode] <= Looseness[posture'.mode]
  BY DEF Honoured, Inv, Types, Memory
<1>4. /\ [said[Root] EXCEPT !.deny = kept] \in Memory
      /\ [said[Root] EXCEPT !.deny = kept].deny = kept
      /\ [said[Root] EXCEPT !.deny = kept].allow = said[Root].allow
  BY <1>1 DEF Inv, Types, Memory
<1> DEFINE h == Honoured(posture', doc)
           k == [said[Root] EXCEPT !.deny = kept]
<1>5. /\ mem' = [l \in Loops |-> IF l = Root THEN h ELSE Nothing]
      /\ said' = [l \in Loops |-> IF l = Root THEN k ELSE Nothing]
  BY DEF Reopen
<1> HIDE DEF h, k, Nothing
<1>6. mem' \in [Loops -> Memory] /\ said' \in [Loops -> Memory]
  BY <1>1, <1>3, <1>4, <1>5 DEF h, k
<1>7. /\ mem'[Root].deny = doc.deny /\ said'[Root].deny = kept /\ said'[Root].allow = said[Root].allow
      /\ \A g \in mem'[Root].allow : g \in doc.allow /\ Looseness[g.mode] <= Looseness[posture'.mode]
      /\ \A l \in Loops : l # Root => mem'[l] = Nothing /\ said'[l] = Nothing
  BY <1>1, <1>3, <1>4, <1>5 DEF h, k
<1>8. WordInv'
  BY <1>1, <1>7 DEF Inv, WordInv
<1>9. doc' \in Memory /\ words' \in 0..MaxWords /\ kept' \subseteq Calls
  BY <1>1 DEF Inv, Types
<1> QED
  BY <1>1, <1>2, <1>6, <1>8, <1>9, BlankInv

LEMMA NextInv == Inv /\ [Next]_vars => Inv'
<1> SUFFICES ASSUME Inv, [Next]_vars PROVE Inv'
  OBVIOUS
<1>1. CASE UNCHANGED vars
  BY <1>1 DEF vars, Inv, Types, OrderInv, LiveInv, ItemInv, HarnessInv, WordInv, Runs
<1>2. CASE Next
  BY <1>2, GateInv, AnswerInv, AnswerForSessionInv, HooksInv, DropInv, BatchInv, HarnessCallInv,
     BatchEndsInv, SaveInv, DelegateInv, ChildEndsInv, CancelInv, ReopenInv DEF Next
<1> QED
  BY <1>1, <1>2

LEMMA InvAlways == Spec => []Inv
  BY InitInv, NextInv, PTL DEF Spec

-----------------------------------------------------------------------------
(* The types hold of every reachable state, and a batch that is worked through in order
   has one call open at a time (TypeOK).                                               *)
THEOREM TypeCorrect == Spec => []TypeOK
<1>1. ASSUME Inv PROVE TypeOK
  <2>1. ASSUME NEW l \in Loops, NEW i \in Slots, NEW j \in Slots, ~par[l], Open(l, i), Open(l, j)
        PROVE  i = j
    <3>1. i \in Nat /\ j \in Nat
      BY DEF Slots
    <3>2. item[l][i].at \notin {"none", "wait", "done"} /\ item[l][j].at \notin {"none", "wait", "done"}
      BY <2>1 DEF Open
    <3> QED
      BY <1>1, <2>1, <3>1, <3>2 DEF Inv, OrderInv
  <2> QED
    BY <1>1, <2>1 DEF Inv, Types, TypeOK
<1> QED
  BY <1>1, InvAlways, PTL

(* Whatever was granted, by whichever loop, saved and restored under whatever posture, and
   whatever a hook made of the call: what runs is below the floors or was put to the
   operator (FloorsHold).                                                                  *)
THEOREM FloorsHoldAlways == Spec => []FloorsHold
<1>1. ASSUME Inv PROVE FloorsHold
  <2> SUFFICES ASSUME NEW l \in Loops, NEW i \in Slots, item[l][i].at = "run"
               PROVE  LET r == item[l][i] IN
                      /\ r.now.danger => r.how = "yes" /\ r.now = r.asked
                      /\ "bypass" \notin Both(posture, r.now.tool) =>
                           /\ Protected(r.now) => r.how = "yes" /\ r.now = r.asked
                           /\ Undeclared(posture, r.now) => r.how = "yes" /\ r.now.install = r.asked.install
    BY DEF FloorsHold
  <2> DEFINE r == item[l][i]
  <2>1. /\ Passed(posture, said[l], r) /\ r.now.tool = r.asked.tool
        /\ r.now = r.asked \/ ~RewriteRefused(posture, r.asked, r.now)
    BY <1>1 DEF Inv, ItemInv, GoodItem
  <2>2. "bypass" \notin Both(posture, r.now.tool) => posture.mode # "bypass"
    BY DEF Both
  <2>3. r.how # "yes" =>
          /\ ~r.asked.danger
          /\ "bypass" \notin Both(posture, r.asked.tool) =>
               ~Undeclared(posture, r.asked) /\ ~Protected(r.asked)
    BY <2>1, Floors DEF Passed, Protected
  <2>4. CASE r.now = r.asked
    BY <2>3, <2>4
  <2>5. CASE ~RewriteRefused(posture, r.asked, r.now)
    BY <2>1, <2>2, <2>3, <2>5 DEF RewriteRefused, Undeclared
  <2> QED
    BY <2>1, <2>4, <2>5
<1> QED
  BY <1>1, InvAlways, PTL

(* What the operator said for the session holds in it, and no further (WordStands). *)
THEOREM WordStandsAlways == Spec => []WordStands
<1>1. ASSUME Inv PROVE WordStands
  BY <1>1 DEF Inv, ItemInv, GoodItem, Passed, WordStands
<1> QED
  BY <1>1, InvAlways, PTL

(* A call of the harness is never put to the operator (HarnessAsksNobody). *)
THEOREM HarnessAsksNobodyAlways == Spec => []HarnessAsksNobody
<1>1. Inv => HarnessAsksNobody
  BY DEF Inv, ItemInv, GoodItem, HarnessAsksNobody
<1> QED
  BY <1>1, InvAlways, PTL
=============================================================================
