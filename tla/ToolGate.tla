------------------------------ MODULE ToolGate ------------------------------
(***************************************************************************)
(* What stands between a call the model asked for and the tool that runs:  *)
(* AgentLoop._execute_tool_call_gated with the PermissionPolicy of the     *)
(* session, its prompter, the PreToolUse hooks, the operator's grants in   *)
(* the session document, and the policies of delegated children.           *)
(*                                                                         *)
(* A batch runs its calls one after another, or all at once when each only *)
(* reads.  Between a call's stages (the operator's answer, the hooks, the  *)
(* tool) other calls of a concurrent batch and other children take theirs. *)
(* A new Agent is made on the session whenever a server starts a turn, the *)
(* REPL resumes, or a process comes up again: it keeps what the document   *)
(* says, under the posture of its own settings.                            *)
(*                                                                         *)
(* Abstracted: a call is a tool and what the policy's scans find in its    *)
(* arguments; a hook chain is what it comes to (pass, block, a rewrite);   *)
(* an answer of the operator is one of the four outcomes of a prompt, the  *)
(* prompt's timeout and an interrupt being a denial.                       *)
(***************************************************************************)
EXTENDS Integers, FiniteSets

CONSTANTS Root, Children,   \* the session's loop, and the loops of its sub-agents
          Calls,            \* the calls a model may send
          Postures,         \* the settings an Agent of this session may be made with
          MaxBatch,         \* calls in one completion
          MaxOpen,          \* Agents made on the session in one behaviour
          MaxWords,         \* answers for the rest of the session in one behaviour
          None

Loops == {Root} \cup Children
Slots == 1..MaxBatch

Tools == {"Read", "task", "Edit", "Bash"}
Modes == {"deny", "ask", "acceptEdits", "allow", "autonomous", "bypass"}

(* What the scans find: a catastrophic command, the package an undeclared install names, a
   protected path (to be neither read nor written, or not written).                        *)
Call == [tool : Tools, danger : BOOLEAN, install : {None, "left", "right"},
         path : {"plain", "written", "secret"}]

Posture == [mode : Modes, over : [Tools -> Modes \cup {None}], confirm : SUBSET Tools,
            banned : SUBSET Tools, deps : BOOLEAN, prompter : BOOLEAN]

Grant == [tool : Tools, mode : Modes]

ASSUME LoopAssumption == Root \notin Children
ASSUME CallAssumption == Calls \subseteq Call
ASSUME PostureAssumption == Postures \subseteq Posture
ASSUME SizeAssumption == MaxBatch \in Nat \ {0} /\ MaxOpen \in Nat \ {0} /\ MaxWords \in Nat
ASSUME NoneAssumption == None \notin Modes \cup {"left", "right"} \cup Call

VARIABLES
  posture,   \* the policy's settings, the same for the session's loop and its children
  mem,       \* [Loops -> grants and denials the policy holds]
  doc,       \* the grants and denials in the session document
  item,      \* [Loops -> [Slots -> the call in that place of the batch, and where it is]]
  par,       \* [Loops -> BOOLEAN]: the batch runs all at once
  live,      \* the children that run
  opens,     \* Agents made so far
  words,     \* answers for the session so far
  said,      \* history: [Loops -> what the operator has told this loop for the session]
  kept       \* history: the denials that were in force at the last save

vars == <<posture, mem, doc, item, par, live, opens, words, said, kept>>

Nothing == [allow |-> {}, deny |-> {}]
Memory == [allow : SUBSET Grant, deny : SUBSET Calls]

-----------------------------------------------------------------------------
(* PermissionPolicy.decide. *)
Tier == [t \in Tools |-> CASE t \in {"Read", "task"} -> 0 [] t = "Edit" -> 1 [] OTHER -> 2]
Ceiling == [m \in Modes |-> CASE m \in {"deny", "ask"} -> 0 [] m = "acceptEdits" -> 1 [] OTHER -> 2]
Above == [m \in Modes |->
            CASE m \in {"deny", "autonomous"} -> "DENY" [] m = "bypass" -> "ALLOW" [] OTHER -> "ASK"]
Looseness == [m \in Modes |->
                CASE m = "deny" -> 0 [] m = "ask" -> 1 [] m = "acceptEdits" -> 2
                  [] m = "allow" -> 3 [] m = "autonomous" -> 4 [] OTHER -> 5]

ToolMode(p, t) == IF p.over[t] # None THEN p.over[t] ELSE p.mode
Both(p, t) == {p.mode, ToolMode(p, t)}
Base(p, t) == IF Tier[t] <= Ceiling[ToolMode(p, t)] THEN "ALLOW" ELSE Above[ToolMode(p, t)]

Undeclared(p, c) == c.install # None /\ p.deps /\ p.mode # "bypass"
Protected(c) == c.path = "secret" \/ (c.path = "written" /\ Tier[c.tool] > 0)

(* What turns a verdict into a question, or a refusal where nothing may be asked. *)
Floored(p, c) ==
  \/ c.danger
  \/ "bypass" \notin Both(p, c.tool) /\ (Undeclared(p, c) \/ Protected(c))
Escalated(p, c) ==
  \/ c.tool \in p.confirm /\ Base(p, c.tool) = "ALLOW" /\ "bypass" \notin Both(p, c.tool)
  \/ Floored(p, c)
Unaskable(p, c) ==
  \/ ToolMode(p, c.tool) = "deny" \/ "autonomous" \in Both(p, c.tool)
  \/ c.danger /\ "bypass" \in Both(p, c.tool)

Verdict(p, c) ==
  IF c.tool \in p.banned \/ Base(p, c.tool) = "DENY" THEN "DENY"
  ELSE IF ~Escalated(p, c) THEN Base(p, c.tool)
  ELSE IF Unaskable(p, c) THEN "DENY" ELSE "ASK"

(* Mutant: a grant covers every call of its tool. *)
CoveredWhatever(p, m, c) == \E g \in m.allow : g.tool = c.tool

(* A session grant covers the tool, and nothing a grant cannot waive is in the call. *)
Covered(p, m, c) ==
  /\ \E g \in m.allow : g.tool = c.tool
  /\ ~c.danger /\ ~Undeclared(p, c) /\ c.path = "plain"

(* authorize up to the prompt: let through and why, refused, or put to the operator. *)
Authorized(p, m, c) ==
  IF c \in m.deny THEN "refused"
  ELSE IF Covered(p, m, c) THEN (IF Verdict(p, c) = "DENY" THEN "refused" ELSE "grant")
  ELSE CASE Verdict(p, c) = "ALLOW" -> "auto"
         [] Verdict(p, c) = "ASK" /\ p.prompter -> "ask"
         [] OTHER -> "refused"

(* auto_allows: the harness asks beforehand whether a call of its own would go through. *)
AutoAllows(p, m, c) ==
  /\ c \notin m.deny
  /\ IF Covered(p, m, c) THEN Verdict(p, c) # "DENY" ELSE Verdict(p, c) = "ALLOW"

(* Mutant: the rewritten call is looked at for a dangerous command only. *)
RewriteDangerous(p, asked, now) == now.danger

(* The floors a hook's rewrite is held to. *)
RewriteRefused(p, asked, now) ==
  \/ now.danger
  \/ Undeclared(p, now) /\ now.install # asked.install
  \/ Protected(now) /\ p.mode # "bypass"

(* Mutant: every saved grant is restored. *)
HonouredWhatever(p, d) == d

(* restore_grants: a grant counts under a mode at least as loose as its own, a denial always. *)
Honoured(p, d) ==
  [d EXCEPT !.allow = {g \in d.allow : Looseness[g.mode] <= Looseness[p.mode]}]

-----------------------------------------------------------------------------
NoItem == [at |-> "none", asked |-> None, now |-> None, how |-> "", harness |-> FALSE, late |-> FALSE]
Item == [at : {"none", "wait", "ask", "hook", "run", "done"}, asked : Calls \cup {None},
         now : Calls \cup {None}, how : {"", "auto", "grant", "yes"}, harness : BOOLEAN,
         late : BOOLEAN]
Waiting(c, own) == [NoItem EXCEPT !.at = "wait", !.asked = c, !.now = c, !.harness = own]
Blank == [i \in Slots |-> NoItem]

Runs(l) == l = Root \/ l \in live
Between(l) == \A i \in Slots : item[l][i].at = "none"
Open(l, i) == item[l][i].at \in {"ask", "hook", "run"}
Put(l, i, r) == item' = [item EXCEPT ![l][i] = r]
Done == [NoItem EXCEPT !.at = "done"]

Init ==
  /\ posture \in Postures
  /\ mem = [l \in Loops |-> Nothing] /\ doc = Nothing
  /\ item = [l \in Loops |-> Blank] /\ par = [l \in Loops |-> FALSE]
  /\ live = {} /\ opens = 1 /\ words = 0
  /\ said = [l \in Loops |-> Nothing] /\ kept = {}

(* A completion asks for a batch.  Only the buffered path runs one all at once.  A loop whose
   call delegates waits for its children, which have no sub-agents of their own.              *)
Parallel(b) == \A i \in DOMAIN b : b[i].tool = "Read"

Batch(l) ==
  /\ Runs(l) /\ Between(l)
  /\ \E n \in Slots : \E b \in [1..n -> {c \in Calls : l = Root \/ c.tool # "task"}] :
       /\ item' = [item EXCEPT ![l] = [i \in Slots |-> IF i <= n THEN Waiting(b[i], FALSE) ELSE NoItem]]
       /\ \E all \in {FALSE, n > 1 /\ Parallel(b)} : par' = [par EXCEPT ![l] = all]
  /\ UNCHANGED <<posture, mem, doc, live, opens, words, said, kept>>

(* The harness runs a verification of its own where that asks nobody (_try_harness_verify). *)
HarnessCall(l) ==
  /\ Runs(l) /\ Between(l)
  /\ \E c \in Calls : /\ c.tool = "Bash" /\ AutoAllows(posture, mem[l], c)
                      /\ item' = [item EXCEPT ![l][1] = Waiting(c, TRUE)]
  /\ par' = [par EXCEPT ![l] = FALSE]
  /\ UNCHANGED <<posture, mem, doc, live, opens, words, said, kept>>

(* Mutant: nobody waits for the call before. *)
NextUpAtOnce(l, i) == item[l][i].at = "wait"

NextUp(l, i) ==
  /\ item[l][i].at = "wait"
  /\ par[l] \/ \A j \in Slots : j < i => item[l][j].at = "done"

(* A call the turn does not offer, that cannot be decoded or that repeats itself. *)
Withheld(l, i) ==
  /\ NextUp(l, i)
  /\ Put(l, i, Done)
  /\ UNCHANGED <<posture, mem, doc, par, live, opens, words, said, kept>>

(* The permission gate, up to the prompt. *)
Gate(l, i) ==
  LET r == item[l][i]
      a == Authorized(posture, mem[l], r.asked)
      s == [r EXCEPT !.late = r.asked \in said[l].deny]
  IN  /\ NextUp(l, i)
      /\ Put(l, i, CASE a = "refused" -> Done
                     [] a = "ask" -> [s EXCEPT !.at = "ask"]
                     [] OTHER -> [s EXCEPT !.at = "hook", !.how = a])
      /\ UNCHANGED <<posture, mem, doc, par, live, opens, words, said, kept>>

(* The operator's answer, or none in time: yes or no, to this call or for the session. *)
Answer(l, i) ==
  LET r == item[l][i]
  IN  /\ r.at = "ask"
      /\ Put(l, i, [r EXCEPT !.at = "hook", !.how = "yes"]) \/ Put(l, i, Done)
      /\ UNCHANGED <<posture, mem, doc, par, live, opens, words, said, kept>>

AnswerForSession(l, i) ==
  LET r == item[l][i]
      g == [tool |-> r.asked.tool, mode |-> posture.mode]
  IN  /\ r.at = "ask" /\ words < MaxWords /\ words' = words + 1
      /\ \/ /\ Put(l, i, [r EXCEPT !.at = "hook", !.how = "yes"])
            /\ mem' = [mem EXCEPT ![l].allow = @ \cup {g}]
            /\ said' = [said EXCEPT ![l].allow = @ \cup {g}]
         \/ /\ Put(l, i, Done)
            /\ mem' = [mem EXCEPT ![l].deny = @ \cup {r.asked}]
            /\ said' = [said EXCEPT ![l].deny = @ \cup {r.asked}]
      /\ UNCHANGED <<posture, doc, par, live, opens, kept>>

(* The PreToolUse hooks let it be (a failure is a warning), block it, or rewrite it. *)
Hooks(l, i) ==
  LET r == item[l][i]
  IN  /\ r.at = "hook"
      /\ \/ Put(l, i, [r EXCEPT !.at = "run"])
         \/ Put(l, i, Done)
         \/ \E c \in Calls :
              /\ c.tool = r.asked.tool
              /\ Put(l, i, IF RewriteRefused(posture, r.asked, c) THEN Done
                           ELSE [r EXCEPT !.at = "run", !.now = c])
      /\ UNCHANGED <<posture, mem, doc, par, live, opens, words, said, kept>>

(* The delegating tool starts children, each with the posture and no grants. *)
Delegate(c) ==
  /\ \E i \in Slots : item[Root][i].at = "run" /\ item[Root][i].now.tool = "task"
  /\ c \notin live /\ live' = live \cup {c}
  /\ mem' = [mem EXCEPT ![c] = Nothing] /\ said' = [said EXCEPT ![c] = Nothing]
  /\ UNCHANGED <<posture, doc, item, par, opens, words, kept>>

ChildEnds(c) ==
  /\ c \in live /\ Between(c)
  /\ live' = live \ {c}
  /\ UNCHANGED <<posture, mem, doc, item, par, opens, words, said, kept>>

(* The tool ran, and the PostToolUse hooks after it. *)
Ran(l, i) ==
  /\ item[l][i].at = "run"
  /\ item[l][i].now.tool = "task" => live = {}
  /\ Put(l, i, Done)
  /\ UNCHANGED <<posture, mem, doc, par, live, opens, words, said, kept>>

(* The batch is over: its results and the grants are saved.  A child has no document. *)
BatchEnds(l) ==
  /\ \E i \in Slots : item[l][i].at = "done"
  /\ \A i \in Slots : item[l][i].at \in {"none", "done"}
  /\ item' = [item EXCEPT ![l] = Blank]
  /\ par' = [par EXCEPT ![l] = FALSE]
  /\ IF l = Root THEN doc' = mem[Root] /\ kept' = said[Root].deny ELSE UNCHANGED <<doc, kept>>
  /\ UNCHANGED <<posture, mem, live, opens, words, said>>

(* Elsewhere in a turn the session is saved too. *)
Save ==
  /\ Between(Root) /\ doc # mem[Root]
  /\ doc' = mem[Root] /\ kept' = said[Root].deny
  /\ UNCHANGED <<posture, mem, item, par, live, opens, words, said>>

(* The turn is cancelled in the middle of a batch, its children with it. *)
Cancel ==
  /\ ~Between(Root)
  /\ item' = [l \in Loops |-> Blank] /\ par' = [l \in Loops |-> FALSE] /\ live' = {}
  /\ UNCHANGED <<posture, mem, doc, opens, words, said, kept>>

(* Another Agent is made on the session, whatever became of the one before. *)
Reopen ==
  /\ opens < MaxOpen /\ opens' = opens + 1
  /\ posture' \in Postures
  /\ mem' = [l \in Loops |-> IF l = Root THEN Honoured(posture', doc) ELSE Nothing]
  /\ item' = [l \in Loops |-> Blank] /\ par' = [l \in Loops |-> FALSE] /\ live' = {}
  /\ said' = [l \in Loops |-> IF l = Root THEN [said[Root] EXCEPT !.deny = kept] ELSE Nothing]
  /\ UNCHANGED <<doc, words, kept>>

Next ==
  \/ \E l \in Loops : \/ Batch(l) \/ HarnessCall(l) \/ BatchEnds(l)
                      \/ \E i \in Slots : \/ Withheld(l, i) \/ Gate(l, i) \/ Answer(l, i)
                                          \/ AnswerForSession(l, i)
                                          \/ Hooks(l, i) \/ Ran(l, i)
  \/ \E c \in Children : Delegate(c) \/ ChildEnds(c)
  \/ Save \/ Cancel \/ Reopen

Spec == Init /\ [][Next]_vars

-----------------------------------------------------------------------------
TypeOK ==
  /\ posture \in Postures
  /\ mem \in [Loops -> Memory] /\ doc \in Memory
  /\ item \in [Loops -> [Slots -> Item]] /\ par \in [Loops -> BOOLEAN]
  /\ live \subseteq Children /\ opens \in 1..MaxOpen /\ words \in 0..MaxWords
  /\ said \in [Loops -> Memory] /\ kept \subseteq Calls
  /\ \A l \in Loops, i, j \in Slots : ~par[l] /\ Open(l, i) /\ Open(l, j) => i = j

(* What nothing but the operator's yes to that very call lets through (permissions.py:970-977,
   agent/loop.py:6399-6403): whatever was granted before, by whichever loop, saved and
   restored under whatever posture, and whatever a hook made of the call since, a running
   call is a dangerous command, an install no manifest declares, or a touch of a protected
   path only if it was put to the operator; and a dangerous one only as it was put.         *)
FloorsHold ==
  \A l \in Loops, i \in Slots :
    LET r == item[l][i] IN
    r.at = "run" =>
      /\ r.now.danger => r.how = "yes" /\ r.now = r.asked
      /\ "bypass" \notin Both(posture, r.now.tool) =>
           /\ Protected(r.now) => r.how = "yes" /\ r.now = r.asked
           /\ Undeclared(posture, r.now) => r.how = "yes" /\ r.now.install = r.asked.install

(* What the operator said for the session holds in it, and no further (permissions.py:617-624,
   1044-1052): a call let through by a grant has one the operator gave to this very loop,
   under a mode no looser than today's; and a call he denied for the session does not run
   when it is sent again, over any saves, new Agents and crashes after which it is on record. *)
WordStands ==
  \A l \in Loops, i \in Slots :
    LET r == item[l][i] IN
    r.at \in {"hook", "run"} =>
      /\ ~r.late
      /\ r.how = "grant" =>
           \E g \in said[l].allow :
             g.tool = r.asked.tool /\ Looseness[g.mode] <= Looseness[posture.mode]

(* The harness raises no prompt of its own accord (permissions.py:656-662): a call it makes
   because the policy said beforehand that nobody would be asked is never put to anybody.  *)
HarnessAsksNobody == \A l \in Loops, i \in Slots : item[l][i].at = "ask" => ~item[l][i].harness
=============================================================================
