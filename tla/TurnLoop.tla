------------------------------ MODULE TurnLoop ------------------------------
(***************************************************************************)
(* One turn of the ReAct loop (agent/loop.py, _run_turn and its streaming  *)
(* twin astream_turn): the provider call and its recoveries, the rails and *)
(* gates a completion passes before the turn may end, the tool batches     *)
(* with the doom-loop guard and the stuck ladder, the turn-end hook, which *)
(* may refuse an ending, and the shared iteration and cost budget.         *)
(*                                                                         *)
(* The model and the hook are the environment: what a completion says,     *)
(* what a batch does and what a hook answers is any of what they can.      *)
(* conf is what does not change in a turn:                                 *)
(*   rails - what this turn's completions and workspace can run into (a    *)
(*           rail outside it never fires);                                 *)
(*   hook  - a turn-end hook is registered and the loop is vetoable;       *)
(*   stream - the turn streams its completions (astream_turn);             *)
(*   units - the shared pool's iterations, 0 without a pool;               *)
(*   batches - how many tool batches the model sends, a bound.             *)
(*                                                                         *)
(* Abstracted: the text of messages (of the texts sent only how often each *)
(* was repeated is kept; which section is open at a completion is any of   *)
(* Sections), usage figures (the ceiling is crossed or not), model routing, *)
(* the waits between the attempts of a call, the overrides of a            *)
(* reasoning-overflow retry and their refusal, traces, the harness's own   *)
(* verification runs (a nudge that may succeed), the say and observation   *)
(* deliveries at the iteration boundary (SayInbox, ServedRun), and         *)
(* max_iterations, which no configuration sets.                            *)
(***************************************************************************)
EXTENDS Integers, FiniteSets

CONSTANTS
  Turns,        \* the confs a turn may have
  Asks,         \* the evidence gates, each asked at most once in a turn
  Sections,     \* the sections of the paged skills a turn may have open
  MaxLength,    \* _MAX_LENGTH_CONTINUATIONS
  AttemptCap,   \* attempt_cap, of the recipe gate and of the project checks
  MaxProviderVetoes, \* _MAX_PROVIDER_ERROR_VETOES
  MaxPlain,     \* bound: refusals of the hook that name no skill
  MaxSteps,     \* bound: open steps of a plan
  MaxFiles      \* bound: runnable files written and not let go

Rails == {"degen", "apology", "length", "recipe", "checks", "scope", "plan", "coverage",
          "empty", "record", "critic", "quality", "asks", "section", "review", "doom",
          "stuck", "planfirst", "context", "failover", "provider", "ceiling", "restart",
          "denied", "fatal", "skill", "limited", "interrupt", "filter", "awaiting_user"}

ASSUME TurnsAssumption == Turns \subseteq [rails : SUBSET Rails, hook : BOOLEAN, stream : BOOLEAN, units : Nat, batches : Nat]
ASSUME CapsAssumption == /\ MaxLength \in Nat /\ AttemptCap \in Nat /\ MaxProviderVetoes \in Nat
                         /\ MaxPlain \in Nat /\ MaxSteps \in Nat /\ MaxFiles \in Nat /\ MaxFiles > 0
ASSUME AsksAssumption == IsFiniteSet(Asks) /\ IsFiniteSet(Sections)

MaxDegen == 1
MaxApology == 1
MaxEmpty == 2
MaxRecord == 2
MaxPlanNudges == 2
MaxPlanFirst == 2
MaxReviews == 1
MaxCritic == 1       \* completion_review_attempts: any number bounds it; one here
MaxQuality == 2
MaxDoom == 1
MaxContext == 2
MaxInterrupt == 3
MaxFilter == 1
DoomThreshold == 3
VetoStall == 3
Cascade == 2
NudgeAt == 3
NarrowAt == 4
StepBackAt == 5
StopAt == 6

VARIABLES
  conf,
  phase,      \* where the turn is: see Phases
  why,        \* stop_reason of an ended turn; the ending a hook is asked about
  hand,       \* the completion in hand
  n,          \* [Rails -> Nat]: what each rail's counter holds
  asked,      \* the evidence gates that had their say
  nudged,     \* section_nudged
  heard,      \* completion_counts: heard[k] texts were sent k times, the last k: or more often
  words,      \* text_only_completions, kept at Cascade + 1
  stood,      \* cascade_capped
  nudgedAt,   \* open_at_nudge, 0 for None
  repeat,     \* repeat_count
  streak,     \* the stuck tracker's streak
  stepped, acted,  \* its one-shot step back is used; took_action
  narrow,     \* "no", "next": restrict_readonly_next, "now": restrict_now
  script,     \* the recipe cursor: "none" written, some "unrun" or all "ran"
  files,      \* how many files it holds (_targets)
  released,   \* it let files go (_released)
  changed, passed, \* the verification gate's code_changed and passed
  plan, open, \* the plan: "none", the harness's "anchor", "steps"; its open steps
  probing,    \* the stuck ladder's investigation steps on it: "no", "open", "closed"
  fails, plains, refusals, \* _vetoes_without_skill; plain refusals; provider_error_vetoes
  saw, degraded,   \* turn_saw_text, turn_degraded
  newer, restart,  \* a newer build is installed; restart_continuation is set
  pool, over,      \* the shared pool; the cost ceiling is crossed (or cannot be enforced)
  pending, split,  \* session: calls without a result; a user message stands before their results
  batches,    \* history: batches sent, for the bound
  worked,     \* history: iterations that ran a call of the model's
  excused,    \* history: those of them that were given back all the same
  late,       \* history: completions billed after the ceiling was crossed
  streamed,   \* received_any: the client saw output of this attempt
  withheld    \* history: answers billed after the ceiling was crossed and withheld by a filter

turn == <<phase, why, hand>>
said == <<asked, nudged, heard>>
counts == <<n, said, words, stood, nudgedAt>>
stall == <<repeat, streak>>
ladder == <<stepped, acted, narrow>>
disk == <<script, files, released, changed, passed>>
board == <<plan, open, probing>>
hook == <<fails, plains, refusals>>
flags == <<saw, degraded>>
build == <<newer, restart>>
money == <<pool, over, late>>
session == <<pending, split>>
ran == <<worked, excused>>
hist == <<batches, ran>>
call == <<streamed, withheld>>
vars == <<conf, call, turn, counts, stall, ladder, disk, board, hook, flags, build, money, session, hist>>

Phases == {"top", "call", "words", "critic", "quality", "claims", "fresh", "tools", "hook", "ended"}
Kinds == {"none", "text", "cut", "silent", "thought", "tools"}
Vetoable == {"completed", "doom_loop", "stuck", "gave_up", "provider_error", "recipe_stalled"}
Reasons == Vetoable \cup {"none", "max_iterations", "degenerated", "budget", "verification_failed",
                          "awaiting_user", "restart", "fatal", "veto_stall", "cancelled"}

TypeOK ==
  /\ conf \in Turns /\ phase \in Phases /\ why \in Reasons /\ hand \in Kinds
  /\ n \in [Rails -> Nat] /\ asked \subseteq Asks /\ nudged \subseteq Sections
  /\ heard \in [1..MaxRecord + 1 -> Nat] /\ words \in 0..Cascade + 1
  /\ stood \in BOOLEAN /\ nudgedAt \in 0..MaxSteps + 1
  /\ repeat \in 0..DoomThreshold /\ streak \in 0..StopAt
  /\ stepped \in BOOLEAN /\ acted \in BOOLEAN /\ narrow \in {"no", "next", "now"}
  /\ script \in {"none", "unrun", "ran"} /\ files \in 0..MaxFiles /\ released \in BOOLEAN
  /\ changed \in BOOLEAN /\ passed \in BOOLEAN
  /\ plan \in {"none", "anchor", "steps"} /\ open \in 0..MaxSteps + 1
  /\ (plan = "none" => open = 0) /\ (plan = "anchor" => open \in 0..1)
  /\ probing \in {"no", "open", "closed"}
  /\ fails \in 0..VetoStall /\ plains \in 0..MaxPlain /\ refusals \in 0..MaxProviderVetoes
  /\ saw \in BOOLEAN /\ degraded \in BOOLEAN /\ newer \in BOOLEAN /\ restart \in BOOLEAN
  /\ pool \in Int /\ over \in BOOLEAN /\ late \in Nat
  /\ pending \in BOOLEAN /\ split \in BOOLEAN
  /\ (phase \in {"ended", "hook"}) <=> (why # "none")
  /\ batches \in 0..conf.batches /\ worked \in 0..conf.batches /\ excused \in 0..conf.batches
  /\ streamed \in BOOLEAN /\ withheld \in Nat

Init ==
  /\ conf \in Turns
  /\ phase = "top" /\ why = "none" /\ hand = "none"
  /\ n = [r \in Rails |-> 0] /\ asked = {} /\ nudged = {} /\ heard = [k \in 1..MaxRecord + 1 |-> 0]
  /\ words = 0 /\ stood = FALSE /\ nudgedAt = 0
  /\ repeat = 0 /\ streak = 0 /\ stepped = FALSE /\ acted = FALSE /\ narrow = "no"
  /\ script = "none" /\ files = 0 /\ released = FALSE /\ changed = FALSE /\ passed = FALSE
  /\ plan \in (IF "plan" \in conf.rails THEN {"none", "steps"} ELSE {"none"})
  /\ open \in (IF plan = "steps" THEN 0..MaxSteps ELSE {0}) /\ probing = "no"
  /\ fails = 0 /\ plains = 0 /\ refusals = 0
  /\ saw = FALSE /\ degraded = FALSE /\ newer = FALSE /\ restart = FALSE
  /\ pool = conf.units /\ over = FALSE /\ late = 0
  /\ pending = FALSE /\ split = FALSE
  /\ batches = 0 /\ worked = 0 /\ excused = 0 /\ streamed = FALSE /\ withheld = 0

-----------------------------------------------------------------------------
(* What the steps are made of. *)

Has(r) == r \in conf.rails
Voiced == hand \in {"text", "cut"}

End(r) == phase' = "ended" /\ why' = r /\ hand' = "none"

(* _fire_turn_end at a break site: the hook is asked, where there is one. *)
Fire(r) == phase' = "hook" /\ why' = r /\ hand' = "none"

(* A rail has spoken: the loop goes round. *)
Again == phase' = "top" /\ why' = "none" /\ hand' = "none"
Count(r) == n' = [n EXCEPT ![r] = @ + 1]

(* The stall guards start over: last_signature, repeat_count, stuck.reset(). *)
Forget == repeat' = 0 /\ streak' = 0

(* Mutant of Refunded: given back twice. *)
RefundedTwice == IF conf.units > 0 THEN pool + 2 ELSE pool

(* _refund_iteration. *)
Refunded == IF conf.units > 0 THEN pool + 1 ELSE pool

(* A model call bills, and may cross the ceiling. *)
Bills == over' \in {over, over \/ Has("ceiling")}

-----------------------------------------------------------------------------
(* The top of the loop and the provider call. *)

(* A newer build is installed while the turn runs. *)
Installed ==
  /\ Has("restart") /\ phase \notin {"ended"} /\ ~newer
  /\ newer' = TRUE
  /\ UNCHANGED <<conf, call, turn, counts, stall, ladder, disk, board, hook, flags, restart, money,
                 session, hist>>

(* _grant_iteration refuses: the shared pool is empty. *)
NoneLeft ==
  /\ phase = "top" /\ conf.units > 0 /\ pool = 0
  /\ End("max_iterations")
  /\ UNCHANGED <<conf, call, counts, stall, ladder, disk, board, hook, flags, build, money,
                 session, hist>>

(* What a call may be retried for, from nothing. *)
NewBudget(f) == [f EXCEPT !["interrupt"] = 0, !["filter"] = 0, !["limited"] = 0]

(* One iteration: a unit of the pool, the narrowing of the last one, the   *)
(* compaction before the call, which may bill.                             *)
Grant ==
  /\ phase = "top" /\ ~(conf.units > 0 /\ pool = 0)
  /\ phase' = "call" /\ UNCHANGED <<why, hand>>
  /\ pool' = IF conf.units > 0 THEN pool - 1 ELSE pool
  /\ narrow' = IF narrow = "next" THEN "now" ELSE "no"
  /\ n' = NewBudget([n EXCEPT !["context"] = 0]) /\ streamed' = FALSE
  /\ Bills /\ UNCHANGED late
  /\ UNCHANGED <<conf, withheld, said, words, stood, nudgedAt, stall, stepped, acted, disk, board,
                 hook, flags, build, session, hist>>

(* The first output of an attempt reaches the client. *)
Deltas ==
  /\ phase = "call" /\ conf.stream /\ ~streamed
  /\ streamed' = TRUE
  /\ UNCHANGED <<conf, withheld, turn, counts, stall, ladder, disk, board, hook, flags, build, money,
                 session, hist>>

(* The call overflows the window, is compacted and re-issued in place; the *)
(* buffered path's re-issue is a call with budgets of its own.             *)
Overflow ==
  /\ phase = "call" /\ Has("context") /\ n["context"] < MaxContext /\ ~streamed
  /\ LET m == [n EXCEPT !["context"] = @ + 1] IN n' = (IF conf.stream THEN m ELSE NewBudget(m))
  /\ Bills /\ UNCHANGED <<pool, late>>
  /\ UNCHANGED <<conf, call, turn, said, words, stood, nudgedAt, stall, ladder, disk, board, hook,
                 flags, build, session, hist>>

(* Another provider takes the call over, once in a turn. *)
Failover ==
  /\ phase = "call" /\ Has("failover") /\ n["failover"] = 0 /\ ~streamed
  /\ n' = NewBudget([n EXCEPT !["failover"] = 1])
  /\ UNCHANGED <<conf, call, turn, said, words, stood, nudgedAt, stall, ladder, disk, board, hook,
                 flags, build, money, session, hist>>

(* An attempt fails and the call is tried again: what it streamed is       *)
(* thrown away.                                                            *)
Retried ==
  /\ phase = "call" /\ streamed' = FALSE
  /\ UNCHANGED <<conf, turn, said, words, stood, nudgedAt, stall, ladder, disk, board, hook, flags,
                 build, pool, late, session, hist>>

(* A rate limit or an outage, waited out until the horizon of the first    *)
(* one in this call has passed.                                            *)
RateLimited ==
  /\ Has("limited") /\ n["limited"] < 2
  /\ n' = [n EXCEPT !["limited"] = 1]
  /\ Retried /\ UNCHANGED <<over, withheld>>

HorizonPasses ==
  /\ phase = "call" /\ n["limited"] = 1
  /\ n' = [n EXCEPT !["limited"] = 2]
  /\ UNCHANGED <<conf, call, turn, said, words, stood, nudgedAt, stall, ladder, disk, board, hook,
                 flags, build, money, session, hist>>

(* A timeout, or a tool call the provider rejects. *)
Interrupted ==
  /\ Has("interrupt") /\ n["interrupt"] < MaxInterrupt
  /\ Count("interrupt")
  /\ Retried /\ UNCHANGED <<over, withheld>>

(* _account_withheld_call: an answer a filter withheld is billed as any.   *)
Withholds == Bills /\ withheld' = withheld + (IF over THEN 1 ELSE 0)

Filtered ==
  /\ Has("filter") /\ n["filter"] < MaxFilter
  /\ Count("filter")
  /\ Retried /\ Withholds

(* The call fails for good: its unit goes back, and the hook is asked as   *)
(* long as it has not sent the turn back to a failing provider too often.  *)
Fails ==
  /\ phase = "call"
  /\ pool' = Refunded /\ UNCHANGED late
  /\ IF refusals < MaxProviderVetoes THEN Fire("provider_error") ELSE End("provider_error")
  /\ UNCHANGED <<conf, streamed, counts, stall, ladder, disk, board, hook, flags, build, session, hist>>

CallFails == Has("provider") /\ Fails /\ UNCHANGED <<over, withheld>>

(* The last answer the filter withheld is billed before the call fails.    *)
FilteredOut == Has("filter") /\ n["filter"] = MaxFilter /\ Fails /\ Withholds

Late == late' = late + (IF over THEN 1 ELSE 0)

(* A completion that is garbage, thrown away before the transcript. *)
Degenerates ==
  /\ phase = "call" /\ Has("degen")
  /\ pool' = Refunded /\ Bills /\ Late
  /\ refusals' = 0 /\ degraded' = TRUE
  /\ \/ /\ n["degen"] < MaxDegen /\ Count("degen") /\ Forget /\ Again
     \/ /\ n["degen"] = MaxDegen /\ End("degenerated") /\ UNCHANGED <<n, stall>>
  /\ UNCHANGED <<conf, call, said, words, stood, nudgedAt, ladder, disk, board, fails, plains,
                 saw, build, session, hist>>

(* An apology spiral, thrown away once. *)
Apologises ==
  /\ phase = "call" /\ Has("apology") /\ n["apology"] < MaxApology
  /\ Count("apology") /\ Forget /\ Again
  /\ pool' = Refunded /\ Bills /\ Late
  /\ refusals' = 0 /\ degraded' = TRUE
  /\ UNCHANGED <<conf, call, said, words, stood, nudgedAt, ladder, disk, board, fails, plains,
                 saw, build, session, hist>>

(* The completions the model may send: as many batches as the bound lets it. *)
Sent(c) == /\ c \in Kinds \ {"none"}
           /\ c = "cut" => Has("length")
           /\ c \in {"silent", "thought"} => Has("empty")
           /\ c = "tools" => batches < conf.batches

(* Mutant of Overspent: only a completion without calls is stopped. *)
OverspentText(c) == over' /\ c # "tools"

(* over_budget, cost_ceiling_unenforceable: asked of every completion. *)
Overspent(c) == over'

(* Mutant of BudgetStops: the calls of the completion stay unanswered. *)
BudgetStopsUnpaired(c) == End("budget") /\ pending' = (c = "tools")

(* The calls of the completion get a result each that says they never ran. *)
BudgetStops(c) == End("budget") /\ pending' = FALSE

(* A completion arrives and is written to the transcript. *)
Complete(c) ==
  /\ phase = "call" /\ Sent(c)
  /\ refusals' = 0 /\ Bills /\ Late
  /\ saw' \in {saw \/ c \in {"text", "cut"}, saw \/ c = "tools"}
  /\ c \in {"text", "cut"} => saw'
  /\ n' = [n EXCEPT !["empty"] = IF c \in {"silent", "thought"} THEN @ ELSE 0]
  /\ batches' = batches + (IF c = "tools" THEN 1 ELSE 0)
  /\ \/ /\ Overspent(c) /\ BudgetStops(c)
        /\ UNCHANGED <<words, repeat>>
     \/ /\ ~Overspent(c)
        /\ phase' = (IF c = "tools" THEN "tools" ELSE "words")
        /\ hand' = c /\ UNCHANGED why
        /\ pending' = (c = "tools")
        /\ words' = (IF c = "tools" THEN 0 ELSE IF words > Cascade THEN words ELSE words + 1)
        /\ repeat' \in (IF c # "tools" THEN {repeat}
                        ELSE IF Has("doom") THEN {1, repeat + 1} ELSE {1})
  /\ UNCHANGED <<conf, call, said, stood, nudgedAt, streak, ladder, disk, board, fails, plains,
                 degraded, build, pool, split, ran>>

-----------------------------------------------------------------------------
(* A completion without tool calls: the rails, in the order the loop asks   *)
(* them. Each At... is the place of a rail, past the ones before it.        *)

Cut == hand = "cut" /\ n["length"] < MaxLength
NeedsRun == Has("recipe") /\ script = "unrun"
RecipeCap == IF files > AttemptCap THEN files ELSE AttemptCap   \* can_nudge
NeedsChecks == Has("checks") /\ changed /\ ~passed

(* _plan_gate_nudge, after _close_request_anchor: the investigation steps  *)
(* hold no turn open, but the anchor is not closed while one of them is.   *)
Owed == IF plan = "anchor" /\ Voiced /\ probing # "open" THEN 0 ELSE open
Nudges == IF nudgedAt > 0 /\ Owed < nudgedAt THEN 0 ELSE n["plan"]
PlanHolds == Owed > 0 /\ Nudges < MaxPlanNudges

(* An empty completion that is no finish. *)
Silence == ~Voiced /\ (~saw \/ acted \/ Has("skill") \/ hand = "thought" \/ Owed > 0)

AtRun == phase = "words" /\ ~Cut
AtChecks == AtRun /\ ~NeedsRun
AtPlan == AtChecks /\ ~NeedsChecks
AtRest == AtPlan /\ ~PlanHolds
AtVoice == AtRest /\ ~Silence

(* Past the plan gate with steps open, the turn is degraded. *)
PlanGatePassed == degraded' = (degraded \/ Owed > 0) /\ open' = Owed /\ UNCHANGED probing

LengthContinue ==
  /\ phase = "words" /\ Cut
  /\ Count("length") /\ Again /\ Forget /\ degraded' = TRUE
  /\ UNCHANGED <<conf, call, said, words, stood, nudgedAt, ladder, disk, board, hook, saw, build, money,
                 session, hist>>

(* The recipe gate: the harness runs a file itself, or the model is told to. *)
RecipeNudge ==
  /\ AtRun /\ NeedsRun /\ n["recipe"] < RecipeCap
  /\ Count("recipe") /\ Again
  /\ \/ script' \in {"unrun", "ran"} /\ UNCHANGED pool
     \/ pool' = (IF Voiced THEN pool ELSE Refunded) /\ UNCHANGED script
  /\ UNCHANGED <<conf, call, said, words, stood, nudgedAt, stall, ladder, files, released, changed,
                 passed, board, hook, flags, build, over, late, session, hist>>

RecipeStalls ==
  /\ AtRun /\ NeedsRun /\ n["recipe"] >= RecipeCap
  /\ Fire("recipe_stalled")
  /\ UNCHANGED <<conf, call, counts, stall, ladder, disk, board, hook, flags, build, money, session, hist>>

(* The project's checks: the same, with an ending no hook may refuse. *)
ChecksNudge ==
  /\ AtChecks /\ NeedsChecks /\ n["checks"] < AttemptCap
  /\ Count("checks") /\ Again
  /\ \/ passed' \in BOOLEAN /\ UNCHANGED pool
     \/ pool' = (IF Voiced THEN pool ELSE Refunded) /\ UNCHANGED passed
  /\ UNCHANGED <<conf, call, said, words, stood, nudgedAt, stall, ladder, script, files, released, changed,
                 board, hook, flags, build, over, late, session, hist>>

ChecksFail ==
  /\ AtChecks /\ NeedsChecks /\ n["checks"] >= AttemptCap
  /\ End("verification_failed")
  /\ UNCHANGED <<conf, call, counts, stall, ladder, disk, board, hook, flags, build, money, session, hist>>

(* Every green suite run was of a part: one run of the whole is asked for. *)
ScopeAsk ==
  /\ AtPlan /\ Has("scope") /\ script = "ran" /\ ~passed /\ n["scope"] = 0 /\ ~stood
  /\ Count("scope") /\ Again /\ Forget
  /\ UNCHANGED <<conf, call, said, words, stood, nudgedAt, ladder, disk, board, hook, flags, build, money,
                 session, hist>>

(* The plan gate: nudges that earned no progress are bounded. *)
PlanNudge ==
  /\ AtPlan /\ PlanHolds
  /\ n' = [n EXCEPT !["plan"] = Nudges + 1] /\ nudgedAt' = Owed /\ open' = Owed /\ UNCHANGED probing
  /\ Again /\ Forget
  /\ pool' = (IF Voiced THEN pool ELSE Refunded)
  /\ UNCHANGED <<conf, call, said, words, stood, ladder, disk, plan, hook, flags, build, over, late,
                 session, hist>>

(* A skill the request named never ran. *)
CoverageAsk ==
  /\ AtRest /\ Has("coverage") /\ n["coverage"] = 0
  /\ Count("coverage") /\ Again /\ PlanGatePassed
  /\ pool' = (IF Voiced THEN pool ELSE Refunded)
  /\ UNCHANGED <<conf, call, said, words, stood, nudgedAt, stall, ladder, disk, plan, hook, saw, build,
                 over, late, session, hist>>

(* The empty give-up gate. *)
SilentRetry ==
  /\ AtRest /\ Silence /\ n["empty"] < MaxEmpty
  /\ Count("empty") /\ Again /\ Forget
  /\ degraded' = (degraded \/ Owed > 0 \/ hand = "thought") /\ open' = Owed /\ UNCHANGED probing
  /\ pool' = Refunded
  /\ UNCHANGED <<conf, call, said, words, stood, nudgedAt, ladder, disk, plan, hook, saw, build,
                 over, late, session, hist>>

GivesUp ==
  /\ AtRest /\ Silence /\ n["empty"] = MaxEmpty
  /\ Fire("gave_up") /\ PlanGatePassed
  /\ UNCHANGED <<conf, call, counts, stall, ladder, disk, plan, hook, saw, build, money, session, hist>>

(* Mutant of Parrots: nothing counts the rails a text has had. *)
ParrotsForever ==
  /\ AtVoice /\ Voiced
  /\ \E k \in 1..MaxRecord + 1 : heard[k] > 0
  /\ Again /\ Forget /\ PlanGatePassed
  /\ UNCHANGED <<conf, call, counts, ladder, disk, plan, hook, saw, build, money, session, hist>>

(* The broken-record guard: a text that was heard k times before is sent   *)
(* again, whatever was said between; each text has its rails.              *)
Parrots ==
  /\ AtVoice /\ Voiced
  /\ \E k \in 1..MaxRecord :
       heard[k] > 0 /\ heard' = [heard EXCEPT ![k] = @ - 1, ![k + 1] = @ + 1]
  /\ Again /\ Forget /\ PlanGatePassed
  /\ UNCHANGED <<conf, call, n, asked, nudged, words, stood, nudgedAt, ladder, disk, plan, hook, saw, build,
                 money, session, hist>>

(* The completion stands so far: it is silent or too short to be counted,  *)
(* is new, or was sent again after its rails, which degrades the turn.     *)
Stands ==
  /\ AtVoice
  /\ phase' = "critic" /\ UNCHANGED <<why, hand>>
  /\ \/ UNCHANGED heard /\ PlanGatePassed
     \/ Voiced /\ Has("record") /\ heard' = [heard EXCEPT ![1] = @ + 1] /\ PlanGatePassed
     \/ /\ Voiced /\ heard[MaxRecord + 1] > 0
        /\ degraded' = TRUE /\ open' = Owed /\ UNCHANGED <<probing, heard>>
  /\ UNCHANGED <<conf, call, n, asked, nudged, words, stood, nudgedAt, stall, ladder, disk, plan, hook, saw,
                 build, money, session, hist>>

-----------------------------------------------------------------------------
(* The gates that cost a model call, and the evidence gates.               *)

(* The completion critic: it reads a turn that wrote a runnable file.      *)
Critic ==
  /\ phase = "critic"
  /\ \/ phase' = "quality" /\ UNCHANGED <<why, hand, n, over, pool, stall>>
     \/ /\ Has("critic") /\ script # "none" /\ n["critic"] < MaxCritic
        /\ Count("critic") /\ Bills
        /\ \/ phase' = "quality" /\ UNCHANGED <<why, hand, pool, stall>>
           \/ Again /\ Forget /\ pool' = (IF Voiced THEN pool ELSE Refunded)
  /\ UNCHANGED <<conf, call, said, words, stood, nudgedAt, ladder, disk, board, hook, flags, build, late,
                 session, hist>>

(* The quality gate: the same, and not on money that is gone.              *)
Quality ==
  /\ phase = "quality"
  /\ \/ phase' = "claims" /\ UNCHANGED <<why, hand, n, over, stall>>
     \/ /\ Has("quality") /\ script # "none" /\ n["quality"] < MaxQuality /\ ~over
        /\ Count("quality") /\ Bills
        /\ \/ phase' = "claims" /\ UNCHANGED <<why, hand, stall>>
           \/ Again /\ Forget
  /\ UNCHANGED <<conf, call, said, words, stood, nudgedAt, ladder, disk, board, hook, flags, build, pool,
                 late, session, hist>>

(* Past Cascade text-only completions in a row the evidence gates stand    *)
(* down, for the rest of the turn.                                         *)
StandDown == stood \/ words > Cascade
StoodDown == stood' = StandDown /\ degraded' = (degraded \/ StandDown)

(* A gate's turn: once, to a text, and not past the cascade.               *)
Ask(a) ==
  /\ phase = "claims" /\ Has("asks") /\ Voiced /\ ~StandDown /\ a \notin asked
  /\ asked' = asked \cup {a} /\ Again /\ Forget
  /\ UNCHANGED <<conf, call, n, nudged, heard, words, stood, nudgedAt, ladder, disk, board, hook, flags, build, money,
                 session, hist>>

(* The open-section guard, which no cascade silences: of each section      *)
(* once, whichever of them is the plan's when a completion comes here.     *)
SectionAsk(x) ==
  /\ phase = "claims" /\ Has("section") /\ x \notin nudged
  /\ nudged' = nudged \cup {x} /\ Again /\ Forget /\ StoodDown
  /\ UNCHANGED <<conf, call, n, asked, heard, words, nudgedAt, ladder, disk, board, hook, saw, build, money,
                 session, hist>>

Believed ==
  /\ phase = "claims"
  /\ phase' = "fresh" /\ UNCHANGED <<why, hand>> /\ StoodDown
  /\ UNCHANGED <<conf, call, n, said, words, nudgedAt, stall, ladder, disk, board, hook, saw, build, money,
                 session, hist>>

ReviewDue == /\ Has("review") /\ n["review"] < MaxReviews
             /\ (plan = "steps" \/ probing = "closed") /\ open = 0 /\ probing # "open"
             /\ ~Has("skill")

(* Fresh eyes on the finished plan: a gap becomes an open step.            *)
ReviewRejects ==
  /\ phase = "fresh" /\ ReviewDue
  /\ Count("review") /\ Bills /\ plan' = "steps" /\ open' = 1 /\ UNCHANGED probing
  /\ Again /\ Forget
  /\ UNCHANGED <<conf, call, said, words, stood, nudgedAt, ladder, disk, hook, flags, build, pool,
                 late, session, hist>>

(* The turn would end completed.                                           *)
Completes ==
  /\ phase = "fresh"
  /\ IF ReviewDue THEN Count("review") /\ Bills ELSE UNCHANGED <<n, over>>
  /\ Fire("completed")
  /\ pool' = (IF Voiced THEN pool ELSE Refunded)
  /\ UNCHANGED <<conf, call, said, words, stood, nudgedAt, stall, ladder, disk, board, hook, flags, build,
                 late, session, hist>>

-----------------------------------------------------------------------------
(* A completion with tool calls.                                           *)

(* Mutant of Doomed: one repeat more. *)
DoomedLate == repeat > DoomThreshold

Doomed == repeat >= DoomThreshold

(* The doom-loop guard: the same batch again and again. Once, it answers   *)
(* the batch unexecuted and says so; after that the turn would end.        *)
DoomRecover ==
  /\ phase = "tools" /\ Doomed /\ n["doom"] < MaxDoom
  /\ Count("doom") /\ Again /\ Forget
  /\ pending' = FALSE /\ UNCHANGED split /\ degraded' = TRUE
  /\ UNCHANGED <<conf, call, said, words, stood, nudgedAt, ladder, disk, board, hook, saw, build, money, hist>>

DoomStops ==
  /\ phase = "tools" /\ Doomed /\ n["doom"] = MaxDoom
  /\ Fire("doom_loop")
  /\ UNCHANGED <<conf, call, counts, stall, ladder, disk, board, hook, flags, build, money, session, hist>>

(* _plan_first_blocks: deep work, and no plan of the model's.              *)
Unplanned == /\ Has("planfirst") /\ plan \in {"none", "anchor"} /\ probing = "no"
             /\ n["planfirst"] < MaxPlanFirst

(* The batch is withheld, but for the wake-up calls in it, which run; its  *)
(* unit goes back either way.                                              *)
PlanFirst ==
  /\ phase = "tools" /\ ~Doomed /\ Unplanned
  /\ Count("planfirst") /\ Again /\ Forget
  /\ pending' = FALSE /\ UNCHANGED split
  /\ pool' = Refunded /\ UNCHANGED <<over, late>>
  /\ \/ UNCHANGED ran
     \/ worked' = worked + 1 /\ excused' = excused + 1
  /\ UNCHANGED <<conf, call, said, words, stood, nudgedAt, ladder, disk, board, hook, flags, build, batches>>

(* What a plan call may make of the board, as <<plan, open, probing>>: it   *)
(* lays out steps, or marks those that are there.                          *)
Replanned ==
  LET probes == IF probing = "no" THEN {"no"} ELSE {"no", "open", "closed"}
  IN  ({"steps"} \X (0..MaxSteps) \X probes) \cup ({plan} \X {0, open} \X probes)

(* A skill call with a newer build installed: the turn ends, and the fresh *)
(* process makes the call. Plan and wake-up calls beside it run first; the *)
(* unit goes back either way.                                              *)
RestartAtSkill ==
  /\ phase = "tools" /\ ~Doomed /\ newer
  /\ End("restart")
  /\ restart' = TRUE /\ UNCHANGED newer
  /\ pending' = FALSE /\ UNCHANGED split
  /\ pool' = Refunded /\ UNCHANGED <<over, late>>
  /\ \/ UNCHANGED <<ran, board>>
     \/ /\ worked' = worked + 1 /\ excused' = excused + 1
        /\ \/ UNCHANGED board
           \/ /\ Has("plan")
              /\ \E b \in Replanned : plan' = b[1] /\ open' = b[2] /\ probing' = b[3]
  /\ UNCHANGED <<conf, call, counts, stall, ladder, disk, hook, flags, batches>>

(* What a batch does, or is answered: "refused" is the plan-only bound's. *)
Work == {"write", "run", "check", "plan", "skill", "look", "denied", "refused"}

(* What a batch may do: a write waits for a plan, and a narrowed iteration *)
(* runs what only reads.                                                   *)
May(w) ==
  /\ w = "write" => ~Unplanned /\ (Has("recipe") \/ Has("checks"))
  /\ w = "run" => Has("recipe") /\ script # "none"
  /\ w = "check" => Has("checks")
  /\ w \in {"plan", "refused"} => Has("plan") \/ Has("planfirst")
  /\ w = "skill" => conf.hook
  /\ w = "denied" => Has("denied") \/ narrow = "now"
  /\ w \in {"write", "run", "check"} => narrow # "now"

(* RecipeCursor.observe and VerificationGate.observe: a write takes back   *)
(* the run of the file, of several files a run may miss one; the checks,   *)
(* once passed, stay passed.                                               *)
Observed(w) ==
  /\ \/ /\ w = "write" /\ Has("recipe")
        /\ script' = "unrun" /\ files' \in (IF files = 0 THEN 1 ELSE files)..MaxFiles
     \/ /\ w = "run"
        /\ script' \in (IF files = 1 THEN {"ran"} ELSE {script, "ran"}) /\ UNCHANGED files
     \/ w # "run" /\ ~(w = "write" /\ Has("recipe")) /\ UNCHANGED <<script, files>>
  /\ changed' = (changed \/ w = "write")
  /\ passed' \in {passed, passed \/ w = "check"}
  /\ UNCHANGED released

(* The board after the batch: the model's plan, or the request anchor,     *)
(* planted under deep work where there is none.                            *)
Boards(w) ==
  CASE w = "plan" -> Replanned
    [] w \notin {"plan", "refused"} /\ plan = "none" /\ probing = "no" /\ Has("planfirst") ->
         {<<"anchor", 1, "no">>}
    [] OTHER -> {<<plan, open, probing>>}

(* StuckTracker.observe: the streak breaks, grows, or jumps to the rung of *)
(* a result seen k times.                                                  *)
Streaks == IF Has("stuck")
           THEN {0, streak + 1} \cup {k \in NudgeAt..StopAt : k <= batches /\ k > streak}
           ELSE {0}

(* next_action says STOP.                                                  *)
StopsAt(s) == s >= StopAt \/ (s = StepBackAt /\ stepped)

(* The recovery ladder on the new streak; b is the board the batch left.   *)
(* Its first rung puts investigation steps on it, or points at open ones.  *)
Climb(s, b) ==
  /\ plan' = b[1] /\ open' = b[2]
  /\ probing' = (IF s = NudgeAt THEN "open" ELSE b[3])
  /\ acted' = (acted \/ s >= NudgeAt)
  /\ narrow' = (IF s = NarrowAt THEN "next" ELSE narrow)
  /\ stepped' = (stepped \/ s = StepBackAt)
  /\ streak' = (IF s = StepBackAt /\ ~StopsAt(s) THEN 0 ELSE s)
  /\ IF StopsAt(s) THEN Fire("stuck") ELSE Again

RunBatch(w) ==
  /\ phase = "tools" /\ ~Doomed /\ w \in Work /\ May(w)
  /\ pending' = FALSE /\ UNCHANGED split
  /\ pool' = (IF w = "denied" THEN Refunded ELSE pool)
  /\ worked' = worked + (IF w \in {"denied", "refused"} THEN 0 ELSE 1) /\ UNCHANGED excused
  /\ Bills /\ UNCHANGED late
  /\ fails' = (IF w = "skill" THEN 0 ELSE fails)
  /\ \E b \in Boards(w) :
       \/ /\ \E e \in {"fatal", "awaiting_user"} : Has(e) /\ End(e)
          /\ plan' = b[1] /\ open' = b[2] /\ probing' = b[3]
          /\ UNCHANGED <<disk, ladder, streak>>
       \/ /\ Observed(w)
          /\ \E s \in Streaks : Climb(s, b)
  /\ UNCHANGED <<conf, call, counts, repeat, plains, refusals, flags, build, batches>>

-----------------------------------------------------------------------------
(* The turn-end hook: _fire_turn_end, and what the break site does then.   *)

(* The doom guard answers the batch it never ran when the hook has spoken. *)
Answers == pending' = FALSE

HookAllows ==
  /\ phase = "hook"
  /\ End(why)
  /\ pool' = (IF why = "gave_up" THEN Refunded ELSE pool)
  /\ Answers /\ UNCHANGED split
  /\ UNCHANGED <<conf, call, counts, stall, ladder, disk, board, hook, flags, build, over, late, hist>>

(* The refusal goes to the next process: a newer build is installed.       *)
HookRestarts ==
  /\ phase = "hook" /\ conf.hook /\ newer
  /\ End(why)
  /\ restart' = TRUE /\ UNCHANGED newer
  /\ pool' = (IF why = "gave_up" THEN Refunded ELSE pool)
  /\ Answers /\ UNCHANGED split
  /\ UNCHANGED <<conf, call, counts, stall, ladder, disk, board, hook, flags, over, late, hist>>

(* The fence: too many refusals that named a skill, and none ran.          *)
HookFenced ==
  /\ phase = "hook" /\ conf.hook /\ ~newer /\ fails = VetoStall
  /\ End("veto_stall")
  /\ pool' = (IF why = "gave_up" THEN Refunded ELSE pool)
  /\ Answers /\ UNCHANGED split
  /\ UNCHANGED <<conf, call, counts, stall, ladder, disk, board, hook, flags, build, over, late, hist>>

(* Mutant of Owned: a file let go unrun is not spoken of. *)
OwnedQuietly == degraded \/ why = "provider_error"

(* turn_degraded where the hook refused a failed call or a stalled recipe. *)
Owned == degraded \/ why \in {"provider_error", "recipe_stalled"}

(* The hook refuses the ending, in plain words or naming a skill. The      *)
(* message goes into the session first, then the break site does its part: *)
(* the recipe cursor lets go (stand_down) of the files it could not run.   *)
HookRefuses ==
  /\ phase = "hook" /\ conf.hook /\ ~newer
  /\ \/ plains < MaxPlain /\ plains' = plains + 1 /\ UNCHANGED fails
     \/ fails < VetoStall /\ fails' = fails + 1 /\ UNCHANGED plains
  /\ refusals' = refusals + (IF why = "provider_error" THEN 1 ELSE 0)
  /\ split' = (split \/ pending) /\ Answers
  /\ degraded' = Owned
  /\ IF why = "recipe_stalled"
     THEN script' = "none" /\ files' = 0 /\ released' = TRUE /\ n' = [n EXCEPT !["recipe"] = 0]
     ELSE UNCHANGED <<script, files, released, n>>
  /\ Again /\ Forget
  /\ UNCHANGED <<conf, call, said, words, stood, nudgedAt, ladder, changed, passed, board, saw, build,
                 money, hist>>

(* The task of the turn is cancelled, at any await. *)
Cancel ==
  /\ phase # "ended"
  /\ End("cancelled")
  /\ UNCHANGED <<conf, call, counts, stall, ladder, disk, board, hook, flags, build, money, session, hist>>

Ended == phase = "ended" /\ UNCHANGED vars

-----------------------------------------------------------------------------
Attempt == Deltas \/ Overflow \/ Failover \/ RateLimited \/ Interrupted \/ Filtered
           \/ CallFails \/ FilteredOut
Call == NoneLeft \/ Grant \/ Attempt \/ Degenerates \/ Apologises \/ \E c \in Kinds : Complete(c)
Rail == LengthContinue \/ RecipeNudge \/ RecipeStalls \/ ChecksNudge \/ ChecksFail \/ ScopeAsk
        \/ PlanNudge \/ CoverageAsk \/ SilentRetry \/ GivesUp \/ Parrots \/ Stands
Gate == Critic \/ Quality \/ Believed \/ ReviewRejects \/ Completes
        \/ (\E a \in Asks : Ask(a)) \/ (\E x \in Sections : SectionAsk(x))
Batch == DoomRecover \/ DoomStops \/ PlanFirst \/ RestartAtSkill \/ \E w \in Work : RunBatch(w)
TurnEnd == HookAllows \/ HookRestarts \/ HookFenced \/ HookRefuses

Step == Call \/ Rail \/ Gate \/ Batch \/ TurnEnd
Next == Step \/ HorizonPasses \/ Installed \/ Cancel \/ Ended

Spec == Init /\ [][Next]_vars
(* What the loop awaits (the provider, a tool, a hook, a person it asks)   *)
(* comes back, and the clock runs; a build and a cancel may never come.    *)
LiveSpec == Spec /\ WF_vars(Step) /\ WF_vars(HorizonPasses)

-----------------------------------------------------------------------------
(* A request is never sent, and a turn never ends, with a tool call that   *)
(* has no result, but for a cancelled turn: every path that drops a batch  *)
(* (the ceiling, the doom loop, the plan-first gate, a restart) answers it.*)
EveryCallAnswered == phase \in {"top", "call", "ended"} /\ why # "cancelled" => ~pending

(* Once the ceiling is crossed, whoever crossed it, the turn pays for one  *)
(* completion more and for those it throws away unread, however often a    *)
(* hook or a rail sends it round; and for what a filter withholds, of each *)
(* call until the hook may refuse a failing provider no more, because a    *)
(* call that fails is never asked for the ceiling.                         *)
Discards == MaxDegen + MaxApology
Samples == 1 + MaxFilter * (IF conf.stream THEN 1 ELSE 1 + MaxContext)
OvershootBounded ==
  /\ late <= 1 + Discards
  /\ withheld <= MaxFilter + Samples * (MaxProviderVetoes + 1) * (1 + Discards)

(* A turn that ends completed has run what it wrote last, or its recipe    *)
(* gate let the files go when a hook refused to let it give up, and then   *)
(* the turn says so (degraded); it passed the checks when it changed code, *)
(* said something, and says so too if it leaves a plan open - whichever    *)
(* rails, refusals and batches came between.                               *)
CompletedMeansDone ==
  phase = "ended" /\ why = "completed" =>
    /\ saw
    /\ Has("recipe") /\ changed => script = "ran" \/ (script = "none" /\ released)
    /\ released => degraded
    /\ Has("checks") /\ changed => passed
    /\ open > 0 => degraded

(* What the pool holds and the iterations that ran a call of the model's   *)
(* never add up to more than it was given, but for those the code excuses: *)
(* a batch the plan-first gate withheld, where a wake-up call ran, and the *)
(* one a restart at a skill took, where plan and wake-up calls did. No     *)
(* iteration is given back twice, and no other one that ran a call.        *)
PoolIsSound == conf.units > 0 =>
  /\ pool >= 0 /\ pool + worked <= conf.units + excused
  /\ excused <= n["planfirst"] + (IF why = "restart" THEN 1 ELSE 0)

(* A turn whose model stops sending batches and whose hook stops refusing  *)
(* ends, whatever the completions say: no set of rails keeps it going.     *)
TurnEnds == <>(phase = "ended")

(* A request carries the results of each call right after it (what strict  *)
(* providers ask for): no user message between them.                       *)
ResultsFollowCalls == phase = "call" => ~split
=============================================================================
