-------------------------- MODULE TurnLoop_proof --------------------------
(***************************************************************************)
(* Proofs about TurnLoop for every set of confs, every cap and every bound:*)
(* its invariants, and FuelBurns, a measure on the state that every step   *)
(* but the wait for a rate limit lowers.                                   *)
(***************************************************************************)
EXTENDS TurnLoop, FiniteSetTheorems, TLAPS

USE TurnsAssumption, CapsAssumption

-----------------------------------------------------------------------------
(* A call without a result is in a batch the loop holds, or was held when the turn was cancelled. *)
AnsweredInv == pending => phase \in {"tools", "hook"} \/ (phase = "ended" /\ why = "cancelled")

LEMMA InitAnswered == Init => AnsweredInv
BY DEF Init, AnsweredInv

LEMMA NextAnswered == AnsweredInv /\ [Next]_vars => AnsweredInv'
<1> SUFFICES ASSUME AnsweredInv, [Next]_vars PROVE AnsweredInv'
  OBVIOUS
<1> USE DEF AnsweredInv, End, Fire, Again, turn, session
<1>1. CASE Call
  <2> USE DEF NoneLeft, Grant, Attempt, Deltas, Overflow, Failover, RateLimited, Interrupted,
             Filtered, CallFails, FilteredOut, Fails, Retried, Degenerates, Apologises
  <2>1. ASSUME NEW c \in Kinds, Complete(c) PROVE AnsweredInv'
    BY <2>1 DEF Complete, BudgetStops
  <2> QED
    BY <1>1, <2>1 DEF Call
<1>2. CASE Rail
  BY <1>2 DEF Rail, LengthContinue, RecipeNudge, RecipeStalls, ChecksNudge, ChecksFail, ScopeAsk,
              PlanNudge, CoverageAsk, SilentRetry, GivesUp, Parrots, Stands, AtRun, AtChecks,
              AtPlan, AtRest, AtVoice
<1>3. CASE Gate
  <2>1. ASSUME NEW a \in Asks, Ask(a) PROVE AnsweredInv'
    BY <2>1 DEF Ask
  <2>2. ASSUME NEW x \in Sections, SectionAsk(x) PROVE AnsweredInv'
    BY <2>2 DEF SectionAsk
  <2> QED
    BY <1>3, <2>1, <2>2 DEF Gate, Critic, Quality, Believed, ReviewRejects, Completes
<1>4. CASE Batch
  <2>1. ASSUME NEW w \in Work, RunBatch(w) PROVE AnsweredInv'
    BY <2>1 DEF RunBatch, Climb
  <2> QED
    BY <1>4, <2>1 DEF Batch, DoomRecover, DoomStops, PlanFirst, RestartAtSkill
<1>5. CASE TurnEnd
  BY <1>5 DEF TurnEnd, HookAllows, HookRestarts, HookFenced, HookRefuses, Answers
<1>6. CASE HorizonPasses \/ Installed \/ Cancel \/ Ended \/ UNCHANGED vars
  BY <1>6 DEF HorizonPasses, Installed, Cancel, Ended, vars
<1> QED
  BY <1>1, <1>2, <1>3, <1>4, <1>5, <1>6 DEF Next, Step

(* A request is never sent and a turn never ends with a call unanswered (EveryCallAnswered).  *)
THEOREM EveryCallAnsweredAlways == Spec => []EveryCallAnswered
<1>1. AnsweredInv => EveryCallAnswered
  BY DEF AnsweredInv, EveryCallAnswered
<1> QED
  BY InitAnswered, NextAnswered, <1>1, PTL DEF Spec

-----------------------------------------------------------------------------
(* What was paid late is what was thrown away since, and one more once the turn is over. *)
Thrown == n["degen"] + n["apology"]

LateInv ==
  /\ n \in [Rails -> Nat] /\ n["degen"] <= MaxDegen /\ n["apology"] <= MaxApology
  /\ n["failover"] <= 1 /\ n["filter"] <= MaxFilter /\ n["context"] <= MaxContext
  /\ over \in BOOLEAN /\ late \in Nat
  /\ late <= Thrown + 1
  /\ phase # "ended" => late <= Thrown

LEMMA InitLate == Init => LateInv
<1> SUFFICES ASSUME Init PROVE LateInv
  OBVIOUS
<1>1. over \in BOOLEAN
  BY Zenon DEF Init
<1>2. n \in [Rails -> Nat] /\ n["degen"] = 0 /\ n["apology"] = 0 /\ late = 0
  BY DEF Init, Rails
<1>3. n["failover"] = 0 /\ n["filter"] = 0 /\ n["context"] = 0
  BY DEF Init, Rails
<1> QED
  BY <1>1, <1>2, <1>3 DEF LateInv, Thrown, MaxDegen, MaxApology, MaxFilter, MaxContext

LEMMA NextLate == LateInv /\ [Next]_vars => LateInv'
<1> SUFFICES ASSUME LateInv, [Next]_vars PROVE LateInv'
  OBVIOUS
<1> USE DEF LateInv, Thrown, MaxDegen, MaxApology, MaxFilter, MaxContext, NewBudget, End, Fire, Again, Bills, turn, counts, money
<1>1. CASE Call
  <2>1. ASSUME NEW c \in Kinds, Complete(c) PROVE LateInv'
    <3>1. /\ n' \in [Rails -> Nat]
          /\ \A k \in {"degen", "apology", "failover", "filter", "context"} : n'[k] = n[k]
      BY <2>1 DEF Complete, Rails
    <3>2. over' \in BOOLEAN /\ (over => over')
      BY <2>1, Zenon DEF Complete
    <3>3. phase = "call" /\ late' = late + (IF over THEN 1 ELSE 0) /\ (over' => phase' = "ended")
      BY <2>1 DEF Complete, Late, Overspent, BudgetStops
    <3> QED
      BY <3>1, <3>2, <3>3 DEF Rails
  <2>2. CASE Degenerates
    <3>1. over' \in BOOLEAN /\ phase = "call" /\ late' = late + (IF over THEN 1 ELSE 0)
      BY <2>2, Zenon DEF Degenerates, Late
    <3>2. CASE n["degen"] < MaxDegen /\ Count("degen") /\ Again
      BY <3>1, <3>2 DEF Count, Rails
    <3>3. CASE UNCHANGED n /\ End("degenerated")
      BY <3>1, <3>3 DEF Rails
    <3> QED
      BY <2>2, <3>2, <3>3 DEF Degenerates
  <2>3. CASE Apologises
    <3>1. over' \in BOOLEAN /\ phase = "call" /\ late' = late + (IF over THEN 1 ELSE 0)
      BY <2>3, Zenon DEF Apologises, Late
    <3> QED
      BY <2>3, <3>1 DEF Apologises, Count, Rails
  <2>4. CASE Grant \/ Overflow \/ Filtered
    <3>1. over' \in BOOLEAN
      BY <2>4, Zenon DEF Grant, Overflow, Filtered, Withholds
    <3> QED
      BY <2>4, <3>1 DEF Grant, Overflow, Filtered, Retried, Count, Rails
  <2>5. CASE NoneLeft \/ Failover \/ Deltas \/ RateLimited \/ Interrupted
    BY <2>5 DEF NoneLeft, Failover, Deltas, RateLimited, Interrupted, Retried, Count, Rails
  <2>6. CASE CallFails \/ FilteredOut
    <3>1. over' \in BOOLEAN
      BY <2>6, Zenon DEF CallFails, FilteredOut, Withholds
    <3> QED
      BY <2>6, <3>1 DEF CallFails, FilteredOut, Fails
  <2> QED
    BY <1>1, <2>1, <2>2, <2>3, <2>4, <2>5, <2>6 DEF Call, Attempt
<1>2. CASE Rail
  <2> USE DEF AtRun, AtChecks, AtPlan, AtRest, AtVoice
  <2>1. CASE PlanNudge
    <3>1. Nudges \in Nat
      BY DEF Nudges, Rails
    <3>2. n' = [n EXCEPT !["plan"] = Nudges + 1]
      BY <2>1 DEF PlanNudge
    <3>3. /\ n' \in [Rails -> Nat]
          /\ \A k \in {"degen", "apology", "failover", "filter", "context"} : n'[k] = n[k]
      BY <3>1, <3>2 DEF Rails
    <3>4. UNCHANGED <<over, late>> /\ phase = "words" /\ phase' = "top"
      BY <2>1 DEF PlanNudge
    <3> QED
      BY <3>3, <3>4
  <2>2. CASE LengthContinue \/ RecipeNudge \/ ChecksNudge \/ ScopeAsk \/ CoverageAsk
             \/ SilentRetry \/ Parrots
    BY <2>2 DEF LengthContinue, RecipeNudge, ChecksNudge, ScopeAsk, CoverageAsk, SilentRetry,
                Parrots, Count, Rails
  <2>3. CASE RecipeStalls \/ ChecksFail \/ GivesUp \/ Stands
    BY <2>3 DEF RecipeStalls, ChecksFail, GivesUp, Stands
  <2> QED
    BY <1>2, <2>1, <2>2, <2>3 DEF Rail
<1>3. CASE Gate
  <2>0. over' \in BOOLEAN
    <3>1. ASSUME NEW a \in Asks, Ask(a) PROVE over' \in BOOLEAN
      BY <3>1 DEF Ask
    <3>2. ASSUME NEW x \in Sections, SectionAsk(x) PROVE over' \in BOOLEAN
      BY <3>2 DEF SectionAsk
    <3> QED
      BY <1>3, <3>1, <3>2, Zenon DEF Gate, Critic, Quality, Believed, ReviewRejects, Completes
  <2>1. ASSUME NEW a \in Asks, Ask(a) PROVE LateInv'
    BY <2>1 DEF Ask
  <2>2. CASE Critic \/ Quality
    BY <2>0, <2>2 DEF Critic, Quality, Count, Rails
  <2>3. ASSUME NEW x \in Sections, SectionAsk(x) PROVE LateInv'
    BY <2>3 DEF SectionAsk
  <2>5. CASE Believed
    BY <2>5 DEF Believed
  <2>4. CASE ReviewRejects \/ Completes
    BY <2>0, <2>4 DEF ReviewRejects, Completes, Count, Rails
  <2> QED
    BY <1>3, <2>1, <2>2, <2>3, <2>4, <2>5 DEF Gate
<1>4. CASE Batch
  <2>1. ASSUME NEW w \in Work, RunBatch(w) PROVE LateInv'
    <3>1. over' \in BOOLEAN
      BY <2>1, Zenon DEF RunBatch
    <3> QED
      BY <2>1, <3>1 DEF RunBatch, Climb
  <2> QED
    BY <1>4, <2>1 DEF Batch, DoomRecover, DoomStops, PlanFirst, RestartAtSkill, Count, Rails
<1>5. CASE TurnEnd
  BY <1>5 DEF TurnEnd, HookAllows, HookRestarts, HookFenced, HookRefuses, Rails
<1>6. CASE HorizonPasses
  BY <1>6 DEF HorizonPasses, Rails
<1>7. CASE Installed \/ Cancel \/ Ended \/ UNCHANGED vars
  BY <1>7 DEF Installed, Cancel, Ended, vars
<1> QED
  BY <1>1, <1>2, <1>3, <1>4, <1>5, <1>6, <1>7 DEF Next, Step

-----------------------------------------------------------------------------
(* A turn on its way to "completed" owes nothing from the moment the rails let it pass: only
   gates that ask, or nothing at all, come between, and what they change goes round again.  At
   every moment the cursor holds a file once code was written, or has let files go, and then the
   turn is degraded: nothing takes that back.                                               *)
Passing == \/ phase \in {"critic", "quality", "claims", "fresh"}
           \/ (phase \in {"hook", "ended"} /\ why = "completed")

Done == /\ saw
        /\ Has("recipe") => script # "unrun"
        /\ Has("checks") /\ changed => passed
        /\ open > 0 => degraded

Held == /\ script \in {"none", "unrun", "ran"}
        /\ Has("recipe") /\ changed => script # "none" \/ released
        /\ released => degraded

DoneInv == /\ phase = "words" /\ Voiced => saw
           /\ Passing => Done

LEMMA InitHeld == Init => Held
BY DEF Init, Held

LEMMA NextHeld == Held /\ [Next]_vars => Held'
<1> SUFFICES ASSUME Held, [Next]_vars PROVE Held'
  OBVIOUS
<1> USE DEF Held, Has, disk, flags
<1>1. CASE Call
  <2>1. ASSUME NEW c \in Kinds, Complete(c) PROVE Held'
    BY <2>1 DEF Complete
  <2> QED
    BY <1>1, <2>1 DEF Call, NoneLeft, Grant, Attempt, Deltas, Overflow, Failover, RateLimited,
             Interrupted, Filtered, CallFails, FilteredOut, Fails, Retried, Degenerates, Apologises
<1>2. CASE Rail
  <2>0. ASSUME PlanGatePassed PROVE degraded => degraded'
    BY <2>0 DEF PlanGatePassed
  <2>1. CASE LengthContinue \/ RecipeStalls \/ ChecksNudge \/ ChecksFail \/ ScopeAsk
    BY <2>1 DEF LengthContinue, RecipeStalls, ChecksNudge, ChecksFail, ScopeAsk
  <2>2. CASE RecipeNudge
    BY <2>2 DEF RecipeNudge, NeedsRun
  <2>3. CASE PlanNudge \/ CoverageAsk \/ GivesUp \/ Parrots
    BY <2>0, <2>3 DEF PlanNudge, CoverageAsk, GivesUp, Parrots
  <2>4. CASE SilentRetry \/ Stands
    <3>1. degraded => degraded'
      BY <2>0, <2>4, Zenon DEF SilentRetry, Stands
    <3> QED
      BY <2>4, <3>1 DEF SilentRetry, Stands
  <2> QED
    BY <1>2, <2>1, <2>2, <2>3, <2>4 DEF Rail
<1>3. CASE Gate
  <2>1. ASSUME NEW a \in Asks, Ask(a) PROVE Held'
    BY <2>1 DEF Ask
  <2>2. ASSUME NEW x \in Sections, SectionAsk(x) \/ Believed PROVE Held'
    <3>1. degraded => degraded'
      BY <2>2, Zenon DEF SectionAsk, Believed, StoodDown
    <3> QED
      BY <2>2, <3>1 DEF SectionAsk, Believed
  <2>3. CASE Believed
    <3>1. degraded => degraded'
      BY <2>3, Zenon DEF Believed, StoodDown
    <3> QED
      BY <2>3, <3>1 DEF Believed
  <2> QED
    BY <1>3, <2>1, <2>2, <2>3 DEF Gate, Critic, Quality, ReviewRejects, Completes
<1>4. CASE Batch
  <2>1. ASSUME NEW w \in Work, RunBatch(w) PROVE Held'
    <3>1. CASE UNCHANGED disk
      BY <2>1, <3>1 DEF RunBatch
    <3>2. CASE Observed(w)
      <4>1. /\ script' \in {"none", "unrun", "ran"} /\ (script # "none" => script' # "none")
            /\ changed' = (changed \/ w = "write") /\ released' = released
            /\ w = "write" /\ Has("recipe") => script' # "none"
        BY <3>2 DEF Observed
      <4> QED
        BY <2>1, <4>1 DEF RunBatch
    <3> QED
      BY <2>1, <3>1, <3>2 DEF RunBatch
  <2> QED
    BY <1>4, <2>1 DEF Batch, DoomRecover, DoomStops, PlanFirst, RestartAtSkill
<1>5. CASE TurnEnd
  <2>1. CASE HookRefuses
    BY <2>1 DEF HookRefuses, Owned
  <2> QED
    BY <1>5, <2>1 DEF TurnEnd, HookAllows, HookRestarts, HookFenced
<1>6. CASE HorizonPasses \/ Installed \/ Cancel \/ Ended \/ UNCHANGED vars
  BY <1>6 DEF HorizonPasses, Installed, Cancel, Ended, vars
<1> QED
  BY <1>1, <1>2, <1>3, <1>4, <1>5, <1>6 DEF Next, Step

LEMMA InitDone == Init => DoneInv
BY DEF Init, DoneInv, Passing, Voiced

LEMMA NextDone == DoneInv /\ [Next]_vars => DoneInv'
<1> SUFFICES ASSUME DoneInv, [Next]_vars PROVE DoneInv'
  OBVIOUS
<1> USE DEF DoneInv, Passing, Done, Has, Voiced, End, Fire, Again, turn, board, disk, flags
<1>1. CASE Call
  <2>1. ASSUME NEW c \in Kinds, Complete(c) PROVE DoneInv'
    <3>1. (c \in {"text", "cut"} => saw') /\ ~Passing'
      BY <2>1 DEF Complete, BudgetStops
    <3>2. phase' = "words" => hand' = c
      BY <2>1 DEF Complete, BudgetStops
    <3> QED
      BY <3>1, <3>2
  <2>2. CASE NoneLeft \/ Grant \/ Attempt \/ Degenerates \/ Apologises
    BY <2>2 DEF NoneLeft, Grant, Attempt, Deltas, Overflow, Failover, RateLimited, Interrupted,
             Filtered, CallFails, FilteredOut, Fails, Retried, Degenerates, Apologises
  <2> QED
    BY <1>1, <2>1, <2>2 DEF Call
<1>2. CASE Rail
  <2>1. CASE Stands
    <3>1. AtVoice /\ phase = "words" /\ ~NeedsRun /\ ~NeedsChecks /\ ~Silence
      BY <2>1 DEF Stands, AtVoice, AtRest, AtPlan, AtChecks, AtRun
    <3>2. saw /\ (Has("recipe") => script # "unrun") /\ (Has("checks") /\ changed => passed)
      BY <3>1 DEF Silence, NeedsRun, NeedsChecks
    <3>3. open' = Owed /\ (Owed > 0 => degraded')
      BY <2>1, Zenon DEF Stands, PlanGatePassed
    <3> QED
      BY <2>1, <3>2, <3>3 DEF Stands
  <2>2. CASE LengthContinue \/ RecipeNudge \/ RecipeStalls \/ ChecksNudge \/ ChecksFail \/ ScopeAsk
    BY <2>2 DEF LengthContinue, RecipeNudge, RecipeStalls, ChecksNudge, ChecksFail, ScopeAsk
  <2>3. CASE PlanNudge \/ CoverageAsk \/ SilentRetry \/ GivesUp \/ Parrots
    BY <2>3 DEF PlanNudge, CoverageAsk, SilentRetry, GivesUp, Parrots
  <2> QED
    BY <1>2, <2>1, <2>2, <2>3 DEF Rail
<1>3. CASE Gate
  <2>1. ASSUME NEW a \in Asks, Ask(a) PROVE DoneInv'
    BY <2>1 DEF Ask
  <2>2. CASE Believed
    <3>1. Done /\ (degraded => degraded')
      BY <2>2 DEF Believed, StoodDown
    <3> QED
      BY <2>2, <3>1 DEF Believed
  <2>3. ASSUME NEW x \in Sections, SectionAsk(x) PROVE DoneInv'
    BY <2>3 DEF SectionAsk
  <2> QED
    BY <1>3, <2>1, <2>2, <2>3 DEF Gate, Critic, Quality, ReviewRejects, Completes
<1>4. CASE Batch
  <2>1. ASSUME NEW w \in Work, RunBatch(w) PROVE DoneInv'
    BY <2>1 DEF RunBatch, Climb
  <2> QED
    BY <1>4, <2>1 DEF Batch, DoomRecover, DoomStops, PlanFirst, RestartAtSkill
<1>5. CASE TurnEnd
  BY <1>5 DEF TurnEnd, HookAllows, HookRestarts, HookFenced, HookRefuses
<1>6. CASE HorizonPasses \/ Installed \/ Cancel \/ Ended \/ UNCHANGED vars
  BY <1>6 DEF HorizonPasses, Installed, Cancel, Ended, vars
<1> QED
  BY <1>1, <1>2, <1>3, <1>4, <1>5, <1>6 DEF Next, Step

(* A turn that ends completed has run what it wrote last, or its recipe gate let the files go and
   the turn says so; it passed its checks, said something and says so if it leaves a plan open
   (CompletedMeansDone).                                                                     *)
THEOREM CompletedMeansDoneAlways == Spec => []CompletedMeansDone
<1>1. DoneInv /\ Held => CompletedMeansDone
  BY DEF DoneInv, Held, Passing, Done, CompletedMeansDone
<1> QED
  BY InitDone, NextDone, InitHeld, NextHeld, <1>1, PTL DEF Spec

-----------------------------------------------------------------------------
(* Type correctness.  The flags first: they need no arithmetic. *)
Flags == /\ stood \in BOOLEAN /\ stepped \in BOOLEAN /\ acted \in BOOLEAN
         /\ changed \in BOOLEAN /\ passed \in BOOLEAN /\ released \in BOOLEAN
         /\ saw \in BOOLEAN /\ degraded \in BOOLEAN /\ newer \in BOOLEAN /\ restart \in BOOLEAN
         /\ over \in BOOLEAN /\ pending \in BOOLEAN /\ split \in BOOLEAN /\ streamed \in BOOLEAN

LEMMA InitFlags == Init => Flags
BY Zenon DEF Init, Flags

LEMMA NextFlags == Flags /\ [Next]_vars => Flags'
<1> SUFFICES ASSUME Flags, [Next]_vars PROVE Flags'
  OBVIOUS
<1> USE DEF Flags, End, Fire, Again, Bills, turn, counts, ladder, disk, flags, build, money, session,
            call
<1>1. CASE Call
  <2>1. ASSUME NEW c \in Kinds, Complete(c) PROVE Flags'
    <3>1. over' \in BOOLEAN
      BY <2>1, Zenon DEF Complete
    <3>2. pending' \in BOOLEAN
      BY <2>1, Zenon DEF Complete, BudgetStops
    <3>3. saw' \in BOOLEAN
      BY <2>1, Zenon DEF Complete
    <3> QED
      BY <2>1, <3>1, <3>2, <3>3 DEF Complete
  <2>2. CASE NoneLeft \/ Failover \/ CallFails \/ FilteredOut
    <3>1. over' \in BOOLEAN
      BY <2>2, Zenon DEF NoneLeft, Failover, CallFails, FilteredOut, Withholds
    <3> QED
      BY <2>2, <3>1 DEF NoneLeft, Failover, CallFails, FilteredOut, Fails
  <2>3. CASE Grant \/ Overflow
    <3>1. over' \in BOOLEAN /\ streamed' \in BOOLEAN
      BY <2>3, Zenon DEF Grant, Overflow
    <3> QED
      BY <2>3, <3>1 DEF Grant, Overflow
  <2>5. CASE Deltas \/ RateLimited \/ Interrupted \/ Filtered
    <3>1. streamed' \in BOOLEAN /\ over' \in BOOLEAN
      BY <2>5, Zenon DEF Deltas, RateLimited, Interrupted, Filtered, Retried, Withholds
    <3> QED
      BY <2>5, <3>1 DEF Deltas, RateLimited, Interrupted, Filtered, Retried
  <2>4. CASE Degenerates \/ Apologises
    <3>1. over' \in BOOLEAN /\ degraded' \in BOOLEAN
      BY <2>4, Zenon DEF Degenerates, Apologises
    <3> QED
      BY <2>4, <3>1 DEF Degenerates, Apologises
  <2> QED
    BY <1>1, <2>1, <2>2, <2>3, <2>4, <2>5 DEF Call, Attempt
<1>2. CASE Rail
  <2>1. CASE RecipeNudge \/ RecipeStalls \/ ChecksNudge \/ ChecksFail \/ ScopeAsk
    BY <2>1 DEF RecipeNudge, RecipeStalls, ChecksNudge, ChecksFail, ScopeAsk
  <2>2. CASE LengthContinue \/ CoverageAsk \/ SilentRetry \/ GivesUp \/ Parrots \/ Stands
    <3>1. degraded' \in BOOLEAN
      BY <2>2, Zenon DEF LengthContinue, CoverageAsk, SilentRetry, GivesUp, Parrots, Stands,
                         PlanGatePassed
    <3> QED
      BY <2>2, <3>1 DEF LengthContinue, CoverageAsk, SilentRetry, GivesUp, Parrots, Stands
  <2>3. CASE PlanNudge
    BY <2>3 DEF PlanNudge
  <2> QED
    BY <1>2, <2>1, <2>2, <2>3 DEF Rail
<1>3. CASE Gate
  <2>1. ASSUME NEW a \in Asks, Ask(a) PROVE Flags'
    BY <2>1 DEF Ask
  <2>2. CASE Critic \/ Quality \/ ReviewRejects \/ Completes
    <3>1. over' \in BOOLEAN
      BY <2>2, Zenon DEF Critic, Quality, ReviewRejects, Completes
    <3> QED
      BY <2>2, <3>1 DEF Critic, Quality, ReviewRejects, Completes
  <2>3. ASSUME NEW x \in Sections, SectionAsk(x) PROVE Flags'
    <3>1. stood' \in BOOLEAN /\ degraded' \in BOOLEAN
      BY <2>3, Zenon DEF SectionAsk, StoodDown, StandDown
    <3> QED
      BY <2>3, <3>1 DEF SectionAsk
  <2>4. CASE Believed
    <3>1. stood' \in BOOLEAN /\ degraded' \in BOOLEAN
      BY <2>4, Zenon DEF Believed, StoodDown, StandDown
    <3> QED
      BY <2>4, <3>1 DEF Believed
  <2> QED
    BY <1>3, <2>1, <2>2, <2>3, <2>4 DEF Gate
<1>4. CASE Batch
  <2>1. ASSUME NEW w \in Work, RunBatch(w) PROVE Flags'
    <3>1. over' \in BOOLEAN /\ pending' \in BOOLEAN
      BY <2>1, Zenon DEF RunBatch
    <3>2. changed' \in BOOLEAN /\ passed' \in BOOLEAN /\ released' \in BOOLEAN
      BY <2>1, Zenon DEF RunBatch, Observed
    <3>3. stepped' \in BOOLEAN /\ acted' \in BOOLEAN
      BY <2>1, Zenon DEF RunBatch, Climb
    <3> QED
      BY <2>1, <3>1, <3>2, <3>3 DEF RunBatch
  <2>2. CASE DoomRecover \/ DoomStops \/ PlanFirst \/ RestartAtSkill
    <3>1. pending' \in BOOLEAN /\ degraded' \in BOOLEAN /\ restart' \in BOOLEAN
      BY <2>2, Zenon DEF DoomRecover, DoomStops, PlanFirst, RestartAtSkill
    <3> QED
      BY <2>2, <3>1 DEF DoomRecover, DoomStops, PlanFirst, RestartAtSkill
  <2> QED
    BY <1>4, <2>1, <2>2 DEF Batch
<1>5. CASE TurnEnd
  <2>1. pending' \in BOOLEAN
    BY <1>5, Zenon DEF TurnEnd, HookAllows, HookRestarts, HookFenced, HookRefuses, Answers
  <2>2. CASE HookAllows \/ HookFenced
    BY <2>1, <2>2 DEF HookAllows, HookFenced
  <2>3. CASE HookRestarts
    <3>1. restart' \in BOOLEAN
      BY <2>3, Zenon DEF HookRestarts
    <3> QED
      BY <2>1, <2>3, <3>1 DEF HookRestarts
  <2>4. CASE HookRefuses
    <3>1. degraded' \in BOOLEAN /\ split' \in BOOLEAN /\ released' \in BOOLEAN
      BY <2>4, Zenon DEF HookRefuses, Owned
    <3> QED
      BY <2>1, <2>4, <3>1 DEF HookRefuses
  <2> QED
    BY <1>5, <2>2, <2>3, <2>4 DEF TurnEnd
<1>6. CASE Installed
  <2>1. newer' \in BOOLEAN
    BY <1>6, Zenon DEF Installed
  <2> QED
    BY <1>6, <2>1 DEF Installed
<1>7. CASE HorizonPasses \/ Cancel \/ Ended \/ UNCHANGED vars
  BY <1>7 DEF HorizonPasses, Cancel, Ended, vars, hook, hist
<1> QED
  BY <1>1, <1>2, <1>3, <1>4, <1>5, <1>6, <1>7 DEF Next, Step

(* Kept whole where nothing depends on it. *)
HeardOK == heard \in [1..MaxRecord + 1 -> Nat]

(* The guards stop short of their limits while the turn goes on: the stuck ladder stops it at
   the last rung, the doom guard at the last repeat, and a refused provider error was not yet
   refused too often.                                                                        *)
Values ==
  /\ conf \in Turns /\ phase \in Phases /\ why \in Reasons /\ hand \in Kinds
  /\ (phase \in {"ended", "hook"}) <=> (why # "none")
  /\ n \in [Rails -> Nat] /\ asked \subseteq Asks /\ nudged \subseteq Sections
  /\ HeardOK /\ words \in 0..Cascade + 1
  /\ repeat \in 0..DoomThreshold /\ streak \in 0..StopAt
  /\ phase \notin {"ended", "hook"} => streak < StopAt
  /\ phase \notin {"ended", "hook", "tools"} => repeat < DoomThreshold
  /\ narrow \in {"no", "next", "now"} /\ script \in {"none", "unrun", "ran"} /\ files \in 0..MaxFiles
  /\ pool \in Int /\ late \in Nat /\ withheld \in Nat

Counters ==
  /\ nudgedAt \in 0..MaxSteps + 1
  /\ plan \in {"none", "anchor", "steps"} /\ open \in 0..MaxSteps + 1
  /\ (plan = "none" => open = 0) /\ (plan = "anchor" => open \in 0..1)
  /\ probing \in {"no", "open", "closed"}
  /\ fails \in 0..VetoStall /\ plains \in 0..MaxPlain /\ refusals \in 0..MaxProviderVetoes
  /\ phase = "hook" /\ why = "provider_error" => refusals < MaxProviderVetoes
  /\ batches \in 0..conf.batches /\ worked \in 0..batches /\ excused \in 0..worked
  /\ phase = "tools" => worked < batches
LEMMA InitValues == Init => Values
BY DEF Init, Values, Rails, Phases, Reasons, Vetoable, Kinds, Cascade, DoomThreshold, StopAt, HeardOK,
       MaxRecord

LEMMA NextValues == Values /\ Flags /\ [Next]_vars => Values'
<1> SUFFICES ASSUME Values, Flags, [Next]_vars PROVE Values'
  OBVIOUS
<1> USE DEF Values, Phases, Reasons, Vetoable, Kinds, Rails, Cascade, DoomThreshold, StopAt,
            HeardOK, MaxRecord, End, Fire, Again, Forget, Count, turn, counts, said, stall, ladder, disk, money,
            call
<1>0. conf \in Turns => conf.units \in Nat
  OBVIOUS
<1>1. CASE Call
  <2> USE <1>0 DEF Refunded, Late
  <2>1. ASSUME NEW c \in Kinds, Complete(c) PROVE Values'
    BY <2>1 DEF Complete, BudgetStops
  <2>2. CASE NoneLeft \/ Grant \/ Overflow \/ Failover
    BY <2>2 DEF NoneLeft, Grant, Overflow, Failover, NewBudget
  <2>3. CASE Deltas \/ RateLimited \/ Interrupted \/ Filtered
    BY <2>3 DEF Deltas, RateLimited, Interrupted, Filtered, Retried, Withholds
  <2>5. CASE CallFails \/ FilteredOut
    BY <2>5 DEF CallFails, FilteredOut, Fails, Withholds
  <2>4. CASE Degenerates \/ Apologises
    BY <2>4 DEF Degenerates, Apologises
  <2> QED
    BY <1>1, <2>1, <2>2, <2>3, <2>4, <2>5 DEF Call, Attempt
<1>2. CASE Rail
  <2> USE <1>0 DEF Refunded, AtRun, AtChecks, AtPlan, AtRest, AtVoice
  <2>1. CASE LengthContinue \/ RecipeNudge \/ RecipeStalls
    BY <2>1 DEF LengthContinue, RecipeNudge, RecipeStalls
  <2>2. CASE ChecksNudge \/ ChecksFail \/ ScopeAsk
    BY <2>2 DEF ChecksNudge, ChecksFail, ScopeAsk
  <2>3. CASE PlanNudge
    <3>1. Nudges \in Nat
      BY DEF Nudges
    <3> QED
      BY <2>3, <3>1 DEF PlanNudge
  <2>4. CASE CoverageAsk \/ SilentRetry \/ GivesUp
    BY <2>4 DEF CoverageAsk, SilentRetry, GivesUp
  <2>5. CASE Parrots \/ Stands
    BY <2>5 DEF Parrots, Stands
  <2> QED
    BY <1>2, <2>1, <2>2, <2>3, <2>4, <2>5 DEF Rail
<1>3. CASE Gate
  <2> USE <1>0 DEF Refunded
  <2>1. ASSUME NEW a \in Asks, Ask(a) PROVE Values'
    BY <2>1 DEF Ask
  <2>2. CASE Critic \/ Quality
    BY <2>2 DEF Critic, Quality
  <2>3. ASSUME NEW x \in Sections, SectionAsk(x) PROVE Values'
    BY <2>3 DEF SectionAsk
  <2>4. CASE ReviewRejects \/ Completes
    BY <2>4 DEF ReviewRejects, Completes
  <2>5. CASE Believed
    BY <2>5 DEF Believed
  <2> QED
    BY <1>3, <2>1, <2>2, <2>3, <2>4, <2>5 DEF Gate
<1>4. CASE Batch
  <2> USE <1>0 DEF Refunded
  <2>1. ASSUME NEW w \in Work, RunBatch(w) PROVE Values'
    <3> USE DEF Doomed
    <3>1. pool' \in Int
      BY <2>1 DEF RunBatch
    <3>2. ASSUME NEW e \in {"fatal", "awaiting_user"}, End(e), UNCHANGED <<disk, ladder, streak>>
          PROVE  Values'
      BY <2>1, <3>1, <3>2 DEF RunBatch
    <3>3. ASSUME NEW b \in Boards(w), NEW k \in Streaks, Observed(w), Climb(k, b) PROVE Values'
      <4>1. k \in 0..StopAt
        BY <2>1 DEF Streaks, NudgeAt, RunBatch
      <4>2. script' \in {"none", "unrun", "ran"} /\ files' \in 0..MaxFiles
        BY <3>3 DEF Observed
      <4>3. /\ streak' = (IF k = StepBackAt /\ ~StopsAt(k) THEN 0 ELSE k)
            /\ narrow' = (IF k = NarrowAt THEN "next" ELSE narrow)
            /\ IF StopsAt(k) THEN Fire("stuck") ELSE Again
        BY <3>3 DEF Climb
      <4> QED
        BY <2>1, <3>1, <4>1, <4>2, <4>3 DEF RunBatch, StopsAt, StepBackAt, NarrowAt
    <3> QED
      BY <2>1, <3>2, <3>3 DEF RunBatch
  <2>2. CASE DoomRecover \/ DoomStops
    BY <2>2 DEF DoomRecover, DoomStops
  <2>3. CASE PlanFirst \/ RestartAtSkill
    BY <2>3 DEF PlanFirst, RestartAtSkill
  <2> QED
    BY <1>4, <2>1, <2>2, <2>3 DEF Batch
<1>5. CASE TurnEnd
  <2> USE <1>0 DEF Refunded
  <2>1. CASE HookAllows \/ HookRestarts \/ HookFenced
    BY <2>1 DEF HookAllows, HookRestarts, HookFenced
  <2>2. CASE HookRefuses
    BY <2>2 DEF HookRefuses
  <2> QED
    BY <1>5, <2>1, <2>2 DEF TurnEnd
<1>6. CASE HorizonPasses \/ Installed \/ Cancel \/ Ended \/ UNCHANGED vars
  BY <1>6 DEF HorizonPasses, Installed, Cancel, Ended, vars
<1> QED
  BY <1>1, <1>2, <1>3, <1>4, <1>5, <1>6 DEF Next, Step

LEMMA InitCounters == Init => Counters
BY DEF Init, Counters, VetoStall

(* A board keeps its shape, whatever a plan call or a batch makes of it. *)
Board(b) == /\ b[1] \in {"none", "anchor", "steps"} /\ b[2] \in 0..MaxSteps + 1
            /\ (b[1] = "none" => b[2] = 0) /\ (b[1] = "anchor" => b[2] \in 0..1)
            /\ b[3] \in {"no", "open", "closed"}

LEMMA ReplannedKept ==
  ASSUME Counters, NEW b \in Replanned
  PROVE  Board(b)
<1> DEFINE probes == IF probing = "no" THEN {"no"} ELSE {"no", "open", "closed"}
<1>1. \A p \in probes : p \in {"no", "open", "closed"}
  OBVIOUS
<1>2. CASE b \in {"steps"} \X (0..MaxSteps) \X probes
  BY <1>1, <1>2 DEF Board
<1>3. CASE b \in {plan} \X {0, open} \X probes
  BY <1>1, <1>3 DEF Board, Counters
<1> QED
  BY <1>2, <1>3 DEF Replanned

LEMMA BoardKept ==
  ASSUME Counters, NEW w \in Work, NEW b \in Boards(w)
  PROVE  Board(b)
<1>1. CASE w = "plan"
  BY <1>1, ReplannedKept DEF Boards
<1>2. CASE w # "plan" /\ b = <<"anchor", 1, "no">>
  BY <1>2 DEF Board
<1>3. CASE b = <<plan, open, probing>>
  BY <1>3 DEF Board, Counters
<1> QED
  BY <1>1, <1>2, <1>3 DEF Boards

LEMMA NextCounters == Values /\ Counters /\ [Next]_vars => Counters'
<1> SUFFICES ASSUME Values, Counters, [Next]_vars PROVE Counters'
  OBVIOUS
<1>0. conf \in Turns /\ conf.batches \in Nat
  BY DEF Values
<1> USE <1>0 DEF Counters, VetoStall, End, Fire, Again, turn, counts, board, hook, hist, ran
<1>1. CASE Call
  <2>1. ASSUME NEW c \in Kinds, Complete(c) PROVE Counters'
    BY <2>1 DEF Complete, BudgetStops, Sent
  <2>2. CASE NoneLeft \/ Grant \/ Overflow \/ Failover
    BY <2>2 DEF NoneLeft, Grant, Overflow, Failover
  <2>3. CASE CallFails \/ FilteredOut
    BY <2>3 DEF CallFails, FilteredOut, Fails
  <2>5. CASE Deltas \/ RateLimited \/ Interrupted \/ Filtered
    BY <2>5 DEF Deltas, RateLimited, Interrupted, Filtered, Retried
  <2>4. CASE Degenerates \/ Apologises
    BY <2>4 DEF Degenerates, Apologises
  <2> QED
    BY <1>1, <2>1, <2>2, <2>3, <2>4, <2>5 DEF Call, Attempt
<1>2. CASE Rail
  <2>0. Owed \in {0, open}
    BY DEF Owed
  <2> USE <2>0 DEF AtRun, AtChecks, AtPlan, AtRest, AtVoice, PlanGatePassed
  <2>1. CASE LengthContinue \/ RecipeNudge \/ RecipeStalls \/ ChecksNudge \/ ChecksFail \/ ScopeAsk
    BY <2>1 DEF LengthContinue, RecipeNudge, RecipeStalls, ChecksNudge, ChecksFail, ScopeAsk
  <2>2. CASE PlanNudge
    BY <2>2 DEF PlanNudge
  <2>3. CASE CoverageAsk \/ SilentRetry \/ GivesUp
    BY <2>3 DEF CoverageAsk, SilentRetry, GivesUp
  <2>4. CASE Parrots \/ Stands
    BY <2>4 DEF Parrots, Stands
  <2> QED
    BY <1>2, <2>1, <2>2, <2>3, <2>4 DEF Rail
<1>3. CASE Gate
  <2>1. ASSUME NEW a \in Asks, Ask(a) PROVE Counters'
    BY <2>1 DEF Ask
  <2>2. CASE Critic \/ Quality \/ Believed
    BY <2>2 DEF Critic, Quality, Believed
  <2>3. CASE ReviewRejects \/ Completes
    BY <2>3 DEF ReviewRejects, ReviewDue, Completes
  <2>4. ASSUME NEW x \in Sections, SectionAsk(x) PROVE Counters'
    BY <2>4 DEF SectionAsk
  <2> QED
    BY <1>3, <2>1, <2>2, <2>3, <2>4 DEF Gate
<1>4. CASE Batch
  <2>1. ASSUME NEW w \in Work, RunBatch(w) PROVE Counters'
    <3>1. phase = "tools" /\ phase' # "tools" /\ ~(phase' = "hook" /\ why' = "provider_error")
      BY <2>1 DEF RunBatch, Climb
    <3>2. PICK b \in Boards(w) : plan' = b[1] /\ open' = b[2] /\ probing' \in {b[3], "open"}
      BY <2>1 DEF RunBatch, Climb
    <3>3. Board(b)
      BY BoardKept
    <3>4. /\ plan' \in {"none", "anchor", "steps"} /\ open' \in 0..MaxSteps + 1
          /\ (plan' = "none" => open' = 0) /\ (plan' = "anchor" => open' \in 0..1)
          /\ probing' \in {"no", "open", "closed"}
      BY <3>2, <3>3 DEF Board
    <3>5. fails' \in 0..VetoStall /\ batches' = batches /\ worked' \in 0..batches
          /\ excused' \in 0..worked'
      BY <2>1, <3>1 DEF RunBatch
    <3> QED
      BY <2>1, <3>1, <3>4, <3>5 DEF RunBatch
  <2>2. CASE DoomRecover \/ DoomStops
    BY <2>2 DEF DoomRecover, DoomStops
  <2>3. CASE PlanFirst
    BY <2>3 DEF PlanFirst
  <2>4. CASE RestartAtSkill
    <3>1. UNCHANGED <<batches, fails, plains, refusals, nudgedAt, conf>> /\ phase = "tools"
          /\ phase' = "ended"
      BY <2>4 DEF RestartAtSkill
    <3>2. UNCHANGED ran \/ (worked' = worked + 1 /\ excused' = excused + 1)
      BY <2>4 DEF RestartAtSkill
    <3>3. CASE UNCHANGED board
      BY <3>1, <3>2, <3>3
    <3>4. ASSUME NEW b \in Replanned, plan' = b[1], open' = b[2], probing' = b[3] PROVE Counters'
      <4>1. Board(b)
        BY ReplannedKept
      <4> QED
        BY <3>1, <3>2, <3>4, <4>1 DEF Board
    <3> QED
      BY <2>4, <3>3, <3>4 DEF RestartAtSkill
  <2> QED
    BY <1>4, <2>1, <2>2, <2>3, <2>4 DEF Batch
<1>5. CASE TurnEnd
  <2>1. CASE HookAllows \/ HookRestarts \/ HookFenced
    BY <2>1 DEF HookAllows, HookRestarts, HookFenced
  <2>2. CASE HookRefuses
    BY <2>2 DEF HookRefuses
  <2> QED
    BY <1>5, <2>1, <2>2 DEF TurnEnd
<1>6. CASE HorizonPasses \/ Installed \/ Cancel \/ Ended \/ UNCHANGED vars
  BY <1>6 DEF HorizonPasses, Installed, Cancel, Ended, vars
<1> QED
  BY <1>1, <1>2, <1>3, <1>4, <1>5, <1>6 DEF Next, Step

(* Every variable keeps its type (TypeOK), and so the loop's counters their caps: refusals that
   name a skill, the repeats of a batch, the stuck ladder's rungs.                            *)
THEOREM TypeCorrect == Spec => []TypeOK
<1>1. Init => Flags /\ Values /\ Counters
  BY InitFlags, InitValues, InitCounters
<1>2. Flags /\ Values /\ Counters /\ [Next]_vars => (Flags /\ Values /\ Counters)'
  BY NextFlags, NextValues, NextCounters
<1>3. Flags /\ Values /\ Counters => TypeOK
  BY DEF Flags, Values, HeardOK, Counters, TypeOK
<1> QED
  BY <1>1, <1>2, <1>3, PTL DEF Spec

-----------------------------------------------------------------------------
(* The unit of the pool an iteration in flight has taken and may still give back. *)
Taken == IF phase \in {"call", "words", "critic", "quality", "claims", "fresh", "tools"}
               \/ (phase = "hook" /\ why = "gave_up")
         THEN 1 ELSE 0

PoolInv == conf.units > 0 => pool >= 0 /\ pool + worked + Taken <= conf.units + excused

LEMMA InitPool == Init => PoolInv
BY DEF Init, PoolInv, Taken

LEMMA NextPool == Values /\ Counters /\ PoolInv /\ [Next]_vars => PoolInv'
<1> SUFFICES ASSUME Values, Counters, PoolInv, [Next]_vars PROVE PoolInv'
  OBVIOUS
<1>0. conf.units \in Nat /\ pool \in Int /\ worked \in Int /\ excused \in Int
  <2>1. conf.units \in Nat /\ conf.batches \in Nat
    BY DEF Values
  <2> QED
    BY <2>1 DEF Values, Counters
<1> USE <1>0 DEF PoolInv, Taken, End, Fire, Again, Refunded, turn, hist, ran, money
<1>1. CASE Call
  <2> USE DEF NoneLeft, Grant, Attempt, Deltas, Overflow, Failover, RateLimited, Interrupted,
             Filtered, CallFails, FilteredOut, Fails, Retried, Degenerates, Apologises
  <2>1. ASSUME NEW c \in Kinds, Complete(c) PROVE PoolInv'
    BY <2>1 DEF Complete, BudgetStops
  <2> QED
    BY <1>1, <2>1 DEF Call
<1>2. CASE Rail
  <2> USE DEF AtRun, AtChecks, AtPlan, AtRest, AtVoice
  <2>1. CASE LengthContinue \/ RecipeNudge \/ RecipeStalls \/ ChecksNudge \/ ChecksFail \/ ScopeAsk
    BY <2>1 DEF LengthContinue, RecipeNudge, RecipeStalls, ChecksNudge, ChecksFail, ScopeAsk
  <2>2. CASE PlanNudge \/ CoverageAsk \/ SilentRetry \/ GivesUp \/ Parrots \/ Stands
    BY <2>2 DEF PlanNudge, CoverageAsk, SilentRetry, GivesUp, Parrots, Stands
  <2> QED
    BY <1>2, <2>1, <2>2 DEF Rail
<1>3. CASE Gate
  <2>1. ASSUME NEW a \in Asks, Ask(a) PROVE PoolInv'
    BY <2>1 DEF Ask
  <2>2. ASSUME NEW x \in Sections, SectionAsk(x) PROVE PoolInv'
    BY <2>2 DEF SectionAsk
  <2> QED
    BY <1>3, <2>1, <2>2 DEF Gate, Critic, Quality, Believed, ReviewRejects, Completes
<1>4. CASE Batch
  <2>1. ASSUME NEW w \in Work, RunBatch(w) PROVE PoolInv'
    BY <2>1 DEF RunBatch, Climb
  <2>2. CASE PlanFirst \/ RestartAtSkill
    <3>1. UNCHANGED ran \/ (worked' = worked + 1 /\ excused' = excused + 1)
      BY <2>2 DEF PlanFirst, RestartAtSkill
    <3> QED
      BY <2>2, <3>1 DEF PlanFirst, RestartAtSkill
  <2> QED
    BY <1>4, <2>1, <2>2 DEF Batch, DoomRecover, DoomStops
<1>5. CASE TurnEnd
  BY <1>5 DEF TurnEnd, HookAllows, HookRestarts, HookFenced, HookRefuses
<1>6. CASE HorizonPasses \/ Installed \/ Cancel \/ Ended \/ UNCHANGED vars
  BY <1>6 DEF HorizonPasses, Installed, Cancel, Ended, vars
<1> QED
  BY <1>1, <1>2, <1>3, <1>4, <1>5, <1>6 DEF Next, Step

(* Who is excused: the plan-first gate, once each time it withholds a batch, and the restart that
   ends the turn.                                                                            *)
ExcusedInv == /\ why = "restart" => phase = "ended"
              /\ excused <= n["planfirst"] + (IF why = "restart" THEN 1 ELSE 0)

LEMMA InitExcused == Init => ExcusedInv
BY DEF Init, ExcusedInv, Rails

LEMMA NextExcused == Values /\ Counters /\ ExcusedInv /\ [Next]_vars => ExcusedInv'
<1> SUFFICES ASSUME Values, Counters, ExcusedInv, [Next]_vars PROVE ExcusedInv'
  OBVIOUS
<1>0. n \in [Rails -> Nat] /\ excused \in Int
  BY DEF Values, Counters
<1> USE <1>0 DEF ExcusedInv, Rails, End, Fire, Again, Count, turn, counts, hist, ran
<1>1. CASE Call
  <2>1. ASSUME NEW c \in Kinds, Complete(c) PROVE ExcusedInv'
    BY <2>1 DEF Complete, BudgetStops
  <2>2. CASE NoneLeft \/ Grant \/ Overflow \/ Failover
    BY <2>2 DEF NoneLeft, Grant, Overflow, Failover, NewBudget
  <2>3. CASE Attempt \/ Degenerates \/ Apologises
    BY <2>2, <2>3 DEF Attempt, Deltas, RateLimited, Interrupted, Filtered, Retried,
                CallFails, FilteredOut, Fails, Degenerates, Apologises
  <2> QED
    BY <1>1, <2>1, <2>2, <2>3 DEF Call
<1>2. CASE Rail
  <2> USE DEF AtRun, AtChecks, AtPlan, AtRest, AtVoice
  <2>1. CASE LengthContinue \/ RecipeNudge \/ RecipeStalls \/ ChecksNudge \/ ChecksFail \/ ScopeAsk
    BY <2>1 DEF LengthContinue, RecipeNudge, RecipeStalls, ChecksNudge, ChecksFail, ScopeAsk
  <2>2. CASE PlanNudge \/ CoverageAsk \/ SilentRetry \/ GivesUp \/ Parrots \/ Stands
    BY <2>2 DEF PlanNudge, CoverageAsk, SilentRetry, GivesUp, Parrots, Stands
  <2> QED
    BY <1>2, <2>1, <2>2 DEF Rail
<1>3. CASE Gate
  <2>1. ASSUME NEW a \in Asks, Ask(a) PROVE ExcusedInv'
    BY <2>1 DEF Ask
  <2>2. ASSUME NEW x \in Sections, SectionAsk(x) PROVE ExcusedInv'
    BY <2>2 DEF SectionAsk
  <2> QED
    BY <1>3, <2>1, <2>2 DEF Gate, Critic, Quality, Believed, ReviewRejects, Completes
<1>4. CASE Batch
  <2>1. ASSUME NEW w \in Work, RunBatch(w) PROVE ExcusedInv'
    BY <2>1 DEF RunBatch, Climb
  <2>2. CASE PlanFirst
    <3>1. n'["planfirst"] = n["planfirst"] + 1 /\ excused' \in {excused, excused + 1} /\ why' = "none"
      BY <2>2 DEF PlanFirst
    <3> QED
      BY <2>2, <3>1 DEF PlanFirst
  <2>3. CASE RestartAtSkill
    <3>1. n' = n /\ excused' \in {excused, excused + 1} /\ why' = "restart" /\ phase' = "ended"
          /\ phase = "tools"
      BY <2>3 DEF RestartAtSkill
    <3> QED
      BY <3>1
  <2> QED
    BY <1>4, <2>1, <2>2, <2>3 DEF Batch, DoomRecover, DoomStops
<1>5. CASE TurnEnd
  BY <1>5 DEF TurnEnd, HookAllows, HookRestarts, HookFenced, HookRefuses
<1>6. CASE HorizonPasses \/ Installed \/ Cancel \/ Ended \/ UNCHANGED vars
  BY <1>6 DEF HorizonPasses, Installed, Cancel, Ended, vars
<1> QED
  BY <1>1, <1>2, <1>3, <1>4, <1>5, <1>6 DEF Next, Step

(* What the pool holds and the iterations that ran a call of the model's never exceed what it was
   given and the excused ones, and these are no more than the batches the plan-first gate withheld
   and the one a restart took: no other path gives back an iteration that worked (PoolIsSound).  *)
THEOREM PoolIsSoundAlways == Spec => []PoolIsSound
<1> DEFINE Whole == Flags /\ Values /\ Counters /\ PoolInv /\ ExcusedInv
<1>1. Init => Whole
  BY InitFlags, InitValues, InitCounters, InitPool, InitExcused
<1>2. Whole /\ [Next]_vars => Whole'
  BY NextFlags, NextValues, NextCounters, NextPool, NextExcused
<1>3. Whole => PoolIsSound
  <2> SUFFICES ASSUME Whole PROVE PoolIsSound
    OBVIOUS
  <2>1. conf.units \in Nat /\ conf.batches \in Nat
    BY DEF Values
  <2>2. pool \in Int /\ worked \in Int /\ excused \in Int
    BY <2>1 DEF Values, Counters
  <2> QED
    BY <2>1, <2>2 DEF PoolInv, ExcusedInv, PoolIsSound, Taken
<1> QED
  BY <1>1, <1>2, <1>3, PTL DEF Spec

-----------------------------------------------------------------------------
(* Only the doom guard asks the hook with a batch unanswered, and only when it has no recovery
   left: a message that got in between says that it was so.                                   *)
SplitInv ==
  /\ phase = "hook" /\ pending => why = "doom_loop"
  /\ repeat > 1 => Has("doom")
  /\ phase = "hook" /\ why = "doom_loop" => Has("doom") /\ n["doom"] = MaxDoom
  /\ split => conf.hook /\ Has("doom") /\ n["doom"] = MaxDoom

LEMMA InitSplit == Init => SplitInv
BY DEF Init, SplitInv

LEMMA NextSplit == Values /\ SplitInv /\ AnsweredInv /\ [Next]_vars => SplitInv'
<1> SUFFICES ASSUME Values, SplitInv, AnsweredInv, [Next]_vars PROVE SplitInv'
  OBVIOUS
<1>0. n \in [Rails -> Nat] /\ repeat \in 0..DoomThreshold
  BY DEF Values
<1> USE <1>0 DEF SplitInv, AnsweredInv, Rails, Has, End, Fire, Again, Forget, Count, turn, counts,
                 stall, session, call
<1>1. CASE Call
  <2>1. ASSUME NEW c \in Kinds, Complete(c) PROVE SplitInv'
    BY <2>1 DEF Complete, BudgetStops
  <2>2. CASE NoneLeft \/ Grant \/ Overflow \/ Failover
    BY <2>2 DEF NoneLeft, Grant, Overflow, Failover, NewBudget
  <2>3. CASE Deltas \/ RateLimited \/ Interrupted \/ Filtered
    BY <2>3 DEF Deltas, RateLimited, Interrupted, Filtered, Retried
  <2>4. CASE CallFails \/ FilteredOut
    BY <2>4 DEF CallFails, FilteredOut, Fails
  <2>5. CASE Degenerates \/ Apologises
    BY <2>5 DEF Degenerates, Apologises
  <2> QED
    BY <1>1, <2>1, <2>2, <2>3, <2>4, <2>5 DEF Call, Attempt
<1>2. CASE Rail
  <2> USE DEF AtRun, AtChecks, AtPlan, AtRest, AtVoice
  <2>1. CASE LengthContinue \/ RecipeNudge \/ RecipeStalls \/ ChecksNudge \/ ChecksFail \/ ScopeAsk
    BY <2>1 DEF LengthContinue, RecipeNudge, RecipeStalls, ChecksNudge, ChecksFail, ScopeAsk
  <2>2. CASE PlanNudge \/ CoverageAsk \/ SilentRetry \/ GivesUp
    BY <2>2 DEF PlanNudge, CoverageAsk, SilentRetry, GivesUp
  <2>3. CASE Parrots \/ Stands
    BY <2>3 DEF Parrots, Stands
  <2> QED
    BY <1>2, <2>1, <2>2, <2>3 DEF Rail
<1>3. CASE Gate
  <2>1. ASSUME NEW a \in Asks, Ask(a) PROVE SplitInv'
    BY <2>1 DEF Ask
  <2>2. CASE Critic \/ Quality \/ Believed
    BY <2>2 DEF Critic, Quality, Believed
  <2>3. CASE ReviewRejects \/ Completes
    BY <2>3 DEF ReviewRejects, Completes
  <2>4. ASSUME NEW x \in Sections, SectionAsk(x) PROVE SplitInv'
    BY <2>4 DEF SectionAsk
  <2> QED
    BY <1>3, <2>1, <2>2, <2>3, <2>4 DEF Gate
<1>4. CASE Batch
  <2>1. ASSUME NEW w \in Work, RunBatch(w) PROVE SplitInv'
    BY <2>1 DEF RunBatch, Climb
  <2>2. CASE DoomRecover \/ DoomStops
    BY <2>2 DEF DoomRecover, DoomStops, Doomed, DoomThreshold
  <2>3. CASE PlanFirst \/ RestartAtSkill
    BY <2>3 DEF PlanFirst, RestartAtSkill
  <2> QED
    BY <1>4, <2>1, <2>2, <2>3 DEF Batch
<1>5. CASE TurnEnd
  <2>1. CASE HookAllows \/ HookRestarts \/ HookFenced
    BY <2>1 DEF HookAllows, HookRestarts, HookFenced, Answers
  <2>2. CASE HookRefuses
    <3>1. /\ phase = "hook" /\ conf.hook /\ split' = (split \/ pending)
          /\ ~pending' /\ phase' = "top" /\ repeat' = 0 /\ conf' = conf
      BY <2>2, Zenon DEF HookRefuses, Answers
    <3>2. n'["doom"] = n["doom"]
      BY <2>2 DEF HookRefuses
    <3>3. CASE split'
      <4>1. split \/ pending
        BY <3>1, <3>3
      <4> QED
        BY <3>1, <3>2, <4>1
    <3>4. CASE ~split'
      BY <3>1, <3>4
    <3> QED
      BY <3>3, <3>4
  <2> QED
    BY <1>5, <2>1, <2>2 DEF TurnEnd
<1>6. CASE HorizonPasses \/ Installed \/ Cancel \/ Ended \/ UNCHANGED vars
  BY <1>6 DEF HorizonPasses, Installed, Cancel, Ended, vars
<1> QED
  BY <1>1, <1>2, <1>3, <1>4, <1>5, <1>6 DEF Next, Step

(* Where results may not follow their calls (what ResultsFollowCalls asks for and the run TurnSplit
   refutes): only with a doom guard whose last recovery is spent and a hook that refused its
   ending.  With no hook, or no doom guard, every request is well formed.                       *)
THEOREM SplitsAtDoomOnly ==
  Spec => [](/\ split => conf.hook /\ Has("doom") /\ n["doom"] = MaxDoom
             /\ ~(conf.hook /\ Has("doom")) => ResultsFollowCalls)
<1> DEFINE Whole == Flags /\ Values /\ SplitInv /\ AnsweredInv
<1>1. Init => Whole
  BY InitFlags, InitValues, InitSplit, InitAnswered
<1>2. Whole /\ [Next]_vars => Whole'
  BY NextFlags, NextValues, NextSplit, NextAnswered
<1>3. Whole => /\ split => conf.hook /\ Has("doom") /\ n["doom"] = MaxDoom
               /\ ~(conf.hook /\ Has("doom")) => ResultsFollowCalls
  BY DEF SplitInv, ResultsFollowCalls
<1> QED
  BY <1>1, <1>2, <1>3, PTL DEF Spec

-----------------------------------------------------------------------------
(* What a filter withheld after the ceiling was crossed.  A call can have Samples answers
   withheld, and what is left of the failover's fresh budget; a completion after it ends the
   turn or is thrown away, and refusals says how often a failing call was sent back since.    *)
Vetoes == MaxProviderVetoes + 1
Paid(k) == Samples * (Vetoes * late + k) + MaxFilter * n["failover"]
Used == n["filter"] + (IF conf.stream THEN 0 ELSE MaxFilter * n["context"])

WithheldInv ==
  /\ withheld > 0 => over
  /\ phase \in {"words", "critic", "quality", "claims", "fresh", "tools"} => withheld = 0
  /\ phase = "hook" /\ why # "provider_error" => withheld = 0
  /\ phase = "top" => withheld <= Paid(refusals)
  /\ phase = "call" => withheld <= Paid(refusals) + Used
  /\ phase = "hook" /\ why = "provider_error" => withheld <= Paid(refusals + 1)
  /\ withheld <= MaxFilter + Samples * Vetoes * (1 + Discards)

Sound == Flags /\ Values /\ Counters /\ LateInv

(* The arithmetic: what is paid for is a number that grows with late, and stays below the bound
   while late does.                                                                         *)
LEMMA PaidBounds ==
  ASSUME Sound, NEW k \in Nat
  PROVE  /\ Paid(k) \in Nat /\ Samples \in {2, 4} /\ Used \in Nat /\ Used < Samples
         /\ Paid(k + 1) = Paid(k) + Samples
         /\ k <= Vetoes /\ late <= Discards => Paid(k) <= MaxFilter + Samples * Vetoes * (1 + Discards)
<1> USE DEF Sound, Values, Counters, LateInv
<1>1. Samples \in {2, 4} /\ Used \in Nat /\ Used < Samples
  BY DEF Samples, Used, MaxFilter, MaxContext, Rails
<1>2. n["failover"] \in 0..1 /\ late \in Nat /\ Vetoes \in Nat
  BY DEF Rails, Vetoes
<1>3. Vetoes * late \in Nat
  BY <1>2
<1>4. Paid(k) \in Nat /\ Paid(k + 1) = Paid(k) + Samples
  BY <1>1, <1>2, <1>3 DEF Paid, MaxFilter
<1>5. ASSUME k <= Vetoes, late <= Discards
      PROVE  Paid(k) <= MaxFilter + Samples * Vetoes * (1 + Discards)
  <2>1. late \in {0, 1, 2} /\ Discards = 2
    BY <1>2, <1>5 DEF Discards, MaxDegen, MaxApology
  <2>2. Vetoes * late + k <= Vetoes * 3 /\ Vetoes * 3 \in Nat
    <3>1. CASE late = 0
      BY <1>2, <1>5, <3>1
    <3>2. CASE late = 1
      BY <1>2, <1>5, <3>2
    <3>3. CASE late = 2
      BY <1>2, <1>5, <3>3
    <3> QED
      BY <2>1, <3>1, <3>2, <3>3
  <2>3. Samples * (Vetoes * late + k) <= Samples * Vetoes * 3
    <3>1. CASE Samples = 2
      BY <1>2, <1>3, <2>2, <3>1
    <3>2. CASE Samples = 4
      BY <1>2, <1>3, <2>2, <3>2
    <3> QED
      BY <1>1, <3>1, <3>2
  <2> QED
    BY <1>1, <1>2, <1>3, <2>1, <2>3 DEF Paid, MaxFilter
<1> QED
  BY <1>1, <1>4, <1>5

(* Where nothing was withheld, nothing is owed. *)
LEMMA NothingWithheld == Sound /\ withheld = 0 => WithheldInv
<1> SUFFICES ASSUME Sound, withheld = 0 PROVE WithheldInv
  OBVIOUS
<1>1. refusals \in Nat /\ Vetoes \in Nat /\ Discards = 2
  BY DEF Sound, Counters, Vetoes, Discards, MaxDegen, MaxApology
<1>2. Paid(refusals) \in Nat /\ Paid(refusals + 1) \in Nat /\ Used \in Nat /\ Samples \in {2, 4}
  BY <1>1, PaidBounds
<1>3. Samples * Vetoes * (1 + Discards) \in Nat
  BY <1>1, <1>2
<1> QED
  BY <1>1, <1>2, <1>3 DEF WithheldInv, MaxFilter

(* A call under way stays below what one refusal more would allow, with an answer to spare. *)
LEMMA CallBounds ==
  ASSUME Sound, WithheldInv, phase = "call"
  PROVE  /\ withheld + 1 <= Paid(refusals + 1)
         /\ Paid(refusals + 1) <= MaxFilter + Samples * Vetoes * (1 + Discards)
<1>1. refusals \in Nat /\ refusals + 1 <= Vetoes /\ withheld \in Nat
  BY DEF Sound, Counters, Values, Vetoes
<1>2. late <= Discards
  BY DEF Sound, LateInv, Thrown, Discards, MaxDegen, MaxApology, Rails
<1>3. withheld <= Paid(refusals) + Used
  BY DEF WithheldInv
<1>4. /\ Paid(refusals) \in Nat /\ Samples \in {2, 4} /\ Used \in Nat /\ Used < Samples
      /\ Paid(refusals + 1) = Paid(refusals) + Samples
  BY <1>1, PaidBounds
<1>5. Paid(refusals + 1) <= MaxFilter + Samples * Vetoes * (1 + Discards)
  BY <1>1, <1>2, PaidBounds
<1> QED
  BY <1>1, <1>3, <1>4, <1>5

(* The first discard, billed late, opens a new round of refusals. *)
LEMMA NextRound ==
  ASSUME Sound
  PROVE  Paid(refusals + 1) <= Samples * (Vetoes * (late + 1)) + MaxFilter * n["failover"]
<1>1. refusals \in Nat /\ Vetoes \in Nat /\ refusals + 1 <= Vetoes /\ late \in Nat
  BY DEF Sound, Counters, Values, Vetoes
<1>2. Samples \in {2, 4} /\ n["failover"] \in Nat
  BY <1>1, PaidBounds DEF Sound, Values, Rails
<1>3. Vetoes * late \in Nat /\ Vetoes * (late + 1) = Vetoes * late + Vetoes
  BY <1>1
<1>4. Vetoes * late + (refusals + 1) <= Vetoes * (late + 1)
  BY <1>1, <1>3
<1> QED
  BY <1>1, <1>2, <1>3, <1>4 DEF Paid, MaxFilter

LEMMA InitWithheld == Init /\ Sound => WithheldInv
BY NothingWithheld DEF Init

LEMMA NextWithheld == Sound /\ Sound' /\ WithheldInv /\ [Next]_vars => WithheldInv'
<1> SUFFICES ASSUME Sound, Sound', WithheldInv, [Next]_vars PROVE WithheldInv'
  OBVIOUS
<1>0. withheld' = 0 => WithheldInv'
  <2>1. (Sound /\ withheld = 0 => WithheldInv)'
    BY NothingWithheld, PTL
  <2> QED
    BY <2>1
<1>p. refusals \in Nat /\ Paid(refusals) \in Nat /\ withheld \in Nat /\ Used \in Nat /\ Samples \in {2, 4}
  <2>1. refusals \in Nat /\ withheld \in Nat
    BY DEF Sound, Counters, Values
  <2> QED
    BY <2>1, PaidBounds
<1>b. withheld <= MaxFilter + Samples * Vetoes * (1 + Discards)
  BY DEF WithheldInv
<1> USE DEF End, Fire, Again, turn, counts, money
(* An ended turn owes no more than it did. *)
<1>e. ASSUME phase' = "ended", UNCHANGED <<conf, withheld>>, over => over' PROVE WithheldInv'
  BY <1>e DEF WithheldInv, Samples
<1>1. CASE Call
  <2> USE DEF call
  <2>1. ASSUME NEW c \in Kinds, Complete(c) PROVE WithheldInv'
    <3>1. over => over'
      BY <2>1, Zenon DEF Complete, Bills
    <3>2. over' => phase' = "ended"
      BY <2>1 DEF Complete, Overspent, BudgetStops
    <3>3. UNCHANGED <<conf, withheld>>
      BY <2>1 DEF Complete
    <3>4. CASE over'
      BY <1>e, <3>1, <3>2, <3>3, <3>4
    <3>5. CASE ~over'
      BY <1>0, <1>p, <3>1, <3>3, <3>5 DEF WithheldInv
    <3> QED
      BY <3>4, <3>5
  <2>2. CASE Degenerates \/ Apologises
    <3>1. /\ phase = "call" /\ late' = late + (IF over THEN 1 ELSE 0) /\ (over => over')
          /\ UNCHANGED <<conf, withheld>> /\ refusals' = 0 /\ phase' \in {"top", "ended"}
      BY <2>2, Zenon DEF Degenerates, Apologises, Late, Bills
    <3>2. n'["failover"] = n["failover"]
      BY <2>2 DEF Degenerates, Apologises, Count, Sound, Values, Rails
    <3>3. CASE over
      <4>1. withheld + 1 <= Paid(refusals + 1) /\ Paid(refusals + 1) \in Nat
        BY <1>p, <3>1, CallBounds, PaidBounds
      <4>2. Paid(refusals + 1) <= Samples * (Vetoes * (late + 1)) + MaxFilter * n["failover"]
        BY NextRound
      <4>3. Paid(refusals)' = Samples * (Vetoes * (late + 1)) + MaxFilter * n["failover"]
        <5>1. late \in Nat /\ Vetoes \in Nat
          BY DEF Sound, Values, Vetoes
        <5>2. Vetoes * (late + 1) \in Nat
          BY <5>1
        <5>3. Samples' = Samples /\ late' = late + 1 /\ Vetoes' = Vetoes
          BY <3>1, <3>3 DEF Samples, Vetoes
        <5> QED
          BY <3>1, <3>2, <5>2, <5>3 DEF Paid
      <4>4. Paid(refusals)' \in Nat
        <5>1. late \in Nat /\ Vetoes \in Nat /\ n["failover"] \in Nat
          BY DEF Sound, Values, Vetoes, Rails
        <5>2. Vetoes * (late + 1) \in Nat
          BY <5>1
        <5> QED
          BY <1>p, <4>3, <5>1, <5>2 DEF MaxFilter
      <4>5. withheld' <= Paid(refusals)'
        BY <1>p, <3>1, <4>1, <4>2, <4>3, <4>4
      <4> QED
        BY <1>b, <3>1, <3>3, <4>5 DEF WithheldInv, Samples, Vetoes
    <3>4. CASE ~over
      BY <1>0, <1>p, <3>1, <3>4 DEF WithheldInv
    <3> QED
      BY <3>3, <3>4
  <2>3. CASE Grant
    <3>1. UNCHANGED <<conf, withheld, late, refusals>> /\ phase = "top" /\ phase' = "call" /\ (over => over')
      BY <2>3, Zenon DEF Grant, hook, Bills
    <3>2. n'["failover"] = n["failover"] /\ n'["filter"] = 0 /\ n'["context"] = 0
      BY <2>3 DEF Grant, NewBudget, Sound, Values, Rails
    <3>3. Paid(refusals)' = Paid(refusals) /\ Used' = 0
      BY <3>1, <3>2 DEF Paid, Used, Samples, Vetoes, MaxFilter
    <3> QED
      BY <1>b, <1>p, <3>1, <3>3 DEF WithheldInv, Samples, Vetoes
  <2>4. CASE Overflow
    <3>1. /\ UNCHANGED <<conf, withheld, late, refusals>> /\ phase = "call" /\ phase' = "call"
          /\ (over => over')
      BY <2>4, Zenon DEF Overflow, hook, Bills
    <3>2. /\ n'["failover"] = n["failover"] /\ n'["context"] = n["context"] + 1
          /\ n'["filter"] = IF conf.stream THEN n["filter"] ELSE 0
      BY <2>4 DEF Overflow, NewBudget, Sound, Values, Rails
    <3>3. Paid(refusals)' = Paid(refusals)
      BY <3>1, <3>2 DEF Paid, Samples, Vetoes
    <3>4. Used <= Used' /\ Used' \in Nat
      BY <3>1, <3>2 DEF Used, MaxFilter, Sound, Values, LateInv, Rails
    <3>5. (withheld' > 0 => over') /\ withheld <= Paid(refusals) + Used
      BY <3>1 DEF WithheldInv
    <3>6. withheld' <= Paid(refusals)' + Used'
      BY <1>p, <3>1, <3>3, <3>4, <3>5
    <3>7. Samples' = Samples /\ Vetoes' = Vetoes
      BY <3>1 DEF Samples, Vetoes
    <3> QED
      BY <1>b, <3>1, <3>5, <3>6, <3>7 DEF WithheldInv
  <2>5. CASE Failover
    <3>1. UNCHANGED <<conf, withheld, late, refusals, over>> /\ phase = "call" /\ phase' = "call"
      BY <2>5 DEF Failover, hook
    <3>2. /\ n'["failover"] = n["failover"] + 1 /\ n'["context"] = n["context"]
          /\ n'["filter"] = 0
      BY <2>5 DEF Failover, NewBudget, Sound, Values, Rails
    <3>3. Paid(refusals)' = Paid(refusals) + 1
      <4>1. /\ late \in Nat /\ Vetoes \in Nat /\ n["failover"] \in Nat
            /\ Samples' = Samples /\ Vetoes' = Vetoes
        BY <3>1 DEF Sound, Values, Vetoes, Rails, Samples
      <4>2. Vetoes * late + refusals \in Nat
        BY <1>p, <4>1
      <4>3. Samples * (Vetoes * late + refusals) \in Nat
        BY <1>p, <4>2
      <4> QED
        BY <3>1, <3>2, <4>1, <4>3 DEF Paid, MaxFilter
    <3>4. Used <= Used' + 1 /\ Used' \in Nat
      BY <3>1, <3>2 DEF Used, MaxFilter, Sound, Values, LateInv, Rails
    <3>5. (withheld' > 0 => over') /\ withheld <= Paid(refusals) + Used
      BY <3>1 DEF WithheldInv
    <3>6. withheld' <= Paid(refusals)' + Used'
      <4>1. withheld' = withheld
        BY <3>1
      <4>2. ASSUME NEW p \in Nat, NEW u \in Nat, NEW v \in Nat, NEW w \in Nat, w <= p + u, u <= v + 1
            PROVE  w <= (p + 1) + v
        BY <4>2
      <4> QED
        BY <1>p, <3>3, <3>4, <3>5, <4>1, <4>2
    <3>7. Samples' = Samples /\ Vetoes' = Vetoes
      BY <3>1 DEF Samples, Vetoes
    <3> QED
      BY <1>b, <3>1, <3>5, <3>6, <3>7 DEF WithheldInv
  <2>6. CASE Filtered
    <3>1. /\ UNCHANGED <<conf, late, refusals>> /\ phase = "call" /\ phase' = "call" /\ (over => over')
          /\ withheld' = withheld + (IF over THEN 1 ELSE 0)
      BY <2>6, Zenon DEF Filtered, Retried, Withholds, hook, Bills
    <3>2. /\ n'["failover"] = n["failover"] /\ n'["context"] = n["context"]
          /\ n'["filter"] = n["filter"] + 1
      BY <2>6 DEF Filtered, Count, Sound, Values, Rails
    <3>3. Paid(refusals)' = Paid(refusals)
      BY <3>1, <3>2 DEF Paid, Samples, Vetoes
    <3>4. Used' = Used + 1
      BY <3>1, <3>2 DEF Used, MaxFilter, Sound, Values, Rails
    <3>5. withheld' <= MaxFilter + Samples * Vetoes * (1 + Discards)
      <4>1. withheld' <= Paid(refusals + 1) /\ Paid(refusals + 1) \in Nat
        BY <1>p, <3>1, CallBounds, PaidBounds
      <4>2. Paid(refusals + 1) <= MaxFilter + Samples * Vetoes * (1 + Discards)
        BY <3>1, CallBounds
      <4>3. MaxFilter + Samples * Vetoes * (1 + Discards) \in Nat /\ withheld' \in Nat
        <5>1. Vetoes \in Nat /\ Discards = 2
          BY DEF Vetoes, Discards, MaxDegen, MaxApology
        <5>2. withheld' \in Nat
          BY <1>p, <3>1
        <5> QED
          BY <1>p, <5>1, <5>2 DEF MaxFilter
      <4> QED
        BY <4>1, <4>2, <4>3
    <3>6. withheld' > 0 => over'
      BY <1>p, <3>1 DEF WithheldInv
    <3> QED
      BY <1>p, <3>1, <3>3, <3>4, <3>5, <3>6 DEF WithheldInv, Samples, Vetoes
  <2>7. CASE CallFails \/ FilteredOut
    <3>0. over => over'
      BY <2>7, Zenon DEF CallFails, FilteredOut, Withholds, Bills
    <3>1. /\ UNCHANGED <<conf, n, late, refusals>> /\ phase = "call" /\ (over => over')
          /\ withheld' \in {withheld, withheld + (IF over THEN 1 ELSE 0)}
          /\ (phase' = "hook" /\ why' = "provider_error") \/ phase' = "ended"
      BY <2>7, <3>0, <1>p DEF CallFails, FilteredOut, Fails, Withholds, hook
    <3>2. withheld' \in {withheld, withheld + 1} /\ withheld + 1 <= Paid(refusals + 1)
      BY <1>p, <3>1, CallBounds
    <3>3. /\ Paid(refusals + 1)' = Paid(refusals + 1) /\ Paid(refusals + 1) \in Nat
          /\ Samples' = Samples /\ Vetoes' = Vetoes
      BY <1>p, <3>1, PaidBounds DEF Paid, Samples, Vetoes
    <3>4. Paid(refusals + 1) <= MaxFilter + Samples * Vetoes * (1 + Discards)
      BY <3>1, CallBounds
    <3>5. MaxFilter + Samples * Vetoes * (1 + Discards) \in Nat
      <4>1. Vetoes \in Nat /\ Discards = 2
        BY DEF Vetoes, Discards, MaxDegen, MaxApology
      <4> QED
        BY <1>p, <4>1 DEF MaxFilter
    <3>6. withheld' > 0 => over'
      BY <1>p, <3>1 DEF WithheldInv
    <3>7. withheld' <= Paid(refusals + 1)
      BY <1>p, <3>2, <3>3
    <3>8. withheld' <= MaxFilter + Samples * Vetoes * (1 + Discards) /\ withheld' \in Nat
      BY <1>p, <3>2, <3>3, <3>4, <3>5
    <3> QED
      BY <3>1, <3>3, <3>6, <3>7, <3>8 DEF WithheldInv
  <2>8. CASE Deltas \/ RateLimited \/ Interrupted
    <3>1. UNCHANGED <<conf, withheld, late, refusals, over, phase, why>>
      BY <2>8 DEF Deltas, RateLimited, Interrupted, Retried, hook
    <3>2. \A k \in {"failover", "filter", "context"} : n'[k] = n[k]
      BY <2>8 DEF Deltas, RateLimited, Interrupted, Retried, Count, Sound, Values, Rails
    <3> QED
      BY <3>1, <3>2 DEF WithheldInv, Paid, Used, Samples, Vetoes
  <2>9. CASE NoneLeft
    BY <2>9, <1>e DEF NoneLeft
  <2> QED
    BY <1>1, <2>1, <2>2, <2>3, <2>4, <2>5, <2>6, <2>7, <2>8, <2>9 DEF Call, Attempt
<1>2. CASE Rail
  <2>1. phase = "words" /\ withheld' = withheld
    BY <1>2 DEF Rail, LengthContinue, RecipeNudge, RecipeStalls, ChecksNudge, ChecksFail, ScopeAsk,
                PlanNudge, CoverageAsk, SilentRetry, GivesUp, Parrots, Stands, AtRun, AtChecks,
                AtPlan, AtRest, AtVoice, call
  <2> QED
    BY <1>0, <2>1 DEF WithheldInv
<1>3. CASE Gate
  <2>1. phase \in {"critic", "quality", "claims", "fresh"} /\ withheld' = withheld
    <3>1. ASSUME NEW a \in Asks, Ask(a)
          PROVE  phase \in {"critic", "quality", "claims", "fresh"} /\ withheld' = withheld
      BY <3>1 DEF Ask, call
    <3>2. ASSUME NEW x \in Sections, SectionAsk(x)
          PROVE  phase \in {"critic", "quality", "claims", "fresh"} /\ withheld' = withheld
      BY <3>2 DEF SectionAsk, call
    <3> QED
      BY <1>3, <3>1, <3>2 DEF Gate, Critic, Quality, Believed, ReviewRejects, Completes, call
  <2> QED
    BY <1>0, <2>1 DEF WithheldInv
<1>4. CASE Batch
  <2>1. phase = "tools" /\ withheld' = withheld
    BY <1>4 DEF Batch, RunBatch, DoomRecover, DoomStops, PlanFirst, RestartAtSkill, call
  <2> QED
    BY <1>0, <2>1 DEF WithheldInv
<1>5. CASE TurnEnd
  <2>1. CASE HookAllows \/ HookRestarts \/ HookFenced
    BY <2>1, <1>e DEF HookAllows, HookRestarts, HookFenced, call
  <2>2. CASE HookRefuses
    <3>1. UNCHANGED <<conf, withheld, late, over>> /\ phase = "hook" /\ phase' = "top"
      BY <2>2 DEF HookRefuses, call
    <3>2. CASE why = "provider_error"
      <4>1. refusals' = refusals + 1 /\ n' = n
        BY <2>2, <3>2 DEF HookRefuses
      <4>2. Paid(refusals)' = Paid(refusals + 1)
        BY <3>1, <4>1 DEF Paid, Samples, Vetoes
      <4> QED
        BY <3>1, <3>2, <4>2 DEF WithheldInv, Samples, Vetoes
    <3>3. CASE why # "provider_error"
      BY <1>0, <3>1, <3>3 DEF WithheldInv
    <3> QED
      BY <3>2, <3>3
  <2> QED
    BY <1>5, <2>1, <2>2 DEF TurnEnd
<1>6. CASE HorizonPasses
  <2>1. UNCHANGED <<conf, withheld, late, refusals, over, phase, why>>
    BY <1>6 DEF HorizonPasses, call, hook
  <2>2. \A k \in {"failover", "filter", "context"} : n'[k] = n[k]
    BY <1>6 DEF HorizonPasses, Sound, Values, Rails
  <2> QED
    BY <2>1, <2>2 DEF WithheldInv, Paid, Used, Samples, Vetoes
<1>7. CASE Cancel
  BY <1>7, <1>e DEF Cancel, call
<1>8. CASE Installed \/ Ended \/ UNCHANGED vars
  <2>1. UNCHANGED <<conf, withheld, late, refusals, over, phase, why, n>>
    BY <1>8 DEF Installed, Ended, vars, call, hook
  <2> QED
    BY <2>1 DEF WithheldInv, Paid, Used, Samples, Vetoes
<1> QED
  BY <1>1, <1>2, <1>3, <1>4, <1>5, <1>6, <1>7, <1>8 DEF Next, Step

(* Once the ceiling is crossed the turn pays for one completion more and for those it throws
   away, and for what a filter withholds within the bound (OvershootBounded).               *)
THEOREM OvershootBoundedAlways == Spec => []OvershootBounded
<1>1. Init => Sound /\ WithheldInv
  BY InitFlags, InitValues, InitCounters, InitLate, InitWithheld DEF Sound
<1>2. Sound /\ [Next]_vars => Sound'
  BY NextFlags, NextValues, NextCounters, NextLate DEF Sound
<1>3. Sound /\ WithheldInv /\ [Next]_vars => (Sound /\ WithheldInv)'
  BY <1>2, NextWithheld
<1>4. Sound /\ WithheldInv => OvershootBounded
  BY DEF Sound, LateInv, WithheldInv, OvershootBounded, Thrown, Discards, Vetoes, MaxDegen, MaxApology, Rails
<1> QED
  BY <1>1, <1>3, <1>4, PTL DEF Spec

-----------------------------------------------------------------------------
(* The safety core of TurnEnds: what keeps a turn going is used up.  Fuel is a tuple of
   numbers, and every step of the loop makes it less in the lexicographic order, whichever
   rails there are.  A batch may give anything back, so what is left of them comes first; then
   the refusals of the hook, which give the recipe gate its attempts back; then what a turn has
   once, each section and each evidence gate with them.  Any text may be a new one, with rails
   of its own, but a new text has passed the rails: it must end the turn or be charged to what
   comes before, and a text that is not new uses up a rail it has left.  Then the open steps and
   the nudges a plan earns by progress, and the empty completions, which any text gives back:
   that text, too, must end the turn or be charged to what comes before.                     *)
Sends == 2 * (conf.batches - batches) + (IF phase = "tools" THEN 1 ELSE 0)
Refusable == (VetoStall - fails) + (MaxPlain - plains)
Unasked == Cardinality(Asks \ asked)
Unnagged == Cardinality(Sections \ nudged)
LeftTexts(f) == (MaxDegen - f["degen"]) + (MaxApology - f["apology"]) + (MaxLength - f["length"])
LeftChecks(f) == (MaxFiles + AttemptCap - f["recipe"]) + (AttemptCap - f["checks"])
                   + (1 - f["scope"]) + (1 - f["coverage"])
LeftReviews(f) == (MaxCritic - f["critic"]) + (MaxQuality - f["quality"]) + (MaxReviews - f["review"])
                    + (1 - f["failover"])
Left(f) == LeftTexts(f) + LeftChecks(f) + LeftReviews(f)
Once == Left(n) + Unasked + Unnagged
Fresh == IF phase \in {"top", "call", "words"} THEN 1 ELSE 0
Repeats == 2 * heard[1] + heard[2]
Credit == IF nudgedAt > open THEN 1 ELSE 0
Unnudged == MaxPlanNudges - n["plan"]
Unsaid == IF phase \in {"top", "call"} \/ hand \in {"silent", "thought"} THEN 1 ELSE 0
Empties == MaxEmpty - n["empty"]
Stage == CASE phase = "top" -> 9 [] phase = "call" -> 8 [] phase = "words" -> 7
           [] phase = "critic" -> 6 [] phase = "quality" -> 5 [] phase = "claims" -> 4
           [] phase = "fresh" -> 3 [] phase = "tools" -> 2 [] phase = "hook" -> 1 [] OTHER -> 0
Contexts == MaxContext - n["context"]
Retries == (2 - n["limited"]) + (MaxInterrupt - n["interrupt"]) + (MaxFilter - n["filter"])
Unheard == IF streamed THEN 0 ELSE 1

Fuel == <<Sends, Refusable, Once, Fresh, Repeats, open, Credit, Unnudged, Unsaid, Empties, Stage,
          Contexts, Retries, Unheard>>
Less(a, b) == \E i \in DOMAIN a : a[i] < b[i] /\ \A j \in 1..i - 1 : a[j] = b[j]

(* A rate limit is waited out: how often is up to its horizon, not to a count. *)
Waits == RateLimited /\ n["limited"] = 1

(* The counters stay within their caps, so what is left of each is a number. *)
Budgets ==
  /\ n["degen"] <= MaxDegen /\ n["apology"] <= MaxApology /\ n["length"] <= MaxLength
  /\ n["recipe"] <= MaxFiles + AttemptCap /\ n["checks"] <= AttemptCap /\ n["scope"] <= 1
  /\ n["coverage"] <= 1 /\ n["critic"] <= MaxCritic
  /\ n["quality"] <= MaxQuality /\ n["review"] <= MaxReviews
  /\ n["failover"] <= 1 /\ n["plan"] <= MaxPlanNudges /\ n["empty"] <= MaxEmpty
  /\ n["context"] <= MaxContext /\ n["limited"] <= 2 /\ n["interrupt"] <= MaxInterrupt
  /\ n["filter"] <= MaxFilter
  /\ phase = "words" => hand \in {"text", "cut", "silent", "thought"}

LEMMA InitBudgets == Init => Budgets
BY DEF Init, Budgets, Rails, MaxDegen, MaxApology, MaxCritic, MaxQuality, MaxReviews,
       MaxPlanNudges, MaxEmpty, MaxContext, MaxInterrupt, MaxFilter

LEMMA NextBudgets == Values /\ Budgets /\ [Next]_vars => Budgets'
<1> SUFFICES ASSUME Values, Budgets, [Next]_vars PROVE Budgets'
  OBVIOUS
<1>0. n \in [Rails -> Nat] /\ hand \in Kinds /\ files \in 0..MaxFiles
  BY DEF Values
<1> USE <1>0 DEF Budgets, Rails, Kinds, MaxDegen, MaxApology, MaxCritic, MaxQuality,
             MaxReviews, MaxPlanNudges, MaxEmpty, MaxContext, MaxInterrupt, MaxFilter,
             End, Fire, Again, Count, turn, counts
<1>1. CASE Call
  <2>1. ASSUME NEW c \in Kinds, Complete(c) PROVE Budgets'
    BY <2>1 DEF Complete, Sent, BudgetStops
  <2>2. CASE NoneLeft \/ Grant \/ Overflow \/ Failover
    BY <2>2 DEF NoneLeft, Grant, Overflow, Failover, NewBudget
  <2>3. CASE Deltas \/ RateLimited \/ Interrupted \/ Filtered
    BY <2>3 DEF Deltas, RateLimited, Interrupted, Filtered, Retried
  <2>4. CASE CallFails \/ FilteredOut \/ Degenerates \/ Apologises
    BY <2>4 DEF CallFails, FilteredOut, Fails, Degenerates, Apologises
  <2> QED
    BY <1>1, <2>1, <2>2, <2>3, <2>4 DEF Call, Attempt
<1>2. CASE Rail
  <2> USE DEF AtRun, AtChecks, AtPlan, AtRest, AtVoice
  <2>1. CASE LengthContinue \/ RecipeNudge \/ RecipeStalls \/ ChecksNudge \/ ChecksFail \/ ScopeAsk
    BY <2>1 DEF LengthContinue, RecipeNudge, RecipeStalls, ChecksNudge, ChecksFail, ScopeAsk, Cut,
                RecipeCap
  <2>2. CASE PlanNudge
    BY <2>2 DEF PlanNudge, PlanHolds, Nudges
  <2>3. CASE CoverageAsk \/ SilentRetry \/ GivesUp \/ Parrots \/ Stands
    BY <2>3 DEF CoverageAsk, SilentRetry, GivesUp, Parrots, Stands
  <2> QED
    BY <1>2, <2>1, <2>2, <2>3 DEF Rail
<1>3. CASE Gate
  <2>1. ASSUME NEW a \in Asks, Ask(a) PROVE Budgets'
    BY <2>1 DEF Ask
  <2>2. CASE Critic \/ Quality
    BY <2>2 DEF Critic, Quality
  <2>3. CASE Believed \/ ReviewRejects \/ Completes
    BY <2>3 DEF Believed, ReviewRejects, ReviewDue, Completes
  <2>4. ASSUME NEW x \in Sections, SectionAsk(x) PROVE Budgets'
    BY <2>4 DEF SectionAsk
  <2> QED
    BY <1>3, <2>1, <2>2, <2>3, <2>4 DEF Gate
<1>4. CASE Batch
  <2>1. ASSUME NEW w \in Work, RunBatch(w) PROVE Budgets'
    BY <2>1 DEF RunBatch, Climb
  <2>2. CASE DoomRecover \/ DoomStops \/ PlanFirst \/ RestartAtSkill
    BY <2>2 DEF DoomRecover, DoomStops, PlanFirst, RestartAtSkill
  <2> QED
    BY <1>4, <2>1, <2>2 DEF Batch
<1>5. CASE TurnEnd
  BY <1>5 DEF TurnEnd, HookAllows, HookRestarts, HookFenced, HookRefuses
<1>6. CASE HorizonPasses \/ Installed \/ Cancel \/ Ended \/ UNCHANGED vars
  BY <1>6 DEF HorizonPasses, Installed, Cancel, Ended, vars
<1> QED
  BY <1>1, <1>2, <1>3, <1>4, <1>5, <1>6 DEF Next, Step

(* One component is less and those before it stay. *)
Sinks ==
  \/ Sends' < Sends
  \/ UNCHANGED Sends /\ Refusable' < Refusable
  \/ UNCHANGED <<Sends, Refusable>> /\ Once' < Once
  \/ UNCHANGED <<Sends, Refusable, Once>> /\ Fresh' < Fresh
  \/ UNCHANGED <<Sends, Refusable, Once, Fresh>> /\ Repeats' < Repeats
  \/ /\ UNCHANGED <<Sends, Refusable, Once, Fresh, Repeats>>
     /\ \/ open' < open
        \/ UNCHANGED open /\ Credit' < Credit
        \/ UNCHANGED <<open, Credit>> /\ Unnudged' < Unnudged
        \/ UNCHANGED <<open, Credit, Unnudged>> /\ Unsaid' < Unsaid
        \/ UNCHANGED <<open, Credit, Unnudged, Unsaid>> /\ Empties' < Empties
        \/ /\ UNCHANGED <<open, Credit, Unnudged, Unsaid, Empties>>
           /\ \/ Stage' < Stage
              \/ UNCHANGED Stage /\ Contexts' < Contexts
              \/ UNCHANGED <<Stage, Contexts>> /\ Retries' < Retries
              \/ UNCHANGED <<Stage, Contexts, Retries>> /\ Unheard' < Unheard

LEMMA SinksLess == Sinks => Less(Fuel', Fuel)
<1>1. /\ DOMAIN Fuel' = 1..14
      /\ Fuel[1] = Sends /\ Fuel[2] = Refusable /\ Fuel[3] = Once /\ Fuel[4] = Fresh
      /\ Fuel[5] = Repeats /\ Fuel[6] = open /\ Fuel[7] = Credit /\ Fuel[8] = Unnudged
      /\ Fuel[9] = Unsaid /\ Fuel[10] = Empties /\ Fuel[11] = Stage /\ Fuel[12] = Contexts
      /\ Fuel[13] = Retries /\ Fuel[14] = Unheard
      /\ Fuel'[1] = Sends' /\ Fuel'[2] = Refusable' /\ Fuel'[3] = Once' /\ Fuel'[4] = Fresh'
      /\ Fuel'[5] = Repeats' /\ Fuel'[6] = open' /\ Fuel'[7] = Credit' /\ Fuel'[8] = Unnudged'
      /\ Fuel'[9] = Unsaid' /\ Fuel'[10] = Empties' /\ Fuel'[11] = Stage' /\ Fuel'[12] = Contexts'
      /\ Fuel'[13] = Retries' /\ Fuel'[14] = Unheard'
  BY DEF Fuel
<1>2. SUFFICES ASSUME Sinks
               PROVE  \E i \in 1..14 : Fuel'[i] < Fuel[i] /\ \A j \in 1..i - 1 : Fuel'[j] = Fuel[j]
  BY <1>1 DEF Less
<1> QED
  BY <1>1, <1>2 DEF Sinks

LEMMA Numbers ==
  ASSUME Values, Counters, Budgets
  PROVE  \A i \in 1..14 : Fuel[i] \in Nat
<1> USE DEF Values, Counters, Budgets, Rails
<1>1. Sends \in Nat /\ Refusable \in Nat /\ Unasked \in Nat /\ Unnagged \in Nat
  <2>1. IsFiniteSet(Asks \ asked) /\ IsFiniteSet(Sections \ nudged)
    BY AsksAssumption, FS_Difference
  <2>2. conf.batches \in Nat /\ batches \in 0..conf.batches
    OBVIOUS
  <2>3. Sends \in Nat
    BY <2>2 DEF Sends
  <2>4. Refusable \in Nat
    BY DEF Refusable, VetoStall
  <2> QED
    BY <2>1, <2>3, <2>4, FS_CardinalityType DEF Unasked, Unnagged
<1>2. Once \in Nat
  <2>1. LeftTexts(n) \in Nat
    BY DEF LeftTexts, MaxDegen, MaxApology
  <2>2. LeftChecks(n) \in Nat
    BY DEF LeftChecks
  <2>3. LeftReviews(n) \in Nat
    BY DEF LeftReviews, MaxCritic, MaxQuality, MaxReviews
  <2> QED
    BY <1>1, <2>1, <2>2, <2>3 DEF Once, Left
<1>3. Fresh \in Nat /\ Repeats \in Nat
  BY DEF Fresh, Repeats, HeardOK, MaxRecord
<1>4. Credit \in Nat /\ Unnudged \in Nat /\ Unsaid \in Nat /\ Empties \in Nat /\ Stage \in Nat
  BY DEF Credit, Unnudged, Unsaid, Empties, Stage, MaxPlanNudges, MaxEmpty
<1>5. Contexts \in Nat /\ Retries \in Nat /\ Unheard \in Nat /\ open \in Nat
  BY DEF Contexts, Retries, Unheard, MaxContext, MaxInterrupt, MaxFilter
<1> QED
  BY <1>1, <1>2, <1>3, <1>4, <1>5 DEF Fuel

LEMMA UnaskedLess ==
  ASSUME NEW a \in Asks, a \notin asked, asked' = asked \cup {a}
  PROVE  Unasked \in Nat /\ Unasked' = Unasked - 1
<1>1. IsFiniteSet(Asks \ asked)
  BY AsksAssumption, FS_Difference
<1>2. Asks \ asked' = (Asks \ asked) \ {a}
  OBVIOUS
<1> QED
  BY <1>1, <1>2, FS_RemoveElement, FS_CardinalityType DEF Unasked

LEMMA UnnaggedLess ==
  ASSUME NEW x \in Sections, x \notin nudged, nudged' = nudged \cup {x}
  PROVE  Unnagged \in Nat /\ Unnagged' = Unnagged - 1
<1>1. IsFiniteSet(Sections \ nudged)
  BY AsksAssumption, FS_Difference
<1>2. Sections \ nudged' = (Sections \ nudged) \ {x}
  OBVIOUS
<1> QED
  BY <1>1, <1>2, FS_RemoveElement, FS_CardinalityType DEF Unnagged

LEMMA Remaining == Unasked \in Nat /\ Unnagged \in Nat
<1>1. IsFiniteSet(Asks \ asked) /\ IsFiniteSet(Sections \ nudged)
  BY AsksAssumption, FS_Difference
<1> QED
  BY <1>1, FS_CardinalityType DEF Unasked, Unnagged

(* What a turn has once is one less when one of its counters goes up. *)
OneWay == {"degen", "apology", "length", "recipe", "checks", "scope", "coverage",
           "critic", "quality", "review", "failover"}

LEMMA LeftNumbers ==
  ASSUME NEW f \in [Rails -> Nat]
  PROVE  LeftTexts(f) \in Int /\ LeftChecks(f) \in Int /\ LeftReviews(f) \in Int /\ Left(f) \in Int
<1>1. LeftTexts(f) \in Int
  BY DEF LeftTexts, Rails, MaxDegen, MaxApology
<1>2. LeftChecks(f) \in Int
  BY DEF LeftChecks, Rails
<1>3. LeftReviews(f) \in Int
  BY DEF LeftReviews, Rails, MaxCritic, MaxQuality, MaxReviews
<1> QED
  BY <1>1, <1>2, <1>3 DEF Left

LEMMA LeftLess ==
  ASSUME NEW f \in [Rails -> Nat], NEW g \in [Rails -> Nat], NEW r \in OneWay,
         g[r] = f[r] + 1, \A q \in OneWay \ {r} : g[q] = f[q]
  PROVE  Left(g) < Left(f)
<1>n. /\ LeftTexts(f) \in Int /\ LeftChecks(f) \in Int /\ LeftReviews(f) \in Int
      /\ LeftTexts(g) \in Int /\ LeftChecks(g) \in Int /\ LeftReviews(g) \in Int
  BY LeftNumbers
<1>1. CASE r \in {"degen", "apology", "length"}
  <2>1. LeftChecks(g) = LeftChecks(f) /\ LeftReviews(g) = LeftReviews(f)
    BY <1>1 DEF LeftChecks, LeftReviews, OneWay
  <2>2. LeftTexts(g) < LeftTexts(f)
    BY <1>1 DEF LeftTexts, OneWay, Rails, MaxDegen, MaxApology
  <2> QED
    BY <1>n, <2>1, <2>2 DEF Left
<1>2. CASE r \in {"recipe", "checks", "scope", "coverage"}
  <2>1. LeftTexts(g) = LeftTexts(f) /\ LeftReviews(g) = LeftReviews(f)
    BY <1>2 DEF LeftTexts, LeftReviews, OneWay
  <2>2. LeftChecks(g) < LeftChecks(f)
    BY <1>2 DEF LeftChecks, OneWay, Rails
  <2> QED
    BY <1>n, <2>1, <2>2 DEF Left
<1>3. CASE r \in {"critic", "quality", "review", "failover"}
  <2>1. LeftTexts(g) = LeftTexts(f) /\ LeftChecks(g) = LeftChecks(f)
    BY <1>3 DEF LeftTexts, LeftChecks, OneWay
  <2>2. LeftReviews(g) < LeftReviews(f)
    BY <1>3 DEF LeftReviews, OneWay, Rails, MaxCritic, MaxQuality, MaxReviews
  <2> QED
    BY <1>n, <2>1, <2>2 DEF Left
<1> QED
  BY <1>1, <1>2, <1>3 DEF OneWay

LEMMA OnceLess ==
  ASSUME n \in [Rails -> Nat], n' \in [Rails -> Nat], UNCHANGED <<asked, nudged>>, NEW r \in OneWay,
         n'[r] = n[r] + 1, \A q \in OneWay \ {r} : n'[q] = n[q]
  PROVE  Once' < Once
<1>1. Unasked \in Nat /\ Unnagged \in Nat /\ Unasked' = Unasked /\ Unnagged' = Unnagged
  BY Remaining DEF Unasked, Unnagged
<1>2. Left(n) \in Int /\ Left(n') \in Int /\ Left(n') < Left(n)
  BY LeftNumbers, LeftLess
<1> QED
  BY <1>1, <1>2 DEF Once

LEMMA OnceSame ==
  ASSUME UNCHANGED <<n, asked, nudged>>
  PROVE  Once' = Once
BY DEF Once, Unasked, Unnagged

LEMMA OnceKept ==
  ASSUME UNCHANGED <<asked, nudged>>, \A q \in OneWay : n'[q] = n[q]
  PROVE  Once' = Once
BY DEF Once, Left, LeftTexts, LeftChecks, LeftReviews, Unasked, Unnagged, OneWay

LEMMA CountSinks ==
  ASSUME Values, Values', UNCHANGED <<conf, batches, fails, plains, asked, nudged>>,
         phase # "tools", phase' # "tools", NEW r \in OneWay, n' = [n EXCEPT ![r] = @ + 1]
  PROVE  Sinks
<1>1. n \in [Rails -> Nat] /\ n' \in [Rails -> Nat]
  BY DEF Values
<1>2. n'[r] = n[r] + 1 /\ \A q \in OneWay \ {r} : n'[q] = n[q]
  BY <1>1 DEF OneWay, Rails
<1>3. Once' < Once
  BY <1>1, <1>2, OnceLess
<1> QED
  BY <1>3 DEF Sinks, Sends, Refusable

LEMMA StepSinks ==
  ASSUME Values, Values', Counters, Budgets, Step \/ HorizonPasses \/ Cancel, ~Waits
  PROVE  Sinks
<1>0. /\ n \in [Rails -> Nat] /\ hand \in Kinds /\ phase \in Phases /\ open \in Nat
      /\ conf.batches \in Nat /\ batches \in Nat /\ fails \in Nat /\ plains \in Nat
      /\ nudgedAt \in Nat
  BY DEF Values, Counters
<1>k. UNCHANGED <<n, asked, nudged>> => Once' = Once
  BY OnceSame
<1>c. UNCHANGED <<conf, batches, fails, plains, asked, nudged>> /\ phase # "tools" /\ phase' # "tools" =>
        \A r \in OneWay : n' = [n EXCEPT ![r] = @ + 1] => Sinks
  BY CountSinks
<1> DEFINE Kept == UNCHANGED <<asked, nudged>> /\ \A q \in OneWay : n'[q] = n[q]
<1>o. Kept => Once' = Once
  BY OnceKept
<1> HIDE DEF Kept
<1> USE DEF Budgets, turn, counts, said, hook, board, hist, call, End, Fire, Again, Count
<1>1. CASE Call
  <2>1. ASSUME NEW c \in Kinds, Complete(c) PROVE Sinks
    <3>1. Once' = Once
      BY <1>0, <1>o, <2>1 DEF Complete, Kept, Rails, OneWay
    <3> QED
      BY <1>0, <2>1, <3>1 DEF Complete, Sent, BudgetStops, Sinks, Sends, Refusable, Fresh, Repeats, Credit, Unnudged,
                 Unsaid, Empties, Stage, Rails, Kinds
  <2>2. CASE NoneLeft \/ Grant
    <3>1. Once' = Once
      BY <1>0, <1>o, <2>2 DEF NoneLeft, Grant, NewBudget, Kept, Rails, OneWay
    <3> QED
      BY <1>0, <2>2, <3>1 DEF NoneLeft, Grant, NewBudget, Sinks, Sends, Refusable, Fresh, Repeats, Credit, Unnudged,
                 Unsaid, Empties, Stage, Rails, Kinds
  <2>3. CASE Overflow
    <3>1. Once' = Once
      BY <1>0, <1>o, <2>3 DEF Overflow, NewBudget, Kept, Rails, OneWay
    <3>2. n'["context"] = n["context"] + 1 /\ n'["plan"] = n["plan"] /\ n'["empty"] = n["empty"]
      BY <1>0, <2>3 DEF Overflow, NewBudget, Rails
    <3> QED
      BY <1>0, <2>3, <3>1, <3>2 DEF Overflow, Sinks, Sends, Refusable, Fresh, Repeats, Credit, Unnudged,
                 Unsaid, Empties, Stage, Contexts, Rails, MaxContext
  <2>4. CASE Failover
    <3>1. UNCHANGED <<asked, nudged>> /\ n' \in [Rails -> Nat]
      BY <2>4 DEF Failover, Values
    <3>2. n'["failover"] = n["failover"] + 1 /\ \A q \in OneWay \ {"failover"} : n'[q] = n[q]
      BY <1>0, <2>4 DEF Failover, NewBudget, OneWay, Rails
    <3>3. Once' < Once
      BY <1>0, <3>1, <3>2, OnceLess DEF OneWay
    <3> QED
      BY <2>4, <3>3 DEF Failover, Sinks, Sends, Refusable
  <2>5. CASE Deltas \/ RateLimited \/ Interrupted \/ Filtered
    <3>1. Once' = Once
      BY <1>0, <1>o, <2>5 DEF Deltas, RateLimited, Interrupted, Filtered, Retried, Kept, Rails, OneWay
    <3> QED
      BY <1>0, <2>5, <3>1 DEF Deltas, RateLimited, Interrupted, Filtered, Retried, Waits, Sinks, Sends,
                 Refusable, Fresh, Repeats, Credit, Unnudged, Unsaid, Empties, Stage, Contexts, Retries, Unheard,
                 Rails, MaxInterrupt, MaxFilter
  <2>6. CASE CallFails \/ FilteredOut
    BY <1>0, <1>k, <2>6 DEF CallFails, FilteredOut, Fails, Sinks, Sends, Refusable, Fresh, Repeats, Credit, Unnudged,
                 Unsaid
  <2>7. CASE Degenerates
    <3>1. phase = "call" /\ phase' # "tools" /\ UNCHANGED <<conf, batches, fails, plains, asked, nudged>>
      BY <2>7 DEF Degenerates
    <3>2. CASE Count("degen")
      BY <1>c, <3>1, <3>2 DEF OneWay
    <3>3. CASE End("degenerated") /\ UNCHANGED n
      BY <1>0, <1>k, <2>7, <3>3 DEF Degenerates, Sinks, Sends, Refusable, Fresh, Repeats, Credit, Unnudged, Unsaid
    <3> QED
      BY <2>7, <3>2, <3>3 DEF Degenerates
  <2>8. CASE Apologises
    BY <1>c, <2>8 DEF Apologises, OneWay
  <2> QED
    BY <1>1, <2>1, <2>2, <2>3, <2>4, <2>5, <2>6, <2>7, <2>8 DEF Call, Attempt
<1>2. CASE Rail
  <2>0. Owed \in {0, open}
    BY DEF Owed
  <2> USE <2>0 DEF AtRun, AtChecks, AtPlan, AtRest, AtVoice, PlanGatePassed
  <2>1. CASE LengthContinue \/ RecipeNudge
    BY <1>c, <2>1 DEF LengthContinue, RecipeNudge, OneWay
  <2>7. CASE ChecksNudge \/ ScopeAsk
    BY <1>c, <2>7 DEF ChecksNudge, ScopeAsk, OneWay
  <2>2. CASE RecipeStalls \/ ChecksFail
    BY <1>0, <1>k, <2>2 DEF RecipeStalls, ChecksFail, Sinks, Sends, Refusable, Fresh, Repeats, Credit, Unnudged,
                 Unsaid, Empties, Stage
  <2>3. CASE PlanNudge
    <3>1. Once' = Once
      BY <1>0, <1>o, <2>3 DEF PlanNudge, Kept, Rails, OneWay
    <3>2. Owed = open /\ open > 0
      BY <1>0, <2>3 DEF PlanNudge, PlanHolds
    <3>3. n'["plan"] = Nudges + 1
      BY <1>0, <2>3 DEF PlanNudge, Rails
    <3>4. nudgedAt' = open /\ open' = open
      BY <2>3, <3>2 DEF PlanNudge
    <3>5. CASE nudgedAt > open
      BY <1>0, <2>3, <3>1, <3>4, <3>5 DEF PlanNudge, Sinks, Sends, Refusable, Fresh, Repeats, Credit
    <3>6. CASE ~(nudgedAt > open)
      <4>1. Nudges = n["plan"]
        BY <1>0, <3>2, <3>6 DEF Nudges
      <4>2. Unnudged' < Unnudged
        BY <1>0, <3>3, <4>1 DEF Unnudged, Rails, MaxPlanNudges
      <4> QED
        BY <1>0, <2>3, <3>1, <3>4, <3>6, <4>2 DEF PlanNudge, Sinks, Sends, Refusable, Fresh, Repeats, Credit
    <3> QED
      BY <3>5, <3>6
  <2>4. CASE CoverageAsk
    BY <1>c, <2>4 DEF CoverageAsk, OneWay
  <2>8. CASE Parrots
    <3>1. Once' = Once
      BY <1>k, <2>8 DEF Parrots
    <3>2. PICK k \in 1..MaxRecord : heard[k] > 0 /\ heard' = [heard EXCEPT ![k] = @ - 1, ![k + 1] = @ + 1]
      BY <2>8 DEF Parrots
    <3>3. Repeats' < Repeats
      BY <3>2 DEF Values, HeardOK, Repeats, MaxRecord
    <3>4. UNCHANGED <<conf, batches, fails, plains>> /\ phase = "words" /\ phase' = "top"
      BY <2>8 DEF Parrots
    <3> QED
      BY <3>1, <3>3, <3>4 DEF Sinks, Sends, Refusable, Fresh
  <2>9. CASE Stands
    <3>1. Once' = Once
      BY <1>k, <2>9 DEF Stands
    <3> QED
      BY <2>9, <3>1 DEF Stands, Sinks, Sends, Refusable, Fresh
  <2>5. CASE SilentRetry
    <3>1. hand \in {"silent", "thought"} /\ Owed = open
      BY <2>5 DEF SilentRetry, Silence, Voiced, Owed
    <3>2. Once' = Once
      BY <1>0, <1>o, <2>5 DEF SilentRetry, Kept, Rails, OneWay
    <3> QED
      BY <1>0, <2>5, <3>1, <3>2 DEF SilentRetry, Sinks, Sends, Refusable, Fresh, Repeats, Credit, Unnudged, Unsaid,
                 Empties, Rails, MaxEmpty
  <2>6. CASE GivesUp
    BY <1>0, <1>k, <2>6 DEF GivesUp, Sinks, Sends, Refusable, Fresh, Repeats, Credit, Unnudged, Unsaid, Empties,
                 Stage
  <2> QED
    BY <1>2, <2>1, <2>7, <2>2, <2>3, <2>4, <2>5, <2>6, <2>8, <2>9 DEF Rail
<1>3. CASE Gate
  <2>1. ASSUME NEW a \in Asks, Ask(a) PROVE Sinks
    <3>1. Unasked \in Nat /\ Unasked' = Unasked - 1 /\ Unnagged \in Nat /\ Unnagged' = Unnagged
      BY <2>1, UnaskedLess, Remaining DEF Ask, Unnagged
    <3>2. Left(n) \in Int /\ UNCHANGED n
      BY <1>0, <2>1, LeftNumbers DEF Ask
    <3>3. Left(n)' = Left(n)
      BY <3>2
    <3>4. Once' < Once
      BY <3>1, <3>2, <3>3 DEF Once
    <3> QED
      BY <2>1, <3>4 DEF Ask, Sinks, Sends, Refusable
  <2>2. CASE Critic \/ Quality
    <3>1. /\ phase # "tools" /\ phase' # "tools" /\ UNCHANGED <<conf, batches, fails, plains, asked, nudged>>
      BY <2>2 DEF Critic, Quality
    <3>2. CASE Count("critic") \/ Count("quality")
      BY <1>c, <3>1, <3>2 DEF OneWay
    <3>3. CASE UNCHANGED n
      BY <1>0, <1>k, <2>2, <3>3 DEF Critic, Quality, Sinks, Sends, Refusable, Fresh, Repeats, Credit, Unnudged,
                 Unsaid, Empties, Stage, Rails
    <3> QED
      BY <2>2, <3>2, <3>3 DEF Critic, Quality
  <2>6. ASSUME NEW x \in Sections, SectionAsk(x) PROVE Sinks
    <3>1. Unnagged \in Nat /\ Unnagged' = Unnagged - 1 /\ Unasked \in Nat /\ Unasked' = Unasked
      BY <2>6, UnnaggedLess, Remaining DEF SectionAsk, Unasked
    <3>2. Left(n) \in Int /\ UNCHANGED n
      BY <1>0, <2>6, LeftNumbers DEF SectionAsk
    <3>3. Left(n)' = Left(n)
      BY <3>2
    <3>4. Once' < Once
      BY <3>1, <3>2, <3>3 DEF Once
    <3> QED
      BY <2>6, <3>4 DEF SectionAsk, Sinks, Sends, Refusable
  <2>3. CASE ReviewRejects
    BY <1>c, <2>3 DEF ReviewRejects, OneWay
  <2>4. CASE Believed
    BY <1>0, <1>k, <2>4 DEF Believed, Sinks, Sends, Refusable, Fresh, Repeats, Credit, Unnudged, Unsaid, Empties, Stage
  <2>5. CASE Completes
    <3>1. /\ phase # "tools" /\ phase' # "tools" /\ UNCHANGED <<conf, batches, fails, plains, asked, nudged>>
      BY <2>5 DEF Completes
    <3>2. CASE Count("review")
      BY <1>c, <3>1, <3>2 DEF OneWay
    <3>3. CASE UNCHANGED n
      BY <1>0, <1>k, <2>5, <3>3 DEF Completes, Sinks, Sends, Refusable, Fresh, Repeats, Credit, Unnudged,
                 Unsaid, Empties, Stage
    <3> QED
      BY <2>5, <3>2, <3>3 DEF Completes
  <2> QED
    BY <1>3, <2>1, <2>2, <2>3, <2>4, <2>5, <2>6 DEF Gate
<1>4. CASE Batch
  <2>1. ASSUME NEW w \in Work, RunBatch(w) PROVE Sinks
    BY <1>0, <2>1 DEF RunBatch, Climb, Sinks, Sends
  <2>2. CASE DoomRecover \/ DoomStops \/ PlanFirst \/ RestartAtSkill
    BY <1>0, <2>2 DEF DoomRecover, DoomStops, PlanFirst, RestartAtSkill, Sinks, Sends
  <2> QED
    BY <1>4, <2>1, <2>2 DEF Batch
<1>5. CASE TurnEnd
  <2>1. CASE HookAllows \/ HookRestarts \/ HookFenced
    BY <1>0, <1>k, <2>1 DEF HookAllows, HookRestarts, HookFenced, Sinks, Sends, Refusable, Fresh, Repeats, Credit,
                 Unnudged, Unsaid, Empties, Stage
  <2>2. CASE HookRefuses
    BY <1>0, <2>2 DEF HookRefuses, Sinks, Sends, Refusable, VetoStall
  <2> QED
    BY <1>5, <2>1, <2>2 DEF TurnEnd
<1>6. CASE HorizonPasses
  <2>1. Once' = Once
    BY <1>0, <1>o, <1>6 DEF HorizonPasses, Kept, Rails, OneWay
  <2> QED
    BY <1>0, <1>6, <2>1 DEF HorizonPasses, Sinks, Sends, Refusable, Fresh, Repeats, Credit, Unnudged, Unsaid, Empties,
                 Stage, Contexts, Retries, Rails, MaxInterrupt, MaxFilter
<1>7. CASE Cancel
  BY <1>0, <1>k, <1>7 DEF Cancel, Sinks, Sends, Refusable, Fresh, Repeats, Credit, Unnudged, Unsaid, Empties, Stage, Phases
<1> QED
  BY <1>1, <1>2, <1>3, <1>4, <1>5, <1>6, <1>7 DEF Step

(* Nothing keeps a turn going for ever: a step of the loop, the horizon of a rate limit and a
   cancel use up the fuel, whichever rails meet, however the model, the hook and the provider
   answer; only the wait for a rate limit does not, and its horizon does.  With the fuel a tuple
   of numbers, a turn in which what is awaited comes back is finite (TurnEnds).               *)
FuelBurns == [][Step \/ HorizonPasses \/ Cancel => Less(Fuel', Fuel) \/ Waits]_vars
FuelOK == \A i \in 1..14 : Fuel[i] \in Nat

THEOREM FuelBurnsAlways == Spec => []FuelOK /\ FuelBurns
<1>1. Init => Flags /\ Values /\ Counters /\ Budgets
  BY InitFlags, InitValues, InitCounters, InitBudgets
<1>2. Flags /\ Values /\ Counters /\ Budgets /\ [Next]_vars => (Flags /\ Values /\ Counters /\ Budgets)'
  BY NextFlags, NextValues, NextCounters, NextBudgets
<1>3. Values /\ Counters /\ Budgets => FuelOK
  BY Numbers DEF FuelOK
<1>4. /\ Flags /\ Values /\ Counters /\ Budgets
      /\ [Next]_vars
      => [Step \/ HorizonPasses \/ Cancel => Less(Fuel', Fuel) \/ Waits]_vars
  BY StepSinks, SinksLess, NextValues
<1> QED
  BY <1>1, <1>2, <1>3, <1>4, PTL DEF Spec, FuelBurns

=============================================================================
