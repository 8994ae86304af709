# Zak-Code in TLA+

A verification development of Zak-Code (`src/src/zakcode`): models of the parts of
the program whose behaviour over time is hard to test, the TLC runs that check them, and
theorems about them that TLAPS checks for every value of the constants.

Paths such as `server/app.py` are relative to `src/src/zakcode`.  `PROJECT.json` maps every
definition to the lines it models and names, for each property, a plausible bug (a mutant
operator beside the definition it mutates) that the property catches.

## 1. The system

Zak-Code is a coding agent.  One process is either a terminal REPL (`cli/`) or a web app
(`server/`); both run turns of a ReAct loop (`agent/loop.py`) that calls a model
(`providers/`) and tools (`tools/`), and both keep their conversation in a session store.
Processes on one workspace have no lock and no socket between them: they meet in files.
Inside the web app everything runs on one asyncio event loop, except sync routes and a few
calls that run in worker threads.

| Component | State | Operations | Meets | Hard because | Correct when |
|---|---|---|---|---|---|
| Say inbox (`session/say_inbox.py`) | `.say` (one slot), `.busy` and `.served` markers, `.interrupt` | write, read, recall, claim and release a marker | CLI, REPL, web app, say box, loop | each call is several file calls; processes die holding a marker | a message is refused while one waits, handed over once, not starved, and goes to the process that serves |
| Session event bus (`server/event_bus.py`) | ring, cursor, subscriber queues | publish, forget, subscribe (replay, then tail), close | turns, watch and marker routes | replay and tail overlap; ring and queue overflow; threads | each event once, in order, none between the seams; closing ends everybody |
| Spend gate (`providers/spend_gate.py`) | budget in memory, ledger on disk | push, admit, charge, soft trip, load | providers, server, vessel | calls admitted before any is charged; a crash between two saves; unreadable ledger | bounded overshoot, one soft trip, fails closed |
| Framework stop (`session/framework_stop.py`, `framework_signal.py`) | four files in the mind's directory, the app's window | raise, sign, retire, boot-time retirement, complete | the mind's scripts, watcher, beat, `/run/stop` | two programs write the same files; worker thread; setter that times out | the ask always has its target mode; wait ends only on a finished stop; a spent ask is retired |
| Bounded runs (`server/app.py`) | deadlines, window, the ending line's written/taken/done, stop reason, `.run-stop-reason` | beat, watcher tick, `/run/stop`, soft trip, shutdown, digest, start | say slot, interrupt, turns, supervisor | cap lands mid-turn; three namers of one ending; restarts on one boot | ended once, in its window, with a receipt; nothing left behind, no operator's message lost |
| Chats and turns (`server/app.py`) | in-flight set, stops, current chat, prompts | `/chat`, switch, delete, approve | bus, store, REPL | claim and release around awaits | one turn per chat; the answered prompt is the asked one |
| Background commands, wake-ups (`background.py`, `wakeup.py`) | records and exit files, one pending wake-up with its nets, the repeat guard's memory | start, watch, notify, stop, arm, hold, take, note a turn's end | consumer, REPL, loop | a command ends while nobody watches; an outage that looks like a barren loop; a process between a command and its exit | each exit reported once; a barren loop stops, an outage stops none |
| Observation intake (`session/observation_inbox.py`) | latest-wins slot with carry | put, take, drain | routes, consumer | lock around a read and a replace | nothing carried twice or lost |
| ReAct loop (`agent/loop.py`, `_stream.py`) | iteration, shared budget, some twenty rails and gates with their counters, calls without a result, stop reason | call and retry, rail, gate, run a batch, ask the turn-end hook, end | providers, tools, hooks, say slot | rails that send a turn round and give one another their counts back; a veto on a veto; discarded and withheld answers that are billed | a turn ends, each call has a result, the pool and the ceiling hold, completed means done |
| Loop guards (`stuck`, `budget`, `verify`, `recipe`) | counters, signatures, the cursor of what was written and run | observe, decide | loop | boundaries; a rung jumped over | as the loop relies on them |
| Compaction (`agent/compact.py`) | message list | cut, summarise | loop, store | pairs of call and result | no orphan result |
| Providers and routing | retries, fallback chain, credential pool | call, fall back, cool down | gate, loop | concurrent calls share credentials | a cooled credential is not used |
| Permissions, hooks, sub-agents (`permissions.py`, `hooks/`, `agent/subagent.py`, the gate in `agent/loop.py`) | posture, session grants and denials, in memory and in the session document | authorize, foretell, prompt, rewrite, delegate, save, restore | loop, operator, session store | prompts at once; a hook rewrites what was allowed; grants restored under another posture | what only the operator may let run is put to him; his word holds in its session, and no further |
| Session store | session files | save, load, trash | every process | two processes save one session | no torn file |
| MCP client | connections, requests | start, call, stop | tools | correlation | each answer to its request |
| The rest | | | | text, I/O, layout | not modelled, section 8 |

## 2. The modules

| Module | What it is |
|---|---|
| `SaySlot` | abstract: a slot that holds one message and hands it over once |
| `SayInbox` | the slot's files, file call by file call, under senders, REPLs, web apps and say boxes; implements `SaySlot` |
| `EventBus` | one `SessionEventBus`, its publishers (loop and worker threads) and watchers |
| `SpendCap` | abstract: a budget that never restarts |
| `SpendGate` | the gate, its ledger, its process; implements `SpendCap` |
| `FrameworkStop` | the app's raise and retirement beside the mind's own stop |
| `ServedRun` | a bounded run, from its first beat to its marker, and restarts |
| `CurrentChat` | the chats of a served workspace: the current one, the claims of turns, switching, deleting, renaming, messages, prompts, uploads |
| `TurnLoop` | one turn of the ReAct loop: call, retries, rails, gates, batches, turn-end hook |
| `ToolGate` | what stands between a call of the model and the tool: policy, prompt, hooks, grants, sub-agents |
| `IdleDoor` | what starts a turn when nobody speaks: the wake-up and the background commands' exits |
| `*_proof` | theorems about the module named, in a module of their own; `Workspace_proof` is about `CurrentChat` and `SpendGate`, two parts that share no state (the names of the first carry `Chat`, so that one module can extend both) |
| `MC*` | instances for TLC |

### How state and actions correspond to the code

*SayInbox.*  `.say` is `slot`; a marker is the pid it names and whether it is fresh.  What
the code does in two file calls is two actions: `write_say` is `WriteTest`, `WriteReplace`
(or `WriteRefused`); `read_say` after the callers' marker test is `Poll`, `ReadText`,
`Unlink`; `claim_busy` and `release_busy` likewise.  `got` is the text a reader holds
between its read and its unlink.  `Crash` takes a process away between any two of them and leaves
its markers, which then age.

*EventBus.*  `pub[t]` is a publish in progress: the cursor is stamped, the ring appended,
the subscribers snapshotted, the item offered to each.  The loop's own publish is one piece
against its watchers (`LoopFree`), a worker thread's is not.  `Subscribe`, `ReplayNext`,
`ReplayDone`, `Get` are the generator's steps.  `floor` is `since`.

*SpendGate.*  The operations of the gate await nothing, so `at` says where the operation in
progress is (changed, saved, marked, firing) and only the end of the process comes
between.  `failed` is `_load_failed`.  `disk` is the ledger.

*FrameworkStop.*  `raiser[r]` is a caller between the file calls of
`request_framework_stop`, which run in a worker thread; `retire` is
`abandon_framework_stop`; `mind` is the order the mind's stop writes its files in, external,
as `tests/` replay it.

*ServedRun.*  An action is what the event loop runs between two awaits.  `Beat` is one
iteration of `_consume_say_loop` with every check it makes in their order, and `Exit` its
`finally` up to the digest's first await.  `WatchTick` and `WatchBound` are the two loops
of `_watch_turn_deadline`.  `ending` is
`run_ending_until/_written/_taken/_done`; its helpers carry the code's tests: `Opened`
(`_begin_run_ending`), `Retries`, `Seen`, `Finished`, `Retracted`, `Keeps`
(`_keep_beating`).  `TurnComposed` ... `TurnEnds` are `_run_turn_for_say`.  `Start` is
`_start_consumer` with `_clear_run_stop_reason` (`KeptCap`).

*CurrentChat.*  `kept` and `doc` are the session store, a document being the set of what was
saved in it; `marker` is `.current-session`, `slot` is `.say` with `addr` the chat each
message names.  `turn[t]` is a turn and the copy of the document it holds (`mem`); `Inflight`
is `inflight`.  A coroutine route is one action (`Switch`, `Rename`, `Delete`, `Claim`), a sync
route one for each file call (`SayTest`, `SayWrite`; `LookReads` to `LookHeals`; `Makes` to
`MakerWrites`; `UploadReads` to `UploadSaves`), because it runs in a worker thread.  `lock` is `current_lock`
while `POST /say` holds it.  `Speak` is a turn's `_persist` at a boundary, `Over` its end, `Releases` the
await after it; `Ask`, `PromptReads`, `PromptDenies` and `Requeue` are `SayInboxPrompter`.  `crossed` is
history: the chats two writers held at once where no check of the code keeps one out.

*TurnLoop.*  `phase` is where the turn is in an iteration: `top`, the `call` in flight, then
either `words` (a completion without calls: the rails, in the order the loop asks them),
`critic`, `quality`, `claims` and `fresh` (the gates after them), or `tools`; `hook` while
`_fire_turn_end` asks; `ended`.  `why` is `stop_reason`, `n` the counters of the rails, each
named for what it answers (`_MAX_...` in the code), `hand` the kind of completion in hand.
The call is the loop's attempt loop: `Deltas` is `received_any`, `RateLimited`,
`Interrupted` and `Filtered` are its three retry budgets, `Overflow` the compact-then-retry,
`Failover` the one switch of model, `Fails` and `FilteredOut` the two ways it is given up.
`agent/loop.py` has the turn twice, `_run_turn` and the streaming `astream_turn`,
"driving the exact same cycle"; the actions are mapped to the first and their disjunctions
(`Call`, `Rail`, `Gate`, `Batch`, `TurnEnd`) to the second, and where the two differ (the
call's retries) `conf.stream` says which.  What a completion says, what a batch does and what
a hook answers is open, within what the guards of the code let pass (`May`).
Some rails are bounded for less than the turn, and so are their counters here: `heard` is
`completion_counts`, how many texts were sent once, twice, and so on, because each text has
broken-record rails of its own; `nudged` is `section_nudged`, each of the `Sections` asked about
once; `files` is `_targets`, because the recipe gate's cap grows with them (`RecipeCap`).
`released` says the recipe gate let files go (`stand_down`).  `plan`, `open` and `probing` are the
plan's board: whose steps they are, how many are open, and whether the stuck ladder put
investigation steps beside them, which hold no turn open (`ignore=`) but keep the request anchor
from being closed.  `worked` counts the iterations that ran a call of the model's, `excused`
those of them whose unit the code gives back all the same.

Named simplifications of the other modules: a server's turn in `SayInbox` (`OwnTurn`) tests for another process's turn first,
which the say consumer does and `POST /chat` does not (`CurrentChat` has the latter), and `Leave`
tests and unlinks a marker of its own in one step; `EventBus.Ask` leaves out a
`since` past the cursor, which a request that names no epoch may send;
`ServedRun.Retracted` looks at, reads and unlinks the slot in one step (`SayInbox` has the grain
below), `Consumes` has the say before the wake-up the consumer looks at first, either of which
makes a turn; `CurrentChat.ElsewhereBegins` loads the document at the turn's start, where a
REPL may have held it since an earlier turn of its own; `ToolGate.AnswerForSession` also lets the operator deny
for the session, which no prompt offers yet; `IdleDoor.Asked` stands for the re-entry after a stop
as for any turn that somebody else opened.

*IdleDoor.*  `slot`, `due`, `opened` and `last` are the `WakeupSlot`; `table`, `stopped` and
`notified` the records of `BackgroundTasks`; `proc`, `coded`, `child` and `mine` are the
operating system's side of a command: its process, its exit file, whose child it is, and
whether a watcher of this program image waits for it.  `phase` is the idle door (`idle`, a
line in hand `fired`, a `turn`, the process `down`), at the REPL or in the served app
(`conf.door`).  `Ends` is the end of a turn with what it does to the wake-up in the code's
order: the stall net, then `note_turn_end`.  `Breaks` is a turn cut off, which notes nothing;
`Crash`, `Quit` and `Restart` are the three ways the process ends, each with what it does to
its children.

*ToolGate.*  `Verdict`, `Authorized`, `AutoAllows` and `Honoured` are the policy's `decide`,
`authorize`, `auto_allows` and `restore_grants`; what its scans find in a call's arguments (a
catastrophic command, an undeclared install, a protected path) is given with the call.
`item[l][i]` is a call of loop `l`'s batch and where `_execute_tool_call_gated` has it: it
`wait`s for the one before, is put to the operator (`ask`), goes through the PreToolUse `hook`s,
or `run`s; `asked` is the call the gate saw and `now` what a hook made of it.  A batch of reads
runs at once (`par`).  `mem[l]` is what a loop's policy holds, `doc` what the session document
does: `BatchEnds` and `Save` write it, `Reopen`, a new `Agent` on the session after a turn, a
resume or a crash, reads it back.  `Delegate` starts a child with the posture and no grants.
`said` and `kept` are history: what the operator said, and what of it is on record.

Interaction: `ServedRun` and `SayInbox` share the slot's contract (in `ServedRun` a file
call is atomic, because `SayInbox` checks the grain below); `SpendGate`'s hook is
`ServedRun`'s `RequestStop`; `FrameworkStop` is the same run on a server that has
`run_stop_agent` in place of `run_stop_message`; a turn publishes on the `EventBus`; a turn of
`IdleDoor` and of `ServedRun` is one of `TurnLoop`, whose endings they take as they come; a
batch of `TurnLoop` is one of `ToolGate`; `CurrentChat` composes the slot, the store and the turns
of one served workspace, each reduced to what it shows the others.

## 3. The runs

Each passing run's properties and what they mean are commented at their definitions.

| Run | Instance | Shows |
|---|---|---|
| `SayLive` | a web app and a REPL together, 2 senders, a say box, 1 death, fair | the files implement `SaySlot` for as long as writers and consumers come one at a time; while served, the REPL takes none of the web app's messages, none is taken twice, none stays |
| `BusOne` | 1 watcher, ring 2, queue 2, 5 events, fair | order, once, no gap, closing ends the watcher |
| `BusThreads` | a worker thread publishes too | *violation*: an event slips (section 6) |
| `SpendOne` | 2 calls, money 0..2, 2 ends of the process, disk with and without faults | overshoot bounded, fails closed, refines `SpendCap` (so one soft trip a period) |
| `StopOne` | 2 callers, setter that refuses or times out, mind racing or not, 2 ends, fair | the target mode is there for every ask and for the mind; completion means done; a consumed ask is not put back; a spent ask goes |
| `ServedOne` | 6 configurations, 2 processes on one boot or two, fair | the ending is delivered once, leaves nothing, loses no operator's message, comes within its window; the digest is not interrupted; a boot's cap stands |
| `ServedStale` | one configuration | *violation*: a failed ending counts as done (section 6) |
| `ChatOne` | 3 chats, 2 turns, 2 messages, six settings of what goes on beside them, fair | what was saved in a chat stays in it, and a deleted chat stays deleted; a message runs in the chat it names; a turn that is cut gives its chat back |
| `TurnOne` | 17 settings, each with the rails that meet there, fair | no mixture of rails, refusals, retries and batches keeps a turn going, leaves a call unanswered, spends on, gives an iteration back twice or (but for the two places section 6 names) one that ran a call, or passes unfinished or unrun work off as completed without saying so |
| `TurnSplit` | the same settings without fairness | *violation*: a user message between a call and its result (section 6) |
| `GateOne` | a loop and a sub-agent, batches of 2, 6 calls, 4 postures, 2 Agents on the session | no grant, hook, posture or restore runs what only the operator may let run; his word for the session binds the loop it was given to, and a denial on record stands |
| `IdleOne` | 7 settings, 1 or 2 commands, 2 ends of the process, fair | a barren loop ends, an outage ends none, an exit is reported once |

### Bounds, and why they are enough

* Messages, calls, watchers, callers are interchangeable and each property relates at most
  two of them: two reach every case.  Watchers do
  not touch one another's state, so one is enough.
* `Ring = QueueMax = 2` with 5 events makes the ring wrap twice and the queue drop, with
  the sentinel among what is dropped.
* Two deaths: the second process, and what it finds after it has itself died, are as far
  as the code's recovery looks (nothing counts restarts).  `SayLive` has one because its
  liveness property quantifies over the survivors; section 4 is of any number.
* `MaxMoney = 2`: below the reserve's line, at it, at the cap.
* `MaxRaise = 1` counts raises that find no ask on disk; a second caller that finds one is
  not counted.
* `MaxStart = 2` in `ServedRun`: the restart under test is the one after a recorded
  ending, on the same boot or the next.
* The six configurations of `MCServedRun` are bounded and not, with a reserve and without,
  with an idle bound and without, with a digest and without; one has turns that ask for approval.

* The seventeen settings of `MCTurnLoop` (`conf`: rails, hook, streaming, pool, batches) group the
  rails that share state: those that read the plan, those that read what was written and
  run, those that are reset by one another, the ones of the call.  All rails at once is out
  of TLC's reach; the proofs of section 4 are of all at once.  `MaxPlain = 1` bounds the
  hook's refusals that name no skill (the code does not: a hook that refuses for ever keeps
  a turn for ever, by design); `batches` the batches, up to six, the stuck ladder's top.
  `MaxProviderVetoes = 2` (6 in the code) and `MaxLength = 2` keep the counters
  small; nothing but their comparison matters.  `MaxFiles = 3` is one more than `AttemptCap = 2`,
  so that the recipe gate's cap grows; two `Sections` and as many texts as a setting's rounds
  let the model send make a second text or section meet the rails of the first.  A pool meets
  the plan-first gate in one setting, the restart with a plan in another.  766,500 distinct states.
* The seven settings of `MCIdleDoor` are the two doors, with and without a loop, a wrapper
  that writes the exit code, faults, and commands; two commands only where a report of one
  meets the exit of the other.

* The six settings of `MCCurrentChat` (messages with prompts; renames beside another process's
  turn, and beside `POST /chat`; `POST /chat` with an egress proxy; uploads; a second page) put
  together what shares state: messages, slot and marker on one side, documents and claims on
  the other.  Switches, deletions, the say consumer's turns, stops and disconnects are in every one.  Two
  saved chats and one name for a new one: a property relates two chats at most.
* The six calls of `MCToolGate` are one of each kind the policy tells apart, the four postures
  one of each way it answers (asks, allows but confirms, refuses what it may not ask, asks
  nobody).  `MaxBatch = 2`: calls of a batch meet in pairs.  `MaxOpen = 2`: a posture and
  the one its grants are restored under.  `MaxWords = 2`: a grant and a denial.

Where a `cfg` switches the deadlock check off it says why: processes may all have ended, or
a bound be used up.

### Fairness, and why the code justifies it

* A call or turn step in progress goes on (weak): asyncio runs what is ready.  That a turn
  *ends* by itself is never assumed in `ServedRun`; `CapEndsTheRun` holds of turns that would go on
  for ever.
* Clocks advance (weak on ageing and window steps).
* The idle poll of `SayInbox` is strongly fair: it runs every 0.3 to 0.5 s and a slot free
  of markers that keeps coming back is seen.
* In `TurnLoop` a step that is possible happens (weak on `Step`): what the loop awaits comes
  back.  `HorizonPasses`, the clock of the retry horizon, is fair by itself; a new build and a
  cancel are not.
* In `IdleDoor` a turn ends, a foreground wait is bounded, children are reaped while the event
  loop turns, time passes, a process that ended is started again (weak).  The door's two
  looks, `Notify` and `TakeWakeup`, are strongly fair: the door is idle again and again,
  with turns of other openers between.  The provider's coming back is a premise of
  `LoopSurvives`, not fairness.
* In `CurrentChat` a cancelled turn ends and the await of its release comes back (weak); that
  a turn ends by itself is not assumed.
* Clients, operators, senders, the mind and deaths are never fair.  In `FrameworkStop` the
  boot is: the service unit restarts the process (`deploy/systemd`).

## 4. What is proved

TLAPS checks these for every value of the constants that satisfies the modules' named
assumptions (sizes positive, the empty value outside the sets, the quality gates that may ask
finite in number). Beside every invariant the passing runs check, and their action properties,
they state what is *safety* in each liveness property: TLC shows that the thing comes, on a
small instance, and the theorem that no step can lose it, for all.

*SayInbox_proof.* `TypeCorrect`, and for as long as writers and consumers of the slot have come
one at a time (the history variable `alone`; any crashes) `AloneExactlyOnce`,
`AlonePendingIsRefused` and `ImplementsSlot`, the refinement. Exactly-once is not inductive: the
invariant `AloneInv` adds that what a writer past its test and a reader past its read believe of
the slot is still so, and that a pending message was accepted and not handed over. When two of
them overlap these are false: section 6. In every composition, whatever REPLs, senders and say
boxes do, `ServedOwnsItsSlotAlways`: while there are messages that are the web app's own nobody
else is past a test of the markers (`OwnInv`), and one that is pending no consumer has taken
before (`PendingInv`). And `MarkersAreHeldAlways`, for `PendingIsTaken`: however two processes'
claims and releases cross, a busy marker is of one in the turn that will take it away or of one
that died, so none stands for ever.

*EventBus_proof.* `TypeCorrect`: ring and queues stay within their bounds however many threads
publish. `InOrderAlone`, `NothingSlipsAlone`: for a bus that only the loop publishes on. The
invariant says how ring, snapshot, queue and publish in progress follow what a watcher was given
(`SeamInv`): the snapshot lies before the queue, both after `last`, and a publish whose offers
are pending after everything. `SentinelStandsAlways`, for `CloseEndsEveryWatcher`: who tails a
closed bus has the sentinel in its queue, however many threads still publish; it asks that the
workers be fewer than a queue is long (`FewWorkers`; a queue holds 512 events, and sync routes
run on a pool of a few dozen threads).

*Workspace_proof*, of `CurrentChat`. `ChatTypeCorrect`; `OneTurnPerChatAlways`: a chat is tested
and claimed with no await between. `NothingSavedIsLostAlways` rests on `LossInv`: whoever holds
a chat in memory - a turn here, one in another process, an upload - holds all that was saved in
it, because who would change it meanwhile is refused, or has the chat `crossed`.
`SayRunsInItsChatAlways` rests on `AddressInv`: the chat the marker names is that of every turn,
of the message being queued under the lock and of the one that waits, so that no switch gets
between. `CutStandsAlways`, for `CutGivesBack`: a cut stands until the claim is given back, a
turn that is over does not go back to work, and one that is stuck is behind an egress proxy with
its client gone.

*Workspace_proof*, of `SpendGate`. `TypeCorrect`, `OvershootAlways`, `FailsClosedAlways`
whatever the disk does; `OneEndingAlways` (the soft trip fires once a period) and
`ImplementsCap`, both of a sound disk. The invariant `Ahead` says how far the memory may be
ahead of the ledger at each step: by one push, or by one charge of the one call that is counted
and not yet saved.

*FrameworkStop_proof.* `TypeCorrect`, `CompleteMeansDoneAlways` and `TargetMeansStopAlways`, for
any number of callers, raises and ends of the process. The first needs where each caller may
stand (`PlaceInv`), that a stop the mind has begun keeps its checkpoint until it signs off
(`CheckpointInv`), and that under an open window the ask is on disk, being answered, or answered
(`AnsweredInv`); the second, who answers for a target mode that no file explains (`KeptInv`).
For a stop raised once (`OneRaise`), `OnceConsumed`, with it `OnceFilesMeanAStop`, and
`OnceTargetOutlivesNeed`: one caller acts, and until its setter returns nobody has read an ask
(`OnceInv`); the target mode is there from before the ask until after it (`TargetInv`), and for
the mind while it stops (`MindInv`). A second raise makes these false: it may revert the target
mode under the first, or ask again (section 6). `SpentIsWatchedAlways`, for `SpentIsRetired` and
any number of raises: an ask whose window closed unanswered is being retired, or a boot is to
come that looks, over any ends of the process; unless the mind consumed an ask before, when the
retirement may pass an ask raised again (section 6).

*TurnLoop_proof.* For every set of rails, caps, pool and number of batches, so also for all
rails at once, which TLC cannot reach. `EveryCallAnsweredAlways`: an unanswered call is in a
batch the loop holds (`AnsweredInv`). `PoolIsSoundAlways`: the invariant counts the unit an
iteration in flight may still give back (`Taken`), so each refund is of a unit not yet given
back, and `ExcusedInv` charges each one that worked to the gate that excused it.
`CompletedMeansDoneAlways`: from `Stands` on, what "completed" promises holds (`Done`, `Held`: a
run of all files or a release the turn owned), and a gate that changes any of it sends the turn round. `TypeCorrect` has its counters stop
short of their limits while the turn goes on (`Values`, `Counters`). `OvershootBoundedAlways`:
what was paid late is what was thrown away since (`LateInv`), and withheld answers are bounded
by a term that grows by one call's worth at each refusal of the hook and starts over at each
discard (`WithheldInv`, `Paid`). `FuelBurnsAlways`, for `TurnEnds`: `Fuel`, fourteen natural
numbers in lexicographic order - batches, refusals of the hook, rails that speak once (a section's
question once of each section), whether this round may still bring a new text (`Fresh`), the
broken-record rails the texts heard so far still have (`Repeats`), open steps, nudges, empty completions, the place in the iteration, the retries of a call - gets less
with every step of the loop, but for the wait for a rate limit, which a clock of its own ends.
So no set of rails keeps a turn going; with batches or refusals unbounded there is no such
measure. `SplitsAtDoomOnly`: what the run `TurnSplit` refutes holds except after the doom
guard's last recovery, under a hook that refuses its ending.

*ServedRun_proof.* `TypeCorrect`, `EndingReachesOneTurnAlways`, `NothingIsLeftAlways`, and the
two action properties `EndingStandsAlways` and `SayIsNeverDroppedAlways`, for any configuration
of a run and any number of restarts. The first needs to know where the ending line is (`Held`,
`Sound`): before it is written nowhere, then in one place at a time, the slot, the hands of a
prompt or a turn; while the window is open it leaves the slot only into a turn, unless turns
ask. `Places` says which endings are on record at each place the consumer may stand.
`OverrunIsCutAlways`, for `CapEndsTheRun`: until a run has ended it is watched, or its window is
spent and the turn in flight has its interrupt (`TurnIsWatched`), and after the window no beat
starts a turn. `DoneNeedsThreeAlways`: of the claim `ServedStale` refutes, what is true: DONE is
recorded with the line taken, nothing in flight and a last turn that completed, unless that turn
raised.

*ToolGate_proof.* `TypeCorrect`, `FloorsHoldAlways`, `WordStandsAlways`, for any calls,
postures, sub-agents, batches and restores. `FloorsHold` follows from what is known of each call
past the gate (`GoodItem`: how it was let through, and that the verdict was so), whatever its
hooks do next. `WordStands` needs that what a policy holds and what the document holds were said
(`WordInv`). `HarnessAsksNobodyAlways` has no run of its own: between the harness's look
(`AutoAllows`) and the gate nothing changes the policy, because a harness call is alone in its
batch (`OrderInv`, `HarnessInv`).

*IdleDoor_proof.* `TypeCorrect`; `BarrenEndsAlways`: whenever a sentinel is held or its turn
runs, what the guard remembers is what the loop last did (`BarrenInv`); `NeverReportedTwice`,
the safety half of `ReportedOnce`: what was reported is marked, and marks outlive every end of
the process. `ExitIsNeverLost`, its other half: the exit of a recorded command has been reported
once or is there for the door's next look, and stays (`ForeInv`: what a turn waits for is not on
record). `LoopIsHeldAlways`, for `LoopSurvives`: where no turn is cut off and no process ends,
no step loses a loop that is held or on its way - not an outage, not another opener's turn - but
a turn that takes the net down or puts another prompt in its place (`OpenedInv`:
`sentinel_turn_open` says the truth).

## 5. What is only model-checked

Liveness, because fairness and ENABLED are out of the prover's reach. Each has its safety
proved:

| Checked | Proved |
|---|---|
| `PendingIsTaken` | `MarkersAreHeldAlways` |
| `CloseEndsEveryWatcher` | `SentinelStandsAlways` |
| `SpentIsRetired` | `SpentIsWatchedAlways` |
| `CapEndsTheRun` | `OverrunIsCutAlways` |
| `TurnEnds` | `FuelBurnsAlways` |
| `CutGivesBack` | `CutStandsAlways` |
| `ReportedOnce` | `NeverReportedTwice`, `ExitIsNeverLost` |
| `LoopSurvives` | `LoopIsHeldAlways` |

What is left to TLC there is that the steps the theorems keep enabled are taken, under the
fairness of section 3. Every invariant and every other action property of a passing run is
proved. Induction over data is out of reach too; no module declares a RECURSIVE operator, so
that all can be proved about.

## 6. Where the code and its own text disagree

Shown by a run:

* `server/event_bus.py:216` "each event is yielded exactly once, in cursor order": not when
  a sync route publishes from a worker thread beside the loop (`BusThreads`).
* `server/app.py:3709-3711`, DONE needs "the last turn's stop_reason" to be `completed`: a
  turn that raises leaves the one before it (`ServedStale`).
* `agent/loop.py:9670-9673`, the doom-loop batch is answered "FIRST so strict providers still
  see a valid tool_use/tool_result pairing on re-entry": the hook's message goes in before
  the results (`TurnSplit`).

Met while modelling, without a run of their own:

* `server/app.py:3592-3594`, the callers share "ONE window": the window is tested before
  an await and opened after it, so two callers in flight open it twice.
* docs/DECISIONS.md, ADR-0320, "A message sent from the page runs on the chat the page shows": a turn
  that a client of `POST /chat` runs in another chat takes the page's message at its next
  boundary (`agent/loop.py:8033`), as any turn of the server does.  A message a prompt held goes
  back without its chat, which a switch may have left meanwhile; and `GET /sessions/current` may unlink a marker that
  was moved since it was read (`server/app.py:1112`).  `SayRunsInItsChat` has these as its conditions.
* An upload saves the chat it loaded before it looked at the claims (`server/app.py:1342`, 1384): a
  rename, a deletion or a whole turn between the two is undone.  A deletion or a rename looks at
  another process's turn, and `POST /chat` does not.  `NothingSavedIsLost` leaves such chats out (`crossed`).
* With an egress proxy a stream whose client is gone may leave its chat claimed for ever
  (`server/app.py:1747`; ADR-0327 lists it as not fixed); `CutGivesBack` leaves the proxy out.
* Two idle REPLs on one workspace may both read one message (`say_inbox.py:69`, against :23),
  and two writers past `exists()` overwrite one another (:58, against :18-19).
* An idle process may read the slot after another's turn began (`cli/__init__.py:2238`).
* Closing a bus can push queued events out of a full queue (`event_bus.py:227`).
* A push whose floor is lower than the last, and not below the base, lowers the spend
  (`spend_gate.py:129`).  An end between the saved soft mark and the hook loses the ending
  (:174).
* The verify of one caller may revert the target mode of a stop the mind has begun
  (`framework_signal.py:184`); a setter killed at its timeout reverts it under an ask it wrote
  (`framework_stop.py:182`); a raise after the ask was consumed asks again (:152).
  `StopOne`'s properties name these as their conditions (`paced`, `faults`).  An ask raised again while
  the mind stops is passed over by the retirement, which sees that stop's checkpoint, and stays on disk until the
  next boot (`SpentIsRetired` is checked with one raise).
* The cap's check between beats renames a `/run/stop` (`app.py:4036`, against the watcher's
  docstring, 3916-3918).
* An approval prompt may take the ending line out of the slot, which is then recorded as
  TAKEN, and may take the watcher's only interrupt as its denial; `TakenMeansDelivered`,
  `NothingIsLeft` and `CapEndsTheRun` exclude a server whose turns ask (`conf.asks`).
* `server/app.py:4049-4051` "a run that trips both still ends as `duration_cap`": with a
  window open the idle check (4065) may name it over the cap.
* Turn-end observers fire at `_fire_turn_end`'s six call sites only, where the comments
  (`hooks/__init__.py:623-625`, `agent/loop.py:7685`) say every turn end.
* A turn cancelled during a batch leaves calls without results (`agent/loop.py:88-91` rules it out);
  `EveryCallAnswered` excludes it.
* A model that alternates a batch that does no work with an empty completion gets its
  `empty_retries` back each time, and without `max_iterations` nothing else ends the turn:
  `TurnEnds` speaks of a model that sends finitely many batches.
* `agent/loop.py:9740` "the batch never executed — no work happened": the wake-up calls of the
  withheld batch ran (6895-6896), and the unit goes back.  A restart at a skill gives its unit back
  over the plan and wake-up calls it ran (7154-7156, as its docstring says).  `PoolIsSound`
  counts both (`excused`) and bounds them by how often the gate and the restart fired.
* A turn whose recipe gate stood down (`agent/loop.py:8964-8967`) may end `completed` with files
  that never ran; it is degraded then, and `CompletedMeansDone` says so.
* `VerificationGate.passed` is never taken back by a later write or failing run
  (`agent/verify.py:157`, against :8-10); `CompletedMeansDone` says what the code means by it.
* `agent/loop.py:7751-7753` "Every vetoed ending this turn was the same kind": vetoes mix.
* `config.py:531-534` "once a ceiling is crossed the turn stops": a call that fails never asks
  for the ceiling, so withheld answers are billed past it, again after each refusal of the
  hook (`agent/loop.py:8674-8734`).  `OvershootBounded` says by how much.
* A stream cut by the degeneration probe (`agent/loop.py:10425`) breaks before its usage event
  and is not billed, where the buffered path bills a discarded completion (:8742-8747).
* The buffered path starts a call's retry budgets anew after a context recovery, the streaming
  one only after a failover (`agent/loop.py:10640-10652`, "keep the paths symmetric").
* A sentinel turn that is cut off never calls `note_turn_end`: `sentinel_turn_open` stays, and the
  next turn, a person's, is judged in its place (`wakeup.py:229-231`).  A wake-up fired into an
  outage that is not the sentinel is consumed ("An outage may delay the loop; it must never
  end it").  `LoopSurvives` has these as its premises.
* After an exec, a child killed before its wrapper wrote a code stays a zombie the probe
  calls alive: "running" for ever, against `background.py:22-25`.  A command that ends
  between the two reads of its status is reported "lost" (:246-257).  A line taken at the door and lost with
  the process before its turn is not given again.
* `agent/loop.py:7011-7012`, a read-only batch is "never escalated to a permission prompt": a read
  of a protected secret and a tool that is to be confirmed are, and their prompts are then
  open at once.
* `agent/loop.py:3173`, grants are saved "so they survive a restart": one that a tighter posture does not
  honour is dropped from the document at the next save, and a looser one does not get it back.
* `permissions.py:73`, under autonomous "NOTHING ever prompts": a tool with an override that asks does.
* `_requeue_held_says` does not look at `write_say`'s answer (`app.py:596`).

## 7. Plan

Done: 1 `SaySlot`, `SayInbox`; 2 `EventBus`; 3 `SpendCap`, `SpendGate`; 4 `FrameworkStop`;
5 `ServedRun`; 6 `TurnLoop`; 7 `IdleDoor`; 8 `ToolGate`; 9 `CurrentChat`, each with its proofs.

Next, in this order:

10. `ObservationInbox`, abstract as a latest-wins cell, with a refinement.
11. `BusRegistry` above `EventBus`: an idle bus goes only when nobody means to watch it.
12. Pure operators: the stuck detector, compaction's cut, each against a
    reference definition over bounded inputs; the credential pool.

Runs stay few: a later module gets one run, and a refinement is checked in the run of its
detailed module.

## 8. Not modelled

* Text: prompts, rendering, provider codecs, skills, rules.  What they do is wording.
* Plain I/O: tools, search, egress filter, self-update, evaluation scripts, deployment units.
* Of the turn loop: the step seams of a plan, compaction, what a sub-agent spends of the shared pool,
  routing, the overrides of a reasoning-overflow retry, the text of every message.  Of
  the idle doors: delays and backoff, the output of a command, Windows.
* Of the chats: slash commands and their refusals, a line set aside for a restart, suggestions
  (`.nudge`, the slot's twin), lists and downloads, corrupt documents.
* Of the tool gate: an `Agent` without a permission policy (every call runs), how the scans find
  what they find, PostToolUse hooks, the isolation of child workspaces.
* Within the modelled parts: OS errors of a single file except where the code branches on
  them (`SpendGate`, `FrameworkStop`), temporary files behind `os.replace`, the wall clock (it is a
  flag that turns true), `run_end_command`, the hand-over to a newer build (a
  bounded run never follows one), and the task-boundary hold of a say.
* The parts of section 7 that are still to come.
