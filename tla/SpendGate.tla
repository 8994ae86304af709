----------------------------- MODULE SpendGate ------------------------------
(***************************************************************************)
(* The per-Mind spend gate (providers/spend_gate.py): what a model call    *)
(* asks before it is sent and what it counts after, the vessel's pushes,   *)
(* and the ledger that carries the count across a restart.                 *)
(*                                                                         *)
(* Every caller runs on the server's event loop and awaits nothing inside  *)
(* the gate, so nothing comes between the steps of one operation but the   *)
(* end of the process: a push or a charge changes the memory, saves it,    *)
(* marks the soft trip when it is due, saves the mark, and fires the hook. *)
(*                                                                         *)
(* Abstracted: money is a natural number; the counts of refused and of     *)
(* unpriced calls, which only the health view reads (an unpriced call is a *)
(* cost of 0); the ledger's path, version and JSON (a ledger is a record,  *)
(* None when there is no file, Bad when it cannot be read).                *)
(***************************************************************************)
EXTENDS Integers, FiniteSets

CONSTANTS Calls,     \* the calls that may be in flight together
          None, Bad, \* no ledger, a ledger that cannot be read
          MaxMoney,  \* bound: a Mind's spend and budget
          MaxCrash   \* bound: ends of the process

Money == 0..MaxMoney

Ledger == [armed : BOOLEAN, cap : Nat, reserve : Nat, base : Nat, floor : Nat, counted : Nat,
           soft : BOOLEAN]

ASSUME BoundAssumption == MaxMoney \in Nat /\ MaxCrash \in Nat
ASSUME FileAssumption == None # Bad /\ None \notin Ledger /\ Bad \notin Ledger

VARIABLES
  up,         \* the process runs
  gate,       \* its memory: a Ledger
  failed,     \* _load_failed
  at,         \* where the operation in progress is, "free" when there is none
  call,       \* [Calls -> "idle", "sent", or "counted": its charge is not saved yet]
  disk,       \* the ledger file
  crashes,
  sound,      \* rigid: no write fails and nothing spoils the ledger
  fired,      \* history: soft-trip hooks called in this period
  atCap,      \* history: calls in flight when the spend last reached the cap
  untrusted   \* history: no push since the process found its ledger spoilt

mem == <<up, gate, failed, at, call>>
hist == <<fired, atCap, untrusted>>
vars == <<mem, disk, crashes, sound, hist>>

Free == "free"      \* the lock is free
Saving == "save"    \* the memory is ahead of the ledger
Rebased == "rebase" \* the same, after a push that began a period
Due == "due"        \* the soft trip is to be looked at
Marked == "mark"    \* soft_fired is set and not saved
Firing == "fire"    \* the lock is free again and the hook is to be called

Blank == [armed |-> FALSE, cap |-> 0, reserve |-> 0, base |-> 0, floor |-> 0, counted |-> 0,
          soft |-> FALSE]

Spent(g) == IF g.base + g.counted >= g.floor THEN g.base + g.counted ELSE g.floor

Reached(g) == g.armed /\ Spent(g) >= g.cap

InFlight == {k \in Calls : call[k] = "sent"}

TypeOK ==
  /\ up \in BOOLEAN /\ failed \in BOOLEAN /\ untrusted \in BOOLEAN
  /\ gate \in Ledger /\ gate.reserve <= gate.cap
  /\ at \in {Free, Saving, Rebased, Due, Marked, Firing}
  /\ call \in [Calls -> {"idle", "sent", "counted"}]
  /\ disk \in Ledger \cup {None, Bad}
  /\ crashes \in 0..MaxCrash /\ sound \in BOOLEAN
  /\ fired \in Nat
  /\ atCap \subseteq Calls

Init ==
  /\ up = TRUE /\ gate = Blank /\ failed = FALSE /\ at = Free
  /\ call = [k \in Calls |-> "idle"]
  /\ disk = None /\ crashes = 0 /\ sound \in BOOLEAN
  /\ fired = 0 /\ atCap = {} /\ untrusted = FALSE

-----------------------------------------------------------------------------
(* set_budget, up to its save. *)
Rebases(f) == ~gate.armed \/ failed \/ f < gate.base

Pushed(c, r, f) ==
  [armed |-> TRUE, cap |-> c, reserve |-> r, floor |-> f,
   base |-> IF Rebases(f) THEN f ELSE gate.base,
   counted |-> IF Rebases(f) THEN 0 ELSE gate.counted,
   soft |-> gate.soft /\ ~Rebases(f)]

(* The calls in flight at the moment the spend reaches the cap. *)
NoteCap == atCap' = IF Reached(gate') /\ ~Reached(gate) THEN {k \in Calls : call'[k] = "sent"} ELSE atCap

(* Mutant of Push: a reserve above the cap is not refused. *)
PushUnchecked(c, r, f) ==
  /\ up /\ at = Free
  /\ gate' = Pushed(c, r, f)
  /\ failed' = FALSE /\ untrusted' = FALSE
  /\ at' = IF Rebases(f) THEN Rebased ELSE Saving
  /\ UNCHANGED <<up, call, disk, crashes, sound, fired>>
  /\ NoteCap

Push(c, r, f) ==
  /\ up /\ at = Free /\ r <= c
  /\ gate' = Pushed(c, r, f)
  /\ failed' = FALSE /\ untrusted' = FALSE
  /\ at' = IF Rebases(f) THEN Rebased ELSE Saving
  /\ UNCHANGED <<up, call, disk, crashes, sound, fired>>
  /\ NoteCap

(* Mutant of Admits: the cap itself is still admitted. *)
AdmitsAtCap == ~gate.armed \/ (~failed /\ Spent(gate) <= gate.cap)

(* admit: the call is sent, unless it is refused. *)
Admits == ~gate.armed \/ (~failed /\ Spent(gate) < gate.cap)

Admit(k) ==
  /\ up /\ at = Free /\ call[k] = "idle" /\ Admits
  /\ call' = [call EXCEPT ![k] = "sent"]
  /\ UNCHANGED <<up, gate, failed, at, disk, crashes, sound, hist>>

(* charge, up to its save; a gate that is not armed counts nothing. *)
Charge(k, cost) ==
  /\ up /\ at = Free /\ call[k] = "sent"
  /\ IF gate.armed
     THEN /\ gate.counted + cost <= MaxMoney
          /\ gate' = [gate EXCEPT !.counted = @ + cost]
          /\ call' = [call EXCEPT ![k] = "counted"]
          /\ at' = Saving
     ELSE /\ call' = [call EXCEPT ![k] = "idle"]
          /\ UNCHANGED <<gate, at>>
  /\ UNCHANGED <<up, failed, disk, crashes, sound, fired, untrusted>>
  /\ NoteCap

(* A call that fails, or a stream cancelled half way, is never charged. *)
Uncharged(k) ==
  /\ up /\ at = Free /\ call[k] = "sent"
  /\ call' = [call EXCEPT ![k] = "idle"]
  /\ UNCHANGED <<up, gate, failed, at, disk, crashes, sound, hist>>

(* _save: the ledger is replaced, or the write fails and that is only reported. *)
Written == disk' = gate \/ (~sound /\ UNCHANGED disk)

Save ==
  /\ up /\ at \in {Saving, Rebased}
  /\ Written
  /\ at' = Due
  /\ call' = [k \in Calls |-> IF call[k] = "counted" THEN "idle" ELSE call[k]]
  /\ fired' = IF at = Rebased THEN 0 ELSE fired
  /\ UNCHANGED <<up, gate, failed, crashes, sound, atCap, untrusted>>

(* _soft_due: true the first time the spend reaches the cap less the reserve. *)
SoftDue ==
  /\ up /\ at = Due
  /\ IF gate.soft \/ Spent(gate) < gate.cap - gate.reserve
     THEN at' = Free /\ UNCHANGED gate
     ELSE at' = Marked /\ gate' = [gate EXCEPT !.soft = TRUE]
  /\ UNCHANGED <<up, failed, call, disk, crashes, sound, hist>>

(* Mutant of SaveMark: the mark stays in memory. *)
MarkUnsaved ==
  /\ up /\ at = Marked
  /\ at' = Firing
  /\ UNCHANGED <<up, gate, failed, call, disk, crashes, sound, hist>>

SaveMark ==
  /\ up /\ at = Marked
  /\ Written
  /\ at' = Firing
  /\ UNCHANGED <<up, gate, failed, call, crashes, sound, hist>>

Fire ==
  /\ up /\ at = Firing
  /\ fired' = fired + 1
  /\ at' = Free
  /\ UNCHANGED <<up, gate, failed, call, disk, crashes, sound, atCap, untrusted>>

-----------------------------------------------------------------------------
(* The process ends between any two steps, and its calls with it. *)
Crash ==
  /\ up /\ crashes < MaxCrash
  /\ up' = FALSE /\ crashes' = crashes + 1
  /\ gate' = Blank /\ failed' = FALSE /\ at' = Free
  /\ call' = [k \in Calls |-> "idle"]
  /\ atCap' = {}
  /\ UNCHANGED <<disk, sound, fired, untrusted>>

Corrupt ==
  /\ ~sound /\ ~up /\ disk \in Ledger
  /\ disk' = Bad
  /\ UNCHANGED <<mem, crashes, sound, hist>>

(* Mutants of Loaded: the count is not read back; a spoilt ledger arms nothing. *)
LoadedUncounted(d) ==
  CASE d = None -> Blank
    [] d = Bad -> [Blank EXCEPT !.armed = TRUE]
    [] OTHER -> [d EXCEPT !.counted = 0]
LoadedOpen(d) == IF d \in {None, Bad} THEN Blank ELSE d

(* _load: no file leaves the gate inert, a spoilt one arms it with nothing. *)
Loaded(d) ==
  CASE d = None -> Blank
    [] d = Bad -> [Blank EXCEPT !.armed = TRUE]
    [] OTHER -> d

Boot ==
  /\ ~up
  /\ up' = TRUE
  /\ gate' = Loaded(disk)
  /\ failed' = (disk = Bad)
  /\ untrusted' = (disk = Bad)
  /\ UNCHANGED <<at, call, disk, crashes, sound, fired, atCap>>

-----------------------------------------------------------------------------
Next ==
  \/ \E c, r, f \in Money : Push(c, r, f)
  \/ \E k \in Calls : Admit(k) \/ Uncharged(k) \/ \E cost \in Money : Charge(k, cost)
  \/ Save \/ SoftDue \/ SaveMark \/ Fire
  \/ Crash \/ Corrupt \/ Boot

Spec == Init /\ [][Next]_vars

-----------------------------------------------------------------------------
(* "The overshoot is at most the calls already in flight when the cap is reached": at
   the cap and above, every call in flight was in flight when the cap was reached, through
   pushes that move the cap and the floor.                                              *)
OvershootBounded == up /\ Reached(gate) => InFlight \subseteq atCap

(* The graceful ending is asked for once a period, however often the process restarts, as
   long as the disk never fails.                                                           *)
OneEnding == sound => fired <= 1

(* A spoilt ledger fails closed: no call is sent until a push, over any restarts. *)
FailsClosed == untrusted => InFlight = {}

(* On a disk that never fails the gate and its ledger are the gate that never restarts: a
   restart forgets no charge that was saved, no cap and no soft trip.  The budget is what
   the ledger holds.  (Of a disk that may fail nothing is claimed: it is mapped to a gate
   that nobody uses.)                                                                     *)
Budget == IF ~sound \/ disk \in {None, Bad} THEN Blank ELSE disk
Flight == {k \in Calls : sound /\ call[k] # "idle"}
Cap == INSTANCE SpendCap WITH budget <- Budget, flight <- Flight
CapSpec == Cap!Spec
=============================================================================
