------------------------------ MODULE EventBus ------------------------------
(***************************************************************************)
(* One session's event bus (server/event_bus.py, SessionEventBus) and the  *)
(* watchers the route GET /watch/{session_id} gives it (server/app.py).    *)
(*                                                                         *)
(* An event is its cursor.  The event loop runs the watchers and the turn  *)
(* that publishes, so a watcher never runs in the middle of the loop's own *)
(* publish; a sync route (POST /watch/{id}/marker) publishes from a worker *)
(* thread, and its steps fall anywhere between the loop's.                 *)
(*                                                                         *)
(* Abstracted: the event's content, its publish stamp, and the activity    *)
(* count (the registry's business).  subscribe keeps the whole copy of the *)
(* ring and skips what is not after `since` as it comes to it, where the   *)
(* code filters the copy first: what is yielded is the same.               *)
(***************************************************************************)
EXTENDS Integers, Sequences, FiniteSets

CONSTANTS Watchers,
          Loop,        \* the event loop's thread
          Workers,     \* threads of sync routes that publish
          Ring,        \* the ring buffer's maxlen
          QueueMax,    \* _SUBSCRIBER_QUEUE_MAXLEN
          MaxCursor    \* bound: events published in one behaviour

ASSUME SizeAssumption == Ring \in Nat \ {0} /\ QueueMax \in Nat \ {0} /\ MaxCursor \in Nat
ASSUME LoopAssumption == Loop \notin Workers

Threads == Workers \cup {Loop}

VARIABLES
  buffer,   \* the ring: cursors, oldest first
  cursor,   \* the last cursor handed out
  closed,
  subs,     \* the watchers whose queue is registered
  pub,      \* [Threads -> a publish in progress]: the item, where it is, whom it still offers to
  wpc,      \* [Watchers -> where the watcher is]
  floor,    \* [Watchers -> `since`]
  last,     \* [Watchers -> the last cursor yielded, or floor]
  replay,   \* [Watchers -> the rest of the snapshot]
  queue,    \* [Watchers -> the live queue]
  seen,     \* history: [Watchers -> the cursors yielded, in order]
  gone,     \* history: cursors the ring let go of: evicted, forgotten
  unheard   \* history: [Watchers -> cursors gone before it subscribed, or dropped by its full queue]

bus == <<buffer, cursor, closed, subs, pub, gone>>
watch == <<wpc, floor, last, replay, queue, seen, unheard>>
vars == <<bus, watch>>

Close == 0   \* the _CLOSE sentinel in a queue; no event has cursor 0
Cursors == 1..MaxCursor

Off == "off"        \* no request yet
Asked == "asked"    \* the response's headers are sent, its body has not started
Replay == "replay"  \* yielding the snapshot
Tail_ == "tail"     \* waiting on the live queue
Ended == "ended"    \* the bus closed under it
Left == "left"      \* the client went away

Watching == {Replay, Tail_}

Items(s) == {s[i] : i \in DOMAIN s}

Idle == [at |-> "idle", item |-> 0, to |-> {}]

TypeOK ==
  /\ buffer \in Seq(Cursors) /\ Len(buffer) <= Ring
  /\ cursor \in 0..MaxCursor
  /\ closed \in BOOLEAN
  /\ subs \subseteq Watchers
  /\ pub \in [Threads -> [at : {"idle", "stamped", "appended", "fan"}, item : 0..MaxCursor,
                          to : SUBSET Watchers]]
  /\ wpc \in [Watchers -> {Off, Asked, Replay, Tail_, Ended, Left}]
  /\ floor \in [Watchers -> 0..MaxCursor]
  /\ last \in [Watchers -> 0..MaxCursor]
  /\ replay \in [Watchers -> Seq(Cursors)]
  /\ queue \in [Watchers -> Seq(0..MaxCursor)]
  /\ \A w \in Watchers : Len(queue[w]) <= QueueMax
  /\ seen \in [Watchers -> Seq(Cursors)]
  /\ gone \subseteq Cursors
  /\ unheard \in [Watchers -> SUBSET Cursors]

Init ==
  /\ buffer = <<>> /\ cursor = 0 /\ closed = FALSE /\ subs = {}
  /\ pub = [t \in Threads |-> Idle]
  /\ wpc = [w \in Watchers |-> Off]
  /\ floor = [w \in Watchers |-> 0]
  /\ last = [w \in Watchers |-> 0]
  /\ replay = [w \in Watchers |-> <<>>]
  /\ queue = [w \in Watchers |-> <<>>]
  /\ seen = [w \in Watchers |-> <<>>]
  /\ gone = {}
  /\ unheard = [w \in Watchers |-> {}]

(* The loop's thread is not in the middle of a publish: a coroutine may run. *)
LoopFree == pub[Loop].at = "idle"

-----------------------------------------------------------------------------
(* Mutant of Stamp: the cursor is the event's place in the ring. *)
StampByLength(t) ==
  /\ pub[t].at = "idle" /\ ~closed /\ cursor < MaxCursor
  /\ cursor' = Len(buffer) + 1
  /\ pub' = [pub EXCEPT ![t] = [at |-> "stamped", item |-> Len(buffer) + 1, to |-> {}]]
  /\ UNCHANGED <<buffer, closed, subs, gone, watch>>

(* publish: the closed test, the count and the item, up to the clock's call ... *)
Stamp(t) ==
  /\ pub[t].at = "idle" /\ ~closed /\ cursor < MaxCursor
  /\ cursor' = cursor + 1
  /\ pub' = [pub EXCEPT ![t] = [at |-> "stamped", item |-> cursor + 1, to |-> {}]]
  /\ UNCHANGED <<buffer, closed, subs, gone, watch>>

(* Mutant of Push: the ring has no maxlen. *)
PushUnbounded(s, c) == Append(s, c)

(* ... the append, which evicts the oldest from a full ring ... *)
Push(s, c) == IF Len(s) < Ring THEN Append(s, c) ELSE Append(Tail(s), c)

RingAppend(t) ==
  /\ pub[t].at = "stamped"
  /\ buffer' = Push(buffer, pub[t].item)
  /\ gone' = gone \cup IF Len(buffer) < Ring THEN {} ELSE {Head(buffer)}
  /\ pub' = [pub EXCEPT ![t].at = "appended"]
  /\ UNCHANGED <<cursor, closed, subs, watch>>

(* Mutant of Snapshot: only the watchers that tail are offered the event. *)
SnapshotTailing(t) ==
  /\ pub[t].at = "appended"
  /\ pub' = [pub EXCEPT ![t] = [@ EXCEPT !.at = "fan", !.to = {w \in subs : wpc[w] = Tail_}]]
  /\ UNCHANGED <<buffer, cursor, closed, subs, gone, watch>>

(* ... the copy of the subscribers ... *)
Snapshot(t) ==
  /\ pub[t].at = "appended"
  /\ pub' = [pub EXCEPT ![t] = [@ EXCEPT !.at = "fan", !.to = subs]]
  /\ UNCHANGED <<buffer, cursor, closed, subs, gone, watch>>

(* ... and an _offer to each, in no given order; a full queue drops its oldest. *)
Offered(q, c) == IF Len(q) < QueueMax THEN Append(q, c) ELSE Append(Tail(q), c)
Dropped(q) == IF Len(q) < QueueMax THEN {} ELSE {Head(q)}

Offer(t) ==
  /\ pub[t].at = "fan"
  /\ \E w \in pub[t].to :
       /\ queue' = [queue EXCEPT ![w] = Offered(@, pub[t].item)]
       /\ unheard' = [unheard EXCEPT ![w] = @ \cup (Dropped(queue[w]) \ {Close})]
       /\ pub' = [pub EXCEPT ![t].to = @ \ {w}]
  /\ UNCHANGED <<buffer, cursor, closed, subs, gone, wpc, floor, last, replay, seen>>

Published(t) ==
  /\ pub[t].at = "fan" /\ pub[t].to = {}
  /\ pub' = [pub EXCEPT ![t] = Idle]
  /\ UNCHANGED <<buffer, cursor, closed, subs, gone, watch>>

Publish(t) == Stamp(t) \/ RingAppend(t) \/ Snapshot(t) \/ Offer(t) \/ Published(t)

(* forget: what `drop` picks leaves the ring, the rest keeps its order. *)
Forget(drop) ==
  /\ LoopFree
  /\ LET keep == {i \in DOMAIN buffer : buffer[i] \notin drop}
     IN  \E f \in [1..Cardinality(keep) -> keep] :
           /\ \A i, j \in DOMAIN f : i < j => f[i] < f[j]
           /\ buffer' = [i \in DOMAIN f |-> buffer[f[i]]]
  /\ gone' = gone \cup drop
  /\ UNCHANGED <<cursor, closed, subs, pub, watch>>

(* close: every registered queue is offered the sentinel. *)
CloseBus ==
  /\ LoopFree /\ ~closed
  /\ closed' = TRUE
  /\ queue' = [w \in Watchers |-> IF w \in subs THEN Offered(queue[w], Close) ELSE queue[w]]
  /\ unheard' = [w \in Watchers |->
       IF w \in subs THEN unheard[w] \cup (Dropped(queue[w]) \ {Close}) ELSE unheard[w]]
  /\ UNCHANGED <<buffer, cursor, subs, pub, gone, wpc, floor, last, replay, seen>>

-----------------------------------------------------------------------------
(* GET /watch answers, and its body has not started.  `since` is a cursor of this bus
   (one from another incarnation is dropped by its epoch).                            *)
Ask(w, since) ==
  /\ LoopFree /\ wpc[w] = Off /\ since <= cursor
  /\ floor' = [floor EXCEPT ![w] = since]
  /\ wpc' = [wpc EXCEPT ![w] = Asked]
  /\ UNCHANGED <<bus, last, replay, queue, seen, unheard>>

(* The body starts: the queue is registered and the ring copied in one step. *)
Subscribe(w) ==
  /\ LoopFree /\ wpc[w] = Asked
  /\ subs' = subs \cup {w}
  /\ replay' = [replay EXCEPT ![w] = buffer]
  /\ last' = [last EXCEPT ![w] = floor[w]]
  /\ unheard' = [unheard EXCEPT ![w] = gone]
  /\ wpc' = [wpc EXCEPT ![w] = Replay]
  /\ UNCHANGED <<buffer, cursor, closed, pub, gone, floor, queue, seen>>

Yield(w, c) == seen' = [seen EXCEPT ![w] = Append(@, c)] /\ last' = [last EXCEPT ![w] = c]

ReplayNext(w) ==
  /\ LoopFree /\ wpc[w] = Replay /\ replay[w] # <<>>
  /\ replay' = [replay EXCEPT ![w] = Tail(@)]
  /\ IF Head(replay[w]) > floor[w] THEN Yield(w, Head(replay[w])) ELSE UNCHANGED <<seen, last>>
  /\ UNCHANGED <<bus, wpc, floor, queue, unheard>>

(* Mutant of ReplayDone: the watcher tails without asking whether the bus is closed. *)
ReplayDoneTails(w) ==
  /\ LoopFree /\ wpc[w] = Replay /\ replay[w] = <<>>
  /\ wpc' = [wpc EXCEPT ![w] = Tail_]
  /\ UNCHANGED <<bus, floor, last, replay, queue, seen, unheard>>

(* After the snapshot: a closed bus ends the stream, an open one is tailed. *)
ReplayDone(w) ==
  /\ LoopFree /\ wpc[w] = Replay /\ replay[w] = <<>>
  /\ wpc' = [wpc EXCEPT ![w] = IF closed THEN Ended ELSE Tail_]
  /\ subs' = IF closed THEN subs \ {w} ELSE subs
  /\ UNCHANGED <<buffer, cursor, closed, pub, gone, floor, last, replay, queue, seen,
                 unheard>>

Get(w) ==
  /\ LoopFree /\ wpc[w] = Tail_ /\ queue[w] # <<>>
  /\ LET item == Head(queue[w])
     IN  IF item = Close
         THEN /\ wpc' = [wpc EXCEPT ![w] = Ended]
              /\ subs' = subs \ {w}
              /\ UNCHANGED <<queue, seen, last>>
         ELSE /\ queue' = [queue EXCEPT ![w] = Tail(@)]
              /\ IF item > last[w] THEN Yield(w, item) ELSE UNCHANGED <<seen, last>>
              /\ UNCHANGED <<wpc, subs>>
  /\ UNCHANGED <<buffer, cursor, closed, pub, gone, floor, replay, unheard>>

(* The client goes away: the finally deregisters its queue. *)
Leave(w) ==
  /\ LoopFree /\ wpc[w] \in Watching \cup {Asked}
  /\ wpc' = [wpc EXCEPT ![w] = Left]
  /\ subs' = subs \ {w}
  /\ UNCHANGED <<buffer, cursor, closed, pub, gone, floor, last, replay, queue, seen,
                 unheard>>

-----------------------------------------------------------------------------
Watcher(w) == Subscribe(w) \/ ReplayNext(w) \/ ReplayDone(w) \/ Get(w)

Next == \/ \E t \in Threads : Publish(t)
        \/ \E drop \in SUBSET Items(buffer) \ {{}} : Forget(drop)
        \/ CloseBus
        \/ \E w \in Watchers : Watcher(w) \/ Leave(w) \/ \E since \in 0..MaxCursor : Ask(w, since)

Spec == Init /\ [][Next]_vars

(* A publish in progress goes on, and the loop keeps running every watcher whose
   client keeps reading.                                                        *)
Fairness == /\ \A t \in Threads : WF_vars(RingAppend(t) \/ Snapshot(t) \/ Offer(t) \/ Published(t))
            /\ \A w \in Watchers : WF_vars(Watcher(w))

FairSpec == Spec /\ Fairness

-----------------------------------------------------------------------------
Rising(s) == \A i, j \in DOMAIN s : i < j => s[i] < s[j]

(* Each event after `since` is yielded at most once and in cursor order, and none the
   client already had: across the seam between the replay and the live tail, after
   drops, evictions and forgotten events.                                           *)
InOrder == \A w \in Watchers : /\ Rising(seen[w])
                               /\ \A c \in Items(seen[w]) : c > floor[w]

(* A publish that has not reached the watcher's queue yet, whoever's it is. *)
OnItsWay(w, c) == \E t \in Threads : /\ pub[t].item = c
                                     /\ \/ pub[t].at \in {"stamped", "appended"}
                                        \/ pub[t].at = "fan" /\ w \in pub[t].to

(* No event slips between the replay and the tail: every cursor handed out after
   `since` has been yielded, is still to come, or was given up knowingly (gone from
   the ring before the watcher came, or dropped by its own full queue).           *)
NothingSlips ==
  \A w \in Watchers : wpc[w] \in Watching =>
    \A c \in floor[w] + 1 .. cursor :
      c \in Items(seen[w]) \cup Items(replay[w]) \cup Items(queue[w]) \cup unheard[w]
      \/ OnItsWay(w, c)

(* Closing the bus ends every watcher, however full its queue and wherever it is. *)
CloseEndsEveryWatcher ==
  \A w \in Watchers : closed ~> wpc[w] \notin Watching

=============================================================================
