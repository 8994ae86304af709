--------------------------- MODULE EventBus_proof ---------------------------
(***************************************************************************)
(* Proofs about EventBus for every number of watchers and every size of    *)
(* the ring and the queues.                                                *)
(*                                                                         *)
(* TypeCorrect holds of every bus: the ring and the queues stay bounded    *)
(* however many threads publish.  InOrderAlone is about a bus that only    *)
(* the event loop publishes on.  It rests on Inv: the ring rises and ends  *)
(* at or before the cursor, so a snapshot of it rises, and what a watcher  *)
(* has yielded lies between its `since` and its `last`.                    *)
(* SentinelStandsAlways is about the end of a closed bus, with as many     *)
(* workers publishing as the queues have room for.                         *)
(***************************************************************************)
EXTENDS EventBus, FiniteSetTheorems, SequenceTheorems, TLAPS

USE SizeAssumption, LoopAssumption

(* A publish in progress carries a cursor. *)
CarriesACursor == \A t \in Threads : pub[t].at # "idle" => pub[t].item \in Cursors

TypeInv == TypeOK /\ CarriesACursor

(* A sequence with one element more, or its first one less. *)
LEMMA Grown ==
  ASSUME NEW S, NEW s \in Seq(S), NEW e \in S
  PROVE  /\ Append(s, e) \in Seq(S) /\ Len(Append(s, e)) = Len(s) + 1
         /\ \A i \in 1..Len(s) : Append(s, e)[i] = s[i]
         /\ Append(s, e)[Len(s) + 1] = e
OBVIOUS

LEMMA Shrunk ==
  ASSUME NEW S, NEW s \in Seq(S), s # <<>>
  PROVE  /\ Head(s) \in S /\ Head(s) = s[1] /\ Tail(s) \in Seq(S)
         /\ Len(s) >= 1 /\ Len(Tail(s)) = Len(s) - 1
         /\ \A i \in 1..Len(Tail(s)) : Tail(s)[i] = s[i + 1]
OBVIOUS

(* A bounded buffer stays within its bound. *)
LEMMA Bounded ==
  ASSUME NEW S, NEW s \in Seq(S), NEW e \in S
  PROVE  /\ Len(s) <= Ring => Push(s, e) \in Seq(S) /\ Len(Push(s, e)) <= Ring
         /\ Len(s) <= QueueMax => Offered(s, e) \in Seq(S) /\ Len(Offered(s, e)) <= QueueMax
         /\ Len(s) >= 1 => Head(s) \in S
<1>1. CASE s = <<>>
  BY <1>1, Grown DEF Push, Offered
<1>2. CASE s # <<>>
  <2>1. /\ Tail(s) \in Seq(S) /\ Len(Tail(s)) = Len(s) - 1 /\ Len(s) \in Nat /\ Head(s) \in S
    BY <1>2, Shrunk
  <2>2. Append(s, e) \in Seq(S) /\ Len(Append(s, e)) = Len(s) + 1
    BY Grown
  <2>3. Append(Tail(s), e) \in Seq(S) /\ Len(Append(Tail(s), e)) = Len(s)
    BY <2>1, Grown
  <2> QED
    BY <2>1, <2>2, <2>3 DEF Push, Offered
<1> QED
  BY <1>1, <1>2

(* What is kept of the ring in its order is a shorter sequence of its items. *)
LEMMA Kept ==
  ASSUME NEW s \in Seq(Cursors), NEW keep \in SUBSET DOMAIN s,
         NEW k \in [1..Cardinality(keep) -> Cursors]
  PROVE  k \in Seq(Cursors) /\ Len(k) <= Len(s) /\ DOMAIN k = 1..Len(k)
<1>1. DOMAIN s = 1..Len(s) /\ Len(s) \in Nat
  OBVIOUS
<1>2. IsFiniteSet(1..Len(s)) /\ Cardinality(1..Len(s)) = Len(s)
  <2>1. 1 \in Int /\ Len(s) \in Int /\ (1 > Len(s) => Len(s) = 0) /\ Len(s) - 1 + 1 = Len(s)
    BY <1>1
  <2>2. IsFiniteSet(1..Len(s)) /\ Cardinality(1..Len(s)) = IF 1 > Len(s) THEN 0 ELSE Len(s) - 1 + 1
    BY <2>1, FS_Interval, Zenon
  <2> QED
    BY <2>1, <2>2
<1>3. IsFiniteSet(keep) /\ Cardinality(keep) <= Len(s) /\ Cardinality(keep) \in Nat
  BY <1>1, <1>2, FS_Subset, FS_CardinalityType
<1> QED
  BY <1>3

LEMMA InitType == Init => TypeInv
<1> SUFFICES ASSUME Init PROVE TypeInv
  OBVIOUS
<1>1. <<>> \in Seq(Cursors) /\ <<>> \in Seq(0..MaxCursor) /\ Len(<<>>) = 0
  OBVIOUS
<1>2. \A w \in Watchers : Len(queue[w]) <= QueueMax
  BY <1>1 DEF Init
<1>3. /\ buffer \in Seq(Cursors) /\ Len(buffer) <= Ring
      /\ replay \in [Watchers -> Seq(Cursors)] /\ queue \in [Watchers -> Seq(0..MaxCursor)]
      /\ seen \in [Watchers -> Seq(Cursors)]
  BY <1>1 DEF Init
<1>7. cursor \in 0..MaxCursor /\ subs \subseteq Watchers
  BY DEF Init
<1>8. closed \in BOOLEAN
  BY DEF Init
<1>4. /\ wpc \in [Watchers -> {Off, Asked, Replay, Tail_, Ended, Left}]
      /\ floor \in [Watchers -> 0..MaxCursor] /\ last \in [Watchers -> 0..MaxCursor]
  BY DEF Init
<1>6. gone \subseteq Cursors /\ unheard \in [Watchers -> SUBSET Cursors]
  BY DEF Init
<1>5. pub \in [Threads -> [at : {"idle", "stamped", "appended", "fan"}, item : 0..MaxCursor,
                          to : SUBSET Watchers]]
      /\ CarriesACursor
  BY DEF Init, Idle, CarriesACursor
<1> QED
  BY <1>2, <1>3, <1>4, <1>5, <1>6, <1>7, <1>8 DEF TypeInv, TypeOK

(* Every step keeps the types and the bounds. *)
LEMMA NextType == TypeInv /\ [Next]_vars => TypeInv'
<1> SUFFICES ASSUME TypeInv, [Next]_vars PROVE TypeInv'
  OBVIOUS
<1> USE DEF TypeInv, TypeOK, CarriesACursor, bus, watch, vars, Off, Asked, Replay, Tail_, Ended, Left
<1>1. ASSUME NEW t \in Threads, Stamp(t) PROVE TypeInv'
  BY <1>1 DEF Stamp, Cursors
<1>2. ASSUME NEW t \in Threads, RingAppend(t) PROVE TypeInv'
  <2>1. pub[t].item \in Cursors
    BY <1>2 DEF RingAppend
  <2>2. buffer' \in Seq(Cursors) /\ Len(buffer') <= Ring
    BY <1>2, <2>1, Bounded DEF RingAppend
  <2>3. Len(buffer) < Ring \/ Head(buffer) \in Cursors
    BY Bounded, <2>1
  <2>4. gone' \subseteq Cursors
    BY <1>2, <2>3 DEF RingAppend
  <2>5. pub' = [pub EXCEPT ![t].at = "appended"] /\ UNCHANGED <<cursor, closed, subs, watch>>
    BY <1>2 DEF RingAppend
  <2>6. /\ pub' \in [Threads -> [at : {"idle", "stamped", "appended", "fan"}, item : 0..MaxCursor,
                                 to : SUBSET Watchers]]
        /\ CarriesACursor'
    <3>1. [pub[t] EXCEPT !.at = "appended"] =
            [at |-> "appended", item |-> pub[t].item, to |-> pub[t].to]
      OBVIOUS
    <3>2. pub' = [pub EXCEPT ![t] = [at |-> "appended", item |-> pub[t].item, to |-> pub[t].to]]
      BY <2>5, <3>1
    <3> QED
      BY <2>1, <3>2
  <2> HIDE DEF CarriesACursor
  <2> QED
    BY <2>2, <2>4, <2>5, <2>6
<1>3. ASSUME NEW t \in Threads, Snapshot(t) PROVE TypeInv'
  <2>1. pub' \in [Threads -> [at : {"idle", "stamped", "appended", "fan"}, item : 0..MaxCursor,
                             to : SUBSET Watchers]]
    <3>1. [pub[t] EXCEPT !.at = "fan", !.to = subs]
            \in [at : {"idle", "stamped", "appended", "fan"}, item : 0..MaxCursor, to : SUBSET Watchers]
      <4>1. pub[t] \in [at : {"idle", "stamped", "appended", "fan"}, item : 0..MaxCursor,
                        to : SUBSET Watchers]
        OBVIOUS
      <4> QED
        BY <4>1
    <3>2. pub' = [pub EXCEPT ![t] = [pub[t] EXCEPT !.at = "fan", !.to = subs]]
      BY <1>3 DEF Snapshot
    <3> QED
      BY <3>1, <3>2
  <2>2. \A u \in Threads : pub'[u].item = pub[u].item /\ (pub[u].at = "idle" => pub'[u].at = "idle")
    BY <1>3 DEF Snapshot
  <2>3. CarriesACursor'
    BY <1>3, <2>2 DEF Snapshot
  <2> QED
    BY <1>3, <2>1, <2>3 DEF Snapshot
<1>4. ASSUME NEW t \in Threads, Offer(t) PROVE TypeInv'
  <2>1. PICK w \in pub[t].to :
          /\ queue' = [queue EXCEPT ![w] = Offered(@, pub[t].item)]
          /\ unheard' = [unheard EXCEPT ![w] = @ \cup (Dropped(queue[w]) \ {Close})]
          /\ pub' = [pub EXCEPT ![t].to = @ \ {w}]
    BY <1>4 DEF Offer
  <2>2. w \in Watchers /\ pub[t].item \in 0..MaxCursor
    OBVIOUS
  <2>3. Offered(queue[w], pub[t].item) \in Seq(0..MaxCursor) /\ Len(Offered(queue[w], pub[t].item)) <= QueueMax
    BY <2>2, Bounded
  <2>4. Dropped(queue[w]) \ {Close} \subseteq Cursors
    <3>1. Len(queue[w]) < QueueMax \/ Len(queue[w]) >= 1
      BY <2>2
    <3>2. Len(queue[w]) >= 1 => Head(queue[w]) \in 0..MaxCursor
      BY <2>2, Bounded
    <3> QED
      BY <3>1, <3>2 DEF Dropped, Close, Cursors
  <2>5. queue' \in [Watchers -> Seq(0..MaxCursor)] /\ \A v \in Watchers : Len(queue'[v]) <= QueueMax
    BY <2>1, <2>2, <2>3
  <2>6. unheard' \in [Watchers -> SUBSET Cursors]
    BY <2>1, <2>2, <2>4
  <2>7. CarriesACursor' /\ pub' \in [Threads -> [at : {"idle", "stamped", "appended", "fan"}, item : 0..MaxCursor,
                                                 to : SUBSET Watchers]]
    <3>1. pub' = [pub EXCEPT ![t] = [pub[t] EXCEPT !.to = pub[t].to \ {w}]]
      BY <2>1
    <3>2. [pub[t] EXCEPT !.to = pub[t].to \ {w}]
            \in [at : {"idle", "stamped", "appended", "fan"}, item : 0..MaxCursor, to : SUBSET Watchers]
      <4>1. pub[t] \in [at : {"idle", "stamped", "appended", "fan"}, item : 0..MaxCursor, to : SUBSET Watchers]
        OBVIOUS
      <4>2. pub[t].to \ {w} \in SUBSET Watchers
        BY <4>1
      <4> QED
        BY <4>1, <4>2
    <3>3. pub' \in [Threads -> [at : {"idle", "stamped", "appended", "fan"}, item : 0..MaxCursor, to : SUBSET Watchers]]
      BY <3>1, <3>2
    <3>4. \A u \in Threads : pub'[u].item = pub[u].item /\ pub'[u].at = pub[u].at
      BY <3>1
    <3> QED
      BY <3>3, <3>4
  <2> QED
    BY <1>4, <2>5, <2>6, <2>7 DEF Offer
<1>5. ASSUME NEW t \in Threads, Published(t) PROVE TypeInv'
  BY <1>5 DEF Published, Idle
<1>6. ASSUME NEW drop \in SUBSET Items(buffer) \ {{}}, Forget(drop) PROVE TypeInv'
  <2> DEFINE keep == {i \in DOMAIN buffer : buffer[i] \notin drop}
  <2>1. PICK f \in [1..Cardinality(keep) -> keep] : buffer' = [i \in DOMAIN f |-> buffer[f[i]]]
    BY <1>6 DEF Forget
  <2>2. buffer' \in Seq(Cursors) /\ Len(buffer') <= Len(buffer)
    <3>1. keep \in SUBSET DOMAIN buffer /\ buffer \in Seq(Cursors)
      OBVIOUS
    <3>2. buffer' \in [1..Cardinality(keep) -> Cursors]
      BY <2>1, <3>1
    <3> HIDE DEF keep
    <3> QED
      BY <3>1, <3>2, Kept
  <2>3. gone' \subseteq Cursors
    BY <1>6 DEF Forget, Items
  <2>4. buffer' \in Seq(Cursors) /\ Len(buffer') <= Ring
    BY <2>2
  <2> QED
    BY <1>6, <2>3, <2>4 DEF Forget
<1>7. CASE CloseBus
  <2>1. ASSUME NEW w \in Watchers
        PROVE  /\ Offered(queue[w], Close) \in Seq(0..MaxCursor) /\ Len(Offered(queue[w], Close)) <= QueueMax
               /\ Dropped(queue[w]) \ {Close} \subseteq Cursors
    <3>1. 0 \in 0..MaxCursor /\ queue[w] \in Seq(0..MaxCursor) /\ Len(queue[w]) <= QueueMax
      OBVIOUS
    <3>2. Len(queue[w]) < QueueMax \/ Len(queue[w]) >= 1
      BY <3>1
    <3>3. Len(queue[w]) >= 1 => Head(queue[w]) \in 0..MaxCursor
      BY <3>1, Bounded
    <3>4. Offered(queue[w], 0) \in Seq(0..MaxCursor) /\ Len(Offered(queue[w], 0)) <= QueueMax
      BY <3>1, Bounded
    <3> QED
      BY <3>2, <3>3, <3>4 DEF Dropped, Close, Cursors
  <2> QED
    BY <1>7, <2>1 DEF CloseBus
<1>8. ASSUME NEW w \in Watchers, NEW since \in 0..MaxCursor, Ask(w, since) PROVE TypeInv'
  <2>1. buffer = <<>> \/ Head(buffer) \in 0..MaxCursor
    BY Shrunk DEF Cursors
  <2> QED
    BY <1>8, <2>1 DEF Ask
<1>9. ASSUME NEW w \in Watchers, Subscribe(w) PROVE TypeInv'
  BY <1>9 DEF Subscribe
<1>10. ASSUME NEW w \in Watchers, ReplayNext(w) PROVE TypeInv'
  <2>1. Head(replay[w]) \in Cursors /\ Tail(replay[w]) \in Seq(Cursors)
    BY <1>10, Shrunk DEF ReplayNext
  <2>2. \A c \in Cursors : Append(seen[w], c) \in Seq(Cursors) /\ c \in 0..MaxCursor
    BY Grown DEF Cursors
  <2>3. /\ seen' \in [Watchers -> Seq(Cursors)] /\ last' \in [Watchers -> 0..MaxCursor]
        /\ replay' \in [Watchers -> Seq(Cursors)]
    BY <1>10, <2>1, <2>2 DEF ReplayNext, Yield
  <2> QED
    BY <1>10, <2>3 DEF ReplayNext
<1>11. ASSUME NEW w \in Watchers, ReplayDone(w) PROVE TypeInv'
  BY <1>11 DEF ReplayDone
<1>12. ASSUME NEW w \in Watchers, Get(w) PROVE TypeInv'
  <2>1. /\ Head(queue[w]) \in 0..MaxCursor /\ Tail(queue[w]) \in Seq(0..MaxCursor)
        /\ Len(Tail(queue[w])) <= QueueMax
    BY <1>12, Shrunk DEF Get
  <2>2. Head(queue[w]) # Close => Head(queue[w]) \in Cursors
    BY <2>1 DEF Close, Cursors
  <2>3. seen' \in [Watchers -> Seq(Cursors)] /\ last' \in [Watchers -> 0..MaxCursor]
    <3>1. \A c \in Cursors : Append(seen[w], c) \in Seq(Cursors) /\ c \in 0..MaxCursor
      BY Grown DEF Cursors
    <3>2. CASE Head(queue[w]) # Close /\ Head(queue[w]) > last[w]
      <4>1. /\ seen' = [seen EXCEPT ![w] = Append(seen[w], Head(queue[w]))]
            /\ last' = [last EXCEPT ![w] = Head(queue[w])]
        BY <1>12, <3>2 DEF Get, Yield
      <4> QED
        BY <4>1, <2>2, <3>1, <3>2
    <3>3. CASE ~(Head(queue[w]) # Close /\ Head(queue[w]) > last[w])
      BY <1>12, <3>3 DEF Get
    <3> QED
      BY <3>2, <3>3
  <2>4. queue' \in [Watchers -> Seq(0..MaxCursor)] /\ \A v \in Watchers : Len(queue'[v]) <= QueueMax
    BY <1>12, <2>1 DEF Get
  <2>5. wpc' \in [Watchers -> {Off, Asked, Replay, Tail_, Ended, Left}] /\ subs' \subseteq Watchers
    BY <1>12 DEF Get
  <2> QED
    BY <1>12, <2>3, <2>4, <2>5 DEF Get
<1>13. ASSUME NEW w \in Watchers, Leave(w) PROVE TypeInv'
  BY <1>13 DEF Leave
<1>14. CASE UNCHANGED vars
  BY <1>14
<1> QED
  BY <1>1, <1>2, <1>3, <1>4, <1>5, <1>6, <1>7, <1>8, <1>9, <1>10, <1>11, <1>12, <1>13, <1>14
     DEF Next, Publish, Watcher

(* The ring and every queue stay within their bounds, however many threads publish. *)
THEOREM TypeCorrect == Spec => []TypeOK
<1>1. TypeInv => TypeOK
  BY DEF TypeInv
<1> QED
  BY InitType, NextType, <1>1, PTL DEF Spec

-----------------------------------------------------------------------------
(* What the ring, a queue and a snapshot hold after one step, as sets. *)
LEMMA Items1 ==
  ASSUME NEW S, NEW s \in Seq(S), NEW e \in S
  PROVE  Items(Append(s, e)) = Items(s) \cup {e} /\ Items(s) \subseteq S /\ Items(<<>>) = {}
<1>1. DOMAIN s = 1..Len(s) /\ DOMAIN Append(s, e) = 1..(Len(s) + 1) /\ Len(s) \in Nat
  OBVIOUS
<1>2. Items(Append(s, e)) = Items(s) \cup {e}
  BY <1>1, Grown DEF Items
<1> QED
  BY <1>1, <1>2 DEF Items

LEMMA ItemsType == ASSUME NEW S, NEW s \in Seq(S) PROVE Items(s) \subseteq S
  BY DEF Items

LEMMA ItemsTail ==
  ASSUME NEW S, NEW s \in Seq(S), s # <<>>
  PROVE  Items(s) = {Head(s)} \cup Items(Tail(s))
<1>1. DOMAIN s = 1..Len(s) /\ DOMAIN Tail(s) = 1..(Len(s) - 1) /\ Len(s) \in Nat /\ Len(s) >= 1
  BY Shrunk
<1>2. Head(s) = s[1] /\ \A i \in 1..(Len(s) - 1) : Tail(s)[i] = s[i + 1]
  BY <1>1, Shrunk
<1>3. ASSUME NEW c \in Items(s) PROVE c = Head(s) \/ c \in Items(Tail(s))
  <2>1. PICK i \in 1..Len(s) : c = s[i]
    BY <1>1 DEF Items
  <2>2. CASE i = 1
    BY <1>2, <2>1, <2>2
  <2>3. CASE i # 1
    <3>1. i - 1 \in 1..(Len(s) - 1) /\ (i - 1) + 1 = i
      BY <1>1, <2>3
    <3>2. Tail(s)[i - 1] = s[i]
      BY <1>2, <3>1
    <3> QED
      BY <1>1, <2>1, <3>1, <3>2 DEF Items
  <2> QED
    BY <2>2, <2>3
<1>4. ASSUME NEW c, c = Head(s) \/ c \in Items(Tail(s)) PROVE c \in Items(s)
  <2>1. CASE c = Head(s)
    BY <1>1, <1>2, <2>1 DEF Items
  <2>2. CASE c \in Items(Tail(s))
    <3>1. PICK i \in 1..(Len(s) - 1) : c = Tail(s)[i]
      BY <1>1, <2>2 DEF Items
    <3>2. i + 1 \in 1..Len(s) /\ c = s[i + 1]
      BY <1>1, <1>2, <3>1
    <3> QED
      BY <1>1, <3>2 DEF Items
  <2> QED
    BY <1>4, <2>1, <2>2
<1> QED
  BY <1>3, <1>4

(* What is not the sentinel rises: a queue may hold one anywhere. *)
Live(s) == \A i, j \in DOMAIN s : i < j /\ s[i] # Close /\ s[j] # Close => s[i] < s[j]

LEMMA LiveRises == ASSUME NEW s \in Seq(Cursors) PROVE Live(s) <=> Rising(s)
  BY DEF Live, Rising, Close, Cursors

LEMMA LiveTail ==
  ASSUME NEW s \in Seq(Nat), s # <<>>, Live(s)
  PROVE  /\ Live(Tail(s))
         /\ Head(s) # Close => \A c \in Items(Tail(s)) \ {Close} : Head(s) < c
<1>1. DOMAIN s = 1..Len(s) /\ DOMAIN Tail(s) = 1..(Len(s) - 1) /\ Len(s) \in Nat /\ Len(s) >= 1
  BY Shrunk
<1>2. \A i \in DOMAIN Tail(s) : Tail(s)[i] = s[i + 1] /\ i + 1 \in DOMAIN s /\ i + 1 > 1
  BY <1>1, Shrunk
<1>3. Head(s) = s[1] /\ 1 \in DOMAIN s
  BY <1>1, Shrunk
<1>4. Live(Tail(s))
  BY <1>1, <1>2 DEF Live
<1>5. ASSUME NEW i \in DOMAIN Tail(s), Head(s) # Close, Tail(s)[i] # Close PROVE Head(s) < Tail(s)[i]
  BY <1>1, <1>2, <1>3, <1>5 DEF Live
<1> QED
  BY <1>4, <1>5 DEF Items

LEMMA LiveAppend ==
  ASSUME NEW s \in Seq(Nat), NEW e \in Nat, Live(s),
         e # Close => \A c \in Items(s) \ {Close} : c < e
  PROVE  Live(Append(s, e))
<1>1. DOMAIN s = 1..Len(s) /\ DOMAIN Append(s, e) = 1..(Len(s) + 1) /\ Len(s) \in Nat
  OBVIOUS
<1>2. \A i \in 1..Len(s) : Append(s, e)[i] = s[i] /\ (s[i] # Close /\ e # Close => s[i] < e)
  BY <1>1, Grown DEF Items
<1>3. Append(s, e)[Len(s) + 1] = e
  BY Grown
<1> SUFFICES ASSUME NEW i \in 1..(Len(s) + 1), NEW j \in 1..(Len(s) + 1), i < j,
                    Append(s, e)[i] # Close, Append(s, e)[j] # Close
             PROVE  Append(s, e)[i] < Append(s, e)[j]
  BY <1>1 DEF Live
<1>4. i \in 1..Len(s)
  BY <1>1
<1>5. CASE j \in 1..Len(s)
  BY <1>1, <1>2, <1>4, <1>5 DEF Live
<1>6. CASE j = Len(s) + 1
  BY <1>2, <1>3, <1>4, <1>6
<1> QED
  BY <1>1, <1>5, <1>6

(* What forget keeps: the items it does not drop, in the order they were in. *)
LEMMA KeptItems ==
  ASSUME NEW s \in Seq(Cursors), Live(s), NEW drop,
         NEW keep, keep = {i \in DOMAIN s : s[i] \notin drop},
         NEW f \in [1..Cardinality(keep) -> keep],
         \A i, j \in DOMAIN f : i < j => f[i] < f[j],
         NEW k, DOMAIN k = DOMAIN f, \A i \in DOMAIN f : k[i] = s[f[i]]
  PROVE  Live(k) /\ Items(k) = Items(s) \ drop
<1>1. DOMAIN s = 1..Len(s) /\ Len(s) \in Nat
  OBVIOUS
<1>2. IsFiniteSet(keep) /\ Cardinality(keep) \in Nat
  <2>1. 1 \in Int /\ Len(s) \in Int
    BY <1>1
  <2>2. IsFiniteSet(1..Len(s))
    BY <2>1, FS_Interval, Zenon
  <2> QED
    BY <1>1, <2>2, FS_Subset, FS_CardinalityType
<1>3. DOMAIN f = 1..Cardinality(keep) /\ DOMAIN k = DOMAIN f /\ \A i \in DOMAIN f : f[i] \in keep /\ k[i] = s[f[i]]
  OBVIOUS
<1>4. f \in Injection(1..Cardinality(keep), keep)
  <2>1. ASSUME NEW a \in DOMAIN f, NEW b \in DOMAIN f, f[a] = f[b] PROVE a = b
    <3>1. a \in Int /\ b \in Int /\ f[a] \in Int /\ f[b] \in Int
      BY <1>1, <1>2, <1>3
    <3>2. ~(a < b) /\ ~(b < a)
      BY <2>1, <3>1
    <3> QED
      BY <3>1, <3>2
  <2> QED
    BY <2>1 DEF Injection, IsInjective
<1>5. Cardinality(1..Cardinality(keep)) = Cardinality(keep)
  <2>1. 1 \in Int /\ Cardinality(keep) \in Int
    BY <1>2
  <2>2. Cardinality(1..Cardinality(keep)) = IF 1 > Cardinality(keep) THEN 0 ELSE Cardinality(keep) - 1 + 1
    BY <2>1, FS_Interval, Zenon
  <2> QED
    BY <1>2, <2>2
<1>6. \A i \in keep : \E j \in DOMAIN f : f[j] = i
  <2>1. f \in Surjection(1..Cardinality(keep), keep)
    BY <1>2, <1>4, <1>5, FS_Injection, Zenon
  <2> QED
    BY <1>3, <2>1 DEF Surjection
<1>7. Live(k)
  BY <1>1, <1>3 DEF Live
<1>8. Items(k) = Items(s) \ drop
  BY <1>3, <1>6 DEF Items
<1> QED
  BY <1>7, <1>8

(* A later item appended, to the whole or to all but the first: what is held then. *)
LEMMA Held ==
  ASSUME NEW s \in Seq(0..MaxCursor), NEW e \in 0..MaxCursor, Live(s),
         e # Close => \A c \in Items(s) \ {Close} : c < e
  PROVE  /\ Live(Append(s, e)) /\ Items(Append(s, e)) = Items(s) \cup {e}
         /\ s # <<>> => /\ Live(Append(Tail(s), e))
                        /\ Items(Append(Tail(s), e)) = Items(Tail(s)) \cup {e}
                        /\ Items(s) = {Head(s)} \cup Items(Tail(s))
<1>1. s \in Seq(Nat) /\ e \in Nat
  OBVIOUS
<1>2. Live(Append(s, e)) /\ Items(Append(s, e)) = Items(s) \cup {e}
  BY <1>1, LiveAppend, Items1
<1>3. ASSUME s # <<>>
      PROVE  /\ Live(Append(Tail(s), e))
             /\ Items(Append(Tail(s), e)) = Items(Tail(s)) \cup {e}
             /\ Items(s) = {Head(s)} \cup Items(Tail(s))
  <2>1. Tail(s) \in Seq(0..MaxCursor) /\ Tail(s) \in Seq(Nat)
    BY <1>1, <1>3, Shrunk
  <2>2. Items(s) = {Head(s)} \cup Items(Tail(s))
    BY <1>3, ItemsTail
  <2>3. Items(Append(Tail(s), e)) = Items(Tail(s)) \cup {e}
    <3> DEFINE t == Tail(s)
    <3>1. t \in Seq(0..MaxCursor)
      BY <2>1
    <3> HIDE DEF t
    <3>2. Items(Append(t, e)) = Items(t) \cup {e}
      BY <3>1, Items1
    <3> QED
      BY <3>2 DEF t
  <2>4. Live(Tail(s))
    BY <1>1, <1>3, LiveTail
  <2>5. Live(Append(Tail(s), e))
    BY <1>1, <2>1, <2>2, <2>4, LiveAppend
  <2> QED
    BY <2>2, <2>3, <2>5
<1> QED
  BY <1>2, <1>3

(* The ring after an append, and a queue after an offer. *)
LEMMA Pushed ==
  ASSUME NEW s \in Seq(Cursors), NEW e \in Cursors, Live(s), \A c \in Items(s) : c < e
  PROVE  /\ Live(Push(s, e))
         /\ Items(Push(s, e)) \subseteq Items(s) \cup {e} /\ e \in Items(Push(s, e))
         /\ Items(s) \subseteq Items(Push(s, e)) \cup (IF Len(s) < Ring THEN {} ELSE {Head(s)})
<1>1. s \in Seq(0..MaxCursor) /\ e \in 0..MaxCursor
  BY DEF Cursors
<1>2. Len(s) < Ring \/ s # <<>>
  OBVIOUS
<1> QED
  BY <1>1, <1>2, Held DEF Push

LEMMA OfferedItems ==
  ASSUME NEW s \in Seq(0..MaxCursor), NEW e \in 0..MaxCursor, Live(s),
         e # Close => \A c \in Items(s) \ {Close} : c < e
  PROVE  /\ Live(Offered(s, e))
         /\ Items(Offered(s, e)) \subseteq Items(s) \cup {e} /\ e \in Items(Offered(s, e))
         /\ Items(s) \subseteq Items(Offered(s, e)) \cup Dropped(s)
<1>1. Len(s) < QueueMax \/ s # <<>>
  OBVIOUS
<1> QED
  BY <1>1, Held DEF Offered, Dropped

-----------------------------------------------------------------------------
(* The loop's publish, before the queues have all had it: w is still to be offered it. *)
Awaits(w) == pub[Loop].at \in {"stamped", "appended"} \/ (pub[Loop].at = "fan" /\ w \in pub[Loop].to)

(* The ring rises and holds every cursor handed out but those let go of. *)
RingInv ==
  /\ Live(buffer)
  /\ \A c \in Items(buffer) : c <= cursor /\ (pub[Loop].at = "stamped" => c < cursor)
  /\ pub[Loop].at # "idle" => pub[Loop].item = cursor
  /\ \A c \in 1..cursor : (c \in Items(buffer) \cup gone) \/ (pub[Loop].at = "stamped" /\ c = cursor)

(* Nothing waits for a watcher that has not subscribed; one that watches is registered. *)
AskInv(w) ==
  /\ floor[w] <= cursor
  /\ wpc[w] \in {Off, Asked} =>
       seen[w] = <<>> /\ queue[w] = <<>> /\ w \notin subs /\ w \notin pub[Loop].to
  /\ wpc[w] \in Watching => w \in subs
  /\ wpc[w] = Tail_ => replay[w] = <<>>

(* What was yielded lies between `since` and `last`. *)
SeenInv(w) == Live(seen[w]) /\ \A c \in Items(seen[w]) : floor[w] < c /\ c <= last[w]

(* The seam: snapshot, queue and publish in progress follow what was yielded, in this order. *)
SeamInv(w) ==
  wpc[w] \in Watching =>
    /\ floor[w] <= last[w] /\ last[w] <= cursor /\ (Awaits(w) => last[w] < cursor)
    /\ Live(replay[w])
    /\ \A c \in Items(replay[w]) : /\ c > floor[w] => c > last[w]
                                   /\ c <= cursor /\ (Awaits(w) => c < cursor)
                                   /\ \A d \in Items(queue[w]) \ {Close} : c < d
    /\ Live(queue[w])
    /\ \A c \in Items(queue[w]) \ {Close} : last[w] < c /\ c <= cursor /\ (Awaits(w) => c < cursor)

(* NothingSlips, of the loop's own publishes. *)
SlipInv(w) ==
  wpc[w] \in Watching =>
    \A c \in floor[w] + 1 .. cursor :
      c \in Items(seen[w]) \cup Items(replay[w]) \cup Items(queue[w]) \cup unheard[w]
      \/ (c = cursor /\ Awaits(w))

WatcherInv(w) == AskInv(w) /\ SeenInv(w) /\ SeamInv(w) /\ SlipInv(w)

Inv == TypeInv /\ RingInv /\ \A w \in Watchers : WatcherInv(w)

LEMMA InitInv == Init => Inv
<1> SUFFICES ASSUME Init PROVE Inv
  OBVIOUS
<1>1. TypeInv
  BY InitType
<1>2. Items(<<>>) = {} /\ Live(<<>>)
  BY DEF Items, Live
<1>3. RingInv
  BY <1>2 DEF Init, RingInv, Idle, Threads
<1>4. ASSUME NEW w \in Watchers PROVE WatcherInv(w)
  <2>1. floor[w] = 0 /\ cursor = 0 /\ wpc[w] = Off /\ seen[w] = <<>> /\ queue[w] = <<>> /\ subs = {} /\ pub[Loop].to = {}
    BY DEF Init, Idle, Threads
  <2> QED
    BY <1>2, <2>1 DEF WatcherInv, AskInv, SeenInv, SeamInv, SlipInv, Watching, Off, Asked, Replay, Tail_
<1> QED
  BY <1>1, <1>3, <1>4 DEF Inv

(* Only the event loop publishes. *)
LoopOnly == Workers = {}

LEMMA NextInv == LoopOnly /\ Inv /\ [Next]_vars => Inv'
<1> SUFFICES ASSUME LoopOnly, Inv, [Next]_vars PROVE Inv'
  OBVIOUS
<1>0. TypeInv /\ TypeInv' /\ Threads = {Loop} /\ RingInv /\ \A w \in Watchers : WatcherInv(w)
  BY NextType DEF Inv, LoopOnly, Threads
<1> DEFINE Rest == RingInv /\ \A w \in Watchers : WatcherInv(w)
<1> SUFFICES Rest'
  BY <1>0 DEF Inv
<1>t. /\ pub \in [{Loop} -> [at : {"idle", "stamped", "appended", "fan"}, item : 0..MaxCursor, to : SUBSET Watchers]]
      /\ cursor \in Nat /\ MaxCursor \in Nat /\ subs \subseteq Watchers
      /\ wpc \in [Watchers -> {Off, Asked, Replay, Tail_, Ended, Left}]
      /\ floor \in [Watchers -> 0..MaxCursor] /\ last \in [Watchers -> 0..MaxCursor]
      /\ unheard \in [Watchers -> SUBSET Cursors] /\ queue \in [Watchers -> Seq(0..MaxCursor)]
      /\ replay \in [Watchers -> Seq(Cursors)] /\ seen \in [Watchers -> Seq(Cursors)]
  BY <1>0 DEF TypeInv, TypeOK
<1>u. /\ Items(buffer) \subseteq Nat
      /\ \A w \in Watchers : /\ replay[w] \in Seq(Cursors) /\ queue[w] \in Seq(0..MaxCursor) /\ seen[w] \in Seq(Cursors)
                             /\ Items(replay[w]) \subseteq Cursors /\ Items(queue[w]) \subseteq 0..MaxCursor
                             /\ Items(seen[w]) \subseteq Cursors
                             /\ Items(replay[w]) \subseteq Nat /\ Items(queue[w]) \subseteq Nat
                             /\ Items(seen[w]) \subseteq Nat /\ Close \notin Items(replay[w]) \cup Items(seen[w])
                             /\ seen[w] \in Seq(Nat) /\ replay[w] \in Seq(Nat) /\ queue[w] \in Seq(Nat)
  <2>1. /\ buffer \in Seq(Cursors)
        /\ \A w \in Watchers : replay[w] \in Seq(Cursors) /\ queue[w] \in Seq(0..MaxCursor) /\ seen[w] \in Seq(Cursors)
    BY <1>0 DEF TypeInv, TypeOK
  <2>2. Cursors \subseteq Nat /\ 0..MaxCursor \subseteq Nat /\ Close \notin Cursors
    BY DEF Cursors, Close
  <2>3. \A w \in Watchers : seen[w] \in Seq(Nat) /\ replay[w] \in Seq(Nat) /\ queue[w] \in Seq(Nat)
    <3>1. ASSUME NEW S \in SUBSET Nat, NEW s \in Seq(S) PROVE s \in Seq(Nat)
      <4>1. Len(s) \in Nat /\ s \in [1..Len(s) -> S]
        OBVIOUS
      <4>2. s \in [1..Len(s) -> Nat]
        BY <4>1
      <4> QED
        BY <4>1, <4>2
    <3>2. Cursors \in SUBSET Nat /\ 0..MaxCursor \in SUBSET Nat
      BY <2>2
    <3> QED
      BY <2>1, <3>1, <3>2
  <2>4. /\ Items(buffer) \subseteq Cursors
        /\ \A w \in Watchers : /\ Items(replay[w]) \subseteq Cursors /\ Items(queue[w]) \subseteq 0..MaxCursor
                               /\ Items(seen[w]) \subseteq Cursors
    BY <2>1 DEF Items
  <2>5. \A w \in Watchers : /\ Items(replay[w]) \subseteq Nat /\ Items(queue[w]) \subseteq Nat
                            /\ Items(seen[w]) \subseteq Nat
    BY <2>2, <2>4
  <2>6. \A w \in Watchers : Close \notin Items(replay[w]) \cup Items(seen[w])
    <3> HIDE DEF Close
    <3> QED
      BY <2>2, <2>4
  <2>7. Items(buffer) \subseteq Nat
    BY <2>2, <2>4
  <2> HIDE DEF Close
  <2> QED
    BY <2>1, <2>3, <2>4, <2>5, <2>6, <2>7
<1> USE DEF WatcherInv, AskInv, SeenInv, SeamInv, SlipInv, Awaits, bus, watch, vars, Watching,
            Off, Asked, Replay, Tail_, Ended, Left, LoopFree
<1>1. ASSUME Stamp(Loop) PROVE Rest'
  <2>1. /\ cursor' = cursor + 1 /\ pub[Loop].at = "idle" /\ pub'[Loop].at = "stamped"
        /\ pub'[Loop].item = cursor + 1 /\ pub'[Loop].to = {}
    BY <1>1, <1>t DEF Stamp
  <2>2. RingInv'
    BY <1>0, <1>1, <1>t, <1>u, <2>1 DEF Stamp, RingInv
  <2>3. ASSUME NEW w \in Watchers PROVE WatcherInv(w)'
    <3>2. (AskInv(w) /\ SeenInv(w))'
      BY <1>0, <1>1, <1>t, <2>1 DEF Stamp
    <3>3. SeamInv(w)'
      <4>0. SeamInv(w)
        BY <1>0
      <4>3. last[w] \in Nat
        BY <1>t
      <4>1. /\ wpc'[w] = wpc[w] /\ last'[w] = last[w] /\ floor'[w] = floor[w]
            /\ replay'[w] = replay[w] /\ queue'[w] = queue[w]
        BY <1>0, <1>1, <1>t DEF Stamp
      <4>2. \A c \in Nat : c <= cursor => c <= cursor' /\ c < cursor'
        BY <1>t, <2>1
      <4> QED
        BY <4>0, <4>1, <4>2, <4>3, <1>u, <2>1
    <3>4. SlipInv(w)'
      <4>1. SlipInv(w) /\ ~Awaits(w)
        BY <1>0, <2>1
      <4>2. /\ wpc' = wpc /\ floor' = floor /\ seen' = seen /\ replay' = replay /\ queue' = queue
            /\ unheard' = unheard /\ floor[w] \in Nat
        BY <1>1, <1>t DEF Stamp
      <4>3. Awaits(w)'
        BY <2>1
      <4>4. \A c \in floor[w] + 1 .. cursor' : c \in floor[w] + 1 .. cursor \/ c = cursor'
        BY <1>t, <2>1, <4>2
      <4> HIDE DEF Awaits
      <4> QED
        BY <4>1, <4>2, <4>3, <4>4
    <3> QED
      BY <3>2, <3>3, <3>4
  <2> QED
    BY <2>2, <2>3
<1>2. ASSUME RingAppend(Loop) PROVE Rest'
  <2>1. /\ pub[Loop].at = "stamped" /\ pub'[Loop].at = "appended" /\ pub'[Loop].to = pub[Loop].to
        /\ pub'[Loop].item = pub[Loop].item /\ pub[Loop].item = cursor /\ cursor \in Cursors
    BY <1>0, <1>2, <1>t DEF RingAppend, RingInv, TypeInv, CarriesACursor
  <2>2. buffer \in Seq(Cursors)
    BY <1>0 DEF TypeInv, TypeOK
  <2>3. RingInv'
    <3>1. buffer' = Push(buffer, cursor)
      BY <1>2, <2>1 DEF RingAppend
    <3>2. gone' = gone \cup (IF Len(buffer) < Ring THEN {} ELSE {Head(buffer)})
      BY <1>2 DEF RingAppend
    <3>3. Live(buffer) /\ \A c \in Items(buffer) : c < cursor
      BY <1>0, <2>1 DEF RingInv
    <3>4. /\ Live(buffer') /\ Items(buffer') \subseteq Items(buffer) \cup {cursor} /\ cursor \in Items(buffer')
          /\ Items(buffer) \subseteq Items(buffer') \cup gone'
      BY <2>1, <2>2, <3>1, <3>2, <3>3, Pushed
    <3> QED
      BY <1>0, <1>2, <1>t, <2>1, <3>2, <3>3, <3>4 DEF RingAppend, RingInv
  <2>4. ASSUME NEW w \in Watchers PROVE WatcherInv(w)'
    BY <1>0, <1>2, <1>t, <2>1 DEF RingAppend
  <2> QED
    BY <2>3, <2>4
<1>3. ASSUME Snapshot(Loop) PROVE Rest'
  <2>1. /\ pub[Loop].at = "appended" /\ pub'[Loop].at = "fan" /\ pub'[Loop].to = subs
        /\ pub'[Loop].item = pub[Loop].item
    BY <1>3, <1>t DEF Snapshot
  <2>2. RingInv'
    BY <1>0, <1>3, <2>1 DEF Snapshot, RingInv
  <2>3. ASSUME NEW w \in Watchers PROVE WatcherInv(w)'
    BY <1>0, <1>3, <1>t, <2>1 DEF Snapshot
  <2> QED
    BY <2>2, <2>3
<1>5. ASSUME Published(Loop) PROVE Rest'
  <2>1. /\ pub[Loop].at = "fan" /\ pub[Loop].to = {} /\ pub'[Loop].at = "idle" /\ pub'[Loop].to = {}
        /\ pub[Loop].item = cursor
    BY <1>0, <1>5, <1>t DEF Published, RingInv, Idle
  <2>2. RingInv'
    BY <1>0, <1>5, <2>1 DEF Published, RingInv
  <2>3. ASSUME NEW w \in Watchers PROVE WatcherInv(w)'
    BY <1>0, <1>5, <1>t, <2>1 DEF Published
  <2> QED
    BY <2>2, <2>3
<1>4. ASSUME Offer(Loop) PROVE Rest'
  <2>1. PICK w \in pub[Loop].to :
          /\ queue' = [queue EXCEPT ![w] = Offered(@, pub[Loop].item)]
          /\ unheard' = [unheard EXCEPT ![w] = @ \cup (Dropped(queue[w]) \ {Close})]
          /\ pub' = [pub EXCEPT ![Loop].to = @ \ {w}]
    BY <1>4, <1>t DEF Offer
  <2>2. /\ pub[Loop].at = "fan" /\ pub'[Loop].at = "fan" /\ pub'[Loop].to = pub[Loop].to \ {w}
        /\ pub'[Loop].item = pub[Loop].item /\ pub[Loop].item = cursor /\ cursor \in Cursors
        /\ w \in Watchers /\ cursor # Close /\ cursor \in 0..MaxCursor
    BY <1>0, <1>4, <1>t, <2>1 DEF Offer, RingInv, TypeInv, CarriesACursor, Close, Cursors
  <2>3. RingInv'
    BY <1>0, <1>4, <2>2 DEF Offer, RingInv
  <2>4. ASSUME NEW v \in Watchers, v # w PROVE WatcherInv(v)'
    <3>1. queue'[v] = queue[v] /\ unheard'[v] = unheard[v] /\ (v \in pub'[Loop].to <=> v \in pub[Loop].to)
      BY <1>t, <2>1, <2>2, <2>4
    <3> QED
      BY <1>0, <1>4, <2>2, <3>1 DEF Offer
  <2>5. WatcherInv(w)'
    <3>1. /\ queue'[w] = Offered(queue[w], cursor)
          /\ unheard'[w] = unheard[w] \cup (Dropped(queue[w]) \ {Close})
      BY <1>t, <2>1, <2>2
    <3>6. Awaits(w) /\ ~Awaits(w)'
      BY <2>1, <2>2
    <3>2. (AskInv(w) /\ SeenInv(w))'
      BY <1>0, <1>4, <1>t, <2>2 DEF Offer
    <3>3. /\ wpc[w] \in Watching => /\ Live(queue'[w])
                                   /\ Items(queue'[w]) \subseteq Items(queue[w]) \cup {cursor}
                                   /\ cursor \in Items(queue'[w])
                                   /\ Items(queue[w]) \subseteq Items(queue'[w]) \cup Dropped(queue[w])
      BY <1>0, <1>u, <2>2, <3>1, OfferedItems
    <3>4. SeamInv(w)'
      <4> HIDE DEF Awaits
      <4>0. SeamInv(w)
        BY <1>0, <2>2
      <4>1. Awaits(w) /\ ~Awaits(w)'
        BY <3>6
      <4>2. /\ wpc' = wpc /\ last' = last /\ floor' = floor /\ replay' = replay /\ cursor' = cursor
        BY <1>4 DEF Offer
      <4>3. last[w] \in Nat /\ cursor \in Nat /\ Items(replay[w]) \subseteq Nat
        BY <1>t, <1>u
      <4> QED
        BY <4>0, <4>1, <4>2, <4>3, <3>3
    <3>5. SlipInv(w)'
      BY <1>0, <1>4, <1>t, <2>2, <3>1, <3>3, <3>6 DEF Offer, Close
    <3> QED
      BY <3>2, <3>4, <3>5
  <2> QED
    BY <2>3, <2>4, <2>5
<1>6. ASSUME NEW drop \in SUBSET Items(buffer) \ {{}}, Forget(drop) PROVE Rest'
  <2> DEFINE keep == {i \in DOMAIN buffer : buffer[i] \notin drop}
  <2>1. PICK f \in [1..Cardinality(keep) -> keep] :
          /\ \A i, j \in DOMAIN f : i < j => f[i] < f[j]
          /\ buffer' = [i \in DOMAIN f |-> buffer[f[i]]]
    BY <1>6 DEF Forget
  <2>2. Live(buffer') /\ Items(buffer') = Items(buffer) \ drop
    <3>1. buffer \in Seq(Cursors) /\ Live(buffer)
      BY <1>0 DEF TypeInv, TypeOK, RingInv
    <3>2. /\ keep = {i \in DOMAIN buffer : buffer[i] \notin drop}
          /\ DOMAIN buffer' = DOMAIN f /\ \A i \in DOMAIN f : buffer'[i] = buffer[f[i]]
      BY <2>1
    <3> HIDE DEF keep
    <3> QED
      BY <2>1, <3>1, <3>2, KeptItems
  <2>3. LoopFree /\ gone' = gone \cup drop /\ UNCHANGED <<cursor, closed, subs, pub, watch>>
    BY <1>6 DEF Forget
  <2>4. RingInv'
    BY <1>0, <2>2, <2>3 DEF RingInv
  <2>5. ASSUME NEW w \in Watchers PROVE WatcherInv(w)'
    BY <1>0, <2>3
  <2> QED
    BY <2>4, <2>5
<1>7. CASE CloseBus
  <2>1. LoopFree /\ ~closed /\ pub' = pub /\ cursor' = cursor /\ pub[Loop].at = "idle"
    BY <1>7 DEF CloseBus
  <2>2. RingInv'
    BY <1>0, <1>7, <2>1 DEF CloseBus, RingInv
  <2>3. ASSUME NEW w \in Watchers PROVE WatcherInv(w)'
    <3>1. CASE w \notin subs
      <4>1. queue'[w] = queue[w] /\ unheard'[w] = unheard[w]
        BY <1>7, <3>1 DEF CloseBus
      <4> QED
        BY <1>0, <1>7, <4>1 DEF CloseBus
    <3>2. CASE w \in subs
      <4>1. queue'[w] = Offered(queue[w], Close) /\ unheard'[w] = unheard[w] \cup (Dropped(queue[w]) \ {Close})
        BY <1>7, <3>2 DEF CloseBus
      <4>2. 0 \in 0..MaxCursor /\ Close = 0
        BY <1>t DEF Close
      <4>3. wpc[w] \in Watching => /\ Live(queue'[w])
                                 /\ Items(queue'[w]) \subseteq Items(queue[w]) \cup {Close}
                                 /\ Items(queue[w]) \subseteq Items(queue'[w]) \cup Dropped(queue[w])
        BY <1>0, <1>u, <4>1, <4>2, OfferedItems
      <4>4. (AskInv(w) /\ SeenInv(w))'
        BY <1>0, <1>7, <3>2 DEF CloseBus
      <4>5. SeamInv(w)'
        BY <1>0, <1>7, <4>3, <2>1 DEF CloseBus
      <4>6. SlipInv(w)'
        BY <1>0, <1>7, <1>t, <4>1, <4>3, <2>1, <4>2 DEF CloseBus
      <4> QED
        BY <4>4, <4>5, <4>6
    <3> QED
      BY <3>1, <3>2
  <2> QED
    BY <2>2, <2>3
<1>8. ASSUME NEW w \in Watchers, NEW since \in 0..MaxCursor, Ask(w, since) PROVE Rest'
  <2>1. RingInv'
    BY <1>0, <1>8 DEF Ask, RingInv
  <2>2. ASSUME NEW v \in Watchers PROVE WatcherInv(v)'
    <3>1. /\ wpc[w] = Off /\ since <= cursor
          /\ floor'[v] = (IF v = w THEN since ELSE floor[v]) /\ wpc'[v] = (IF v = w THEN Asked ELSE wpc[v])
      BY <1>8, <1>t DEF Ask
    <3>2. Items(<<>>) = {} /\ Live(<<>>)
      BY DEF Items, Live
    <3> QED
      BY <1>0, <1>8, <1>t, <3>1, <3>2 DEF Ask
  <2> QED
    BY <2>1, <2>2
<1>9. ASSUME NEW w \in Watchers, Subscribe(w) PROVE Rest'
  <2>1. RingInv'
    BY <1>0, <1>9 DEF Subscribe, RingInv
  <2>2. ASSUME NEW v \in Watchers, v # w PROVE WatcherInv(v)'
    <3>1. /\ wpc'[v] = wpc[v] /\ replay'[v] = replay[v] /\ last'[v] = last[v] /\ unheard'[v] = unheard[v]
          /\ (v \in subs' <=> v \in subs)
      BY <1>9, <2>2 DEF Subscribe
    <3> QED
      BY <1>0, <1>9, <3>1 DEF Subscribe
  <2>3. WatcherInv(w)'
    <3>1. /\ pub[Loop].at = "idle" /\ wpc[w] = Asked /\ queue[w] = <<>> /\ seen[w] = <<>> /\ w \notin pub[Loop].to
          /\ floor[w] <= cursor
      BY <1>0, <1>9 DEF Subscribe
    <3>2. /\ wpc'[w] = Replay /\ replay'[w] = buffer /\ last'[w] = floor[w] /\ unheard'[w] = gone /\ w \in subs'
      BY <1>0, <1>9, <1>t DEF Subscribe, TypeInv, TypeOK
    <3>3. Items(<<>>) = {} /\ Live(<<>>)
      BY DEF Items, Live
    <3>4. (AskInv(w) /\ SeenInv(w))'
      BY <1>9, <3>1, <3>2, <3>3 DEF Subscribe
    <3>5. SeamInv(w)'
      BY <1>0, <1>9, <1>t, <3>1, <3>2, <3>3 DEF Subscribe, RingInv
    <3>6. SlipInv(w)'
      BY <1>0, <1>9, <1>t, <3>1, <3>2 DEF Subscribe, RingInv
    <3> QED
      BY <3>4, <3>5, <3>6
  <2> QED
    BY <2>1, <2>2, <2>3
<1>10. ASSUME NEW w \in Watchers, ReplayNext(w) PROVE Rest'
  <2>1. RingInv'
    BY <1>0, <1>10 DEF ReplayNext, RingInv
  <2>2. ASSUME NEW v \in Watchers, v # w PROVE WatcherInv(v)'
    <3>1. replay'[v] = replay[v] /\ last'[v] = last[v] /\ seen'[v] = seen[v]
      <4>1. CASE Head(replay[w]) > floor[w]
        BY <1>10, <1>t, <2>2, <4>1 DEF ReplayNext, Yield
      <4>2. CASE ~(Head(replay[w]) > floor[w])
        BY <1>10, <1>t, <2>2, <4>2 DEF ReplayNext
      <4> QED
        BY <4>1, <4>2
    <3> QED
      BY <1>0, <1>10, <3>1 DEF ReplayNext
  <2>3. WatcherInv(w)'
    <3> DEFINE h == Head(replay[w])
    <3>1. /\ wpc[w] = Replay /\ replay[w] # <<>> /\ replay[w] \in Seq(Cursors) /\ seen[w] \in Seq(Cursors)
          /\ queue[w] \in Seq(0..MaxCursor)
      BY <1>10, <1>u DEF ReplayNext
    <3>2. h \in Cursors /\ Items(replay[w]) = {h} \cup Items(Tail(replay[w]))
      BY <3>1, Shrunk, ItemsTail
    <3>3. Live(Tail(replay[w])) /\ \A c \in Items(Tail(replay[w])) : h < c
      <4>1. replay[w] \in Seq(Nat) /\ Live(replay[w]) /\ h # Close
        BY <1>0, <1>u, <3>1, <3>2
      <4>2. Close \notin Items(replay[w])
        BY <1>u
      <4> QED
        BY <3>1, <3>2, <4>1, <4>2, LiveTail
    <3>4. replay'[w] = Tail(replay[w])
      BY <1>10, <1>0 DEF ReplayNext, TypeInv, TypeOK
    <3>5. h \in Nat /\ floor[w] \in Nat /\ last[w] \in Nat /\ cursor \in Nat
      BY <1>t, <3>2 DEF Cursors
    <3>6. CASE h > floor[w]
      <4>1. seen'[w] = Append(seen[w], h) /\ last'[w] = h
        BY <1>0, <1>10, <3>6 DEF ReplayNext, Yield, TypeInv, TypeOK
      <4>2. h > last[w]
        BY <1>0, <3>1, <3>2, <3>6
      <4>3. Items(seen'[w]) = Items(seen[w]) \cup {h}
        BY <3>1, <3>2, <4>1, Items1
      <4>4. Live(seen'[w])
        <5>1. seen[w] \in Seq(Nat) /\ Live(seen[w])
          BY <1>0, <1>u
        <5>2. \A c \in Items(seen[w]) : c < h
          <6>1. \A c \in Items(seen[w]) : c \in Nat /\ c <= last[w]
            BY <1>0, <1>u
          <6> QED
            BY <3>5, <4>2, <6>1
        <5> QED
          BY <3>5, <4>1, <5>1, <5>2, LiveAppend
      <4>5. AskInv(w)'
        BY <1>0, <1>10, <3>1 DEF ReplayNext
      <4>9. /\ wpc' = wpc /\ floor' = floor /\ cursor' = cursor /\ queue' = queue /\ unheard' = unheard /\ pub' = pub
            /\ pub[Loop].at = "idle"
        BY <1>10 DEF ReplayNext
      <4>6. SeenInv(w)'
        <5>1. \A c \in Items(seen[w]) : c \in Nat /\ floor[w] < c /\ c <= last[w]
          BY <1>0, <1>u
        <5> QED
          BY <3>5, <3>6, <4>1, <4>2, <4>3, <4>4, <4>9, <5>1
      <4>7. SeamInv(w)'
        <5>1. SeamInv(w)
          BY <1>0
        <5>2. h <= cursor /\ \A d \in Items(queue[w]) \ {Close} : h < d
          BY <1>0, <3>1, <3>2
        <5>3. Items(Tail(replay[w])) \subseteq Items(replay[w])
          BY <3>2
        <5> QED
          BY <3>1, <3>3, <3>4, <3>5, <3>6, <4>1, <4>2, <4>9, <5>1, <5>2, <5>3
      <4>8. SlipInv(w)'
        <5>1. SlipInv(w)
          BY <1>0
        <5> QED
          BY <3>1, <3>2, <3>4, <4>3, <4>9, <5>1
      <4> QED
        BY <4>5, <4>6, <4>7, <4>8
    <3>7. CASE ~(h > floor[w])
      <4>1. seen' = seen /\ last' = last
        BY <1>10, <3>7 DEF ReplayNext
      <4>2. (AskInv(w) /\ SeenInv(w))'
        BY <1>0, <1>10, <3>1, <4>1 DEF ReplayNext
      <4>3. SeamInv(w)'
        BY <1>0, <1>10, <3>1, <3>2, <3>3, <3>4, <4>1 DEF ReplayNext
      <4>4. SlipInv(w)'
        <5>1. SlipInv(w) /\ pub[Loop].at = "idle"
          BY <1>0, <1>10 DEF ReplayNext
        <5>2. h \notin floor[w] + 1 .. cursor
          BY <3>5, <3>7
        <5>3. /\ wpc' = wpc /\ floor' = floor /\ cursor' = cursor /\ queue' = queue /\ unheard' = unheard
              /\ pub' = pub /\ seen' = seen
          BY <1>10, <4>1 DEF ReplayNext
        <5> HIDE DEF h
        <5> QED
          BY <3>1, <3>2, <3>4, <5>1, <5>2, <5>3
      <4> QED
        BY <4>2, <4>3, <4>4
    <3> QED
      BY <3>6, <3>7
  <2> QED
    BY <2>1, <2>2, <2>3
<1>11. ASSUME NEW w \in Watchers, ReplayDone(w) PROVE Rest'
  <2>1. RingInv'
    BY <1>0, <1>11 DEF ReplayDone, RingInv
  <2>2. ASSUME NEW v \in Watchers PROVE WatcherInv(v)'
    <3>1. /\ v # w => wpc'[v] = wpc[v] /\ (v \in subs' <=> v \in subs)
          /\ wpc[w] = Replay /\ wpc'[w] \in {Ended, Tail_} /\ (wpc'[w] = Tail_ => subs' = subs)
      BY <1>11, <1>t DEF ReplayDone
    <3> QED
      BY <1>0, <1>11, <3>1 DEF ReplayDone
  <2> QED
    BY <2>1, <2>2
<1>13. ASSUME NEW w \in Watchers, Leave(w) PROVE Rest'
  <2>1. RingInv'
    BY <1>0, <1>13 DEF Leave, RingInv
  <2>2. ASSUME NEW v \in Watchers PROVE WatcherInv(v)'
    <3>1. /\ v # w => wpc'[v] = wpc[v] /\ (v \in subs' <=> v \in subs)
          /\ wpc'[w] = Left
      BY <1>13, <1>t DEF Leave
    <3> QED
      BY <1>0, <1>13, <3>1 DEF Leave
  <2> QED
    BY <2>1, <2>2
<1>14. CASE UNCHANGED vars
  BY <1>0, <1>14 DEF RingInv
<1>12. ASSUME NEW w \in Watchers, Get(w) PROVE Rest'
  <2> DEFINE h == Head(queue[w])
  <2>0. /\ wpc[w] = Tail_ /\ queue[w] # <<>> /\ pub[Loop].at = "idle"
        /\ UNCHANGED <<buffer, cursor, closed, pub, gone, floor, replay, unheard>>
    BY <1>12 DEF Get
  <2>1. RingInv'
    BY <1>0, <2>0 DEF RingInv
  <2>2. CASE h = Close
    <3>1. /\ wpc' = [wpc EXCEPT ![w] = Ended] /\ subs' = subs \ {w} /\ UNCHANGED <<queue, seen, last>>
      BY <1>12, <2>2 DEF Get
    <3>2. ASSUME NEW v \in Watchers PROVE WatcherInv(v)'
      <4>1. /\ v # w => wpc'[v] = wpc[v] /\ (v \in subs' <=> v \in subs)
            /\ wpc'[w] = Ended
        BY <3>1, <1>t
      <4> QED
        BY <1>0, <2>0, <3>1, <4>1
    <3> QED
      BY <2>1, <3>2
  <2>3. CASE h # Close
    <3>1. /\ wpc' = wpc /\ subs' = subs /\ queue' = [queue EXCEPT ![w] = Tail(queue[w])]
      BY <1>12, <2>3 DEF Get
    <3>2. /\ h \in Nat /\ h \in Cursors /\ h \in Items(queue[w]) \ {Close}
          /\ Items(queue[w]) = {h} \cup Items(Tail(queue[w]))
      <4>1. h \in 0..MaxCursor /\ Items(queue[w]) = {h} \cup Items(Tail(queue[w]))
        BY <1>u, <2>0, Shrunk, ItemsTail
      <4>2. h \in Nat /\ h \in Cursors
        BY <2>3, <4>1 DEF Close, Cursors
      <4> QED
        BY <2>3, <4>1, <4>2
    <3>3. SeamInv(w) /\ SlipInv(w) /\ SeenInv(w) /\ AskInv(w) /\ w \in subs
      BY <1>0, <2>0
    <3>4. h > last[w] /\ h <= cursor /\ Live(queue[w]) /\ floor[w] <= last[w] /\ last[w] \in Nat /\ floor[w] \in Nat
      BY <1>t, <2>0, <3>2, <3>3
    <3>5. seen' = [seen EXCEPT ![w] = Append(seen[w], h)] /\ last' = [last EXCEPT ![w] = h]
      BY <1>12, <2>3, <3>4 DEF Get, Yield
    <3>6. Live(Tail(queue[w])) /\ \A c \in Items(Tail(queue[w])) \ {Close} : h < c
      <4>1. queue[w] \in Seq(Nat)
        BY <1>u
      <4> QED
        BY <2>0, <2>3, <3>4, <4>1, LiveTail
    <3>7. ASSUME NEW v \in Watchers, v # w PROVE WatcherInv(v)'
      <4>1. queue'[v] = queue[v] /\ seen'[v] = seen[v] /\ last'[v] = last[v]
        BY <3>1, <3>5, <3>7, <1>t
      <4> QED
        BY <1>0, <2>0, <3>1, <4>1
    <3>8. WatcherInv(w)'
      <4> HIDE DEF h
      <4>1. queue'[w] = Tail(queue[w]) /\ seen'[w] = Append(seen[w], h) /\ last'[w] = h
        BY <3>1, <3>5, <1>t
      <4>2. Items(seen'[w]) = Items(seen[w]) \cup {h}
        BY <3>2, <4>1, <1>u, Items1
      <4>3. \A c \in Items(seen[w]) : c \in Nat /\ floor[w] < c /\ c <= last[w]
        BY <3>3, <1>u
      <4>4. Live(seen'[w])
        <5>1. seen[w] \in Seq(Nat) /\ Live(seen[w]) /\ \A c \in Items(seen[w]) \ {Close} : c < h
          BY <1>u, <3>2, <3>3, <3>4, <4>3
        <5> QED
          BY <3>2, <4>1, <5>1, LiveAppend
      <4>5. AskInv(w)'
        BY <2>0, <3>1, <3>3
      <4>6. SeenInv(w)'
        BY <2>0, <3>2, <3>4, <4>1, <4>2, <4>3, <4>4
      <4>7. SeamInv(w)'
        <5>1. Items(Tail(queue[w])) \subseteq Items(queue[w])
          BY <3>2
        <5>2. Items(replay[w]) = {} /\ Live(replay[w])
          BY <2>0, <3>3 DEF Items
        <5>3. \A c \in Items(Tail(queue[w])) \ {Close} : h < c /\ c <= cursor
          BY <2>0, <3>3, <3>6, <5>1
        <5>4. ~Awaits(w)'
          BY <2>0
        <5>5. floor[w] <= h
          BY <3>2, <3>4
        <5> HIDE DEF Awaits
        <5> QED
          BY <2>0, <3>1, <3>4, <3>6, <4>1, <5>2, <5>3, <5>4, <5>5
      <4>8. SlipInv(w)'
        BY <2>0, <3>1, <3>2, <3>3, <4>1, <4>2
      <4> QED
        BY <4>5, <4>6, <4>7, <4>8
    <3> QED
      BY <2>1, <3>7, <3>8
  <2> QED
    BY <2>2, <2>3
<1> QED
  BY <1>0, <1>1, <1>2, <1>3, <1>4, <1>5, <1>6, <1>7, <1>8, <1>9, <1>10, <1>11, <1>12, <1>13, <1>14
     DEF Next, Publish, Watcher

LEMMA InvMeans == LoopOnly /\ Inv => InOrder /\ NothingSlips
<1> SUFFICES ASSUME LoopOnly, Inv PROVE InOrder /\ NothingSlips
  OBVIOUS
<1>1. ASSUME NEW w \in Watchers PROVE Rising(seen[w]) /\ \A c \in Items(seen[w]) : c > floor[w]
  <2>1. seen[w] \in Seq(Cursors) /\ floor[w] \in Nat /\ Items(seen[w]) \subseteq Nat
    BY DEF Inv, TypeInv, TypeOK, Items, Cursors
  <2>2. Live(seen[w]) /\ \A c \in Items(seen[w]) : floor[w] < c
    BY DEF Inv, WatcherInv, SeenInv
  <2> QED
    BY <2>1, <2>2, LiveRises
<1>2. ASSUME NEW w \in Watchers, Awaits(w) PROVE OnItsWay(w, cursor)
  <2>1. pub[Loop].item = cursor /\ Loop \in Threads
    BY <1>2 DEF Inv, RingInv, Awaits, Threads
  <2> QED
    BY <1>2, <2>1 DEF Awaits, OnItsWay
<1>3. ASSUME NEW w \in Watchers, wpc[w] \in Watching, NEW c \in floor[w] + 1 .. cursor
      PROVE  c \in Items(seen[w]) \cup Items(replay[w]) \cup Items(queue[w]) \cup unheard[w] \/ OnItsWay(w, c)
  BY <1>2, <1>3 DEF Inv, WatcherInv, SlipInv
<1> QED
  BY <1>1, <1>3 DEF InOrder, NothingSlips

(* A bus that only the event loop publishes on yields each event after `since` at most
   once and in cursor order, whatever the ring and the queues had to let go of.        *)
THEOREM InOrderAlone == LoopOnly => (Spec => []InOrder)
<1> SUFFICES ASSUME LoopOnly PROVE Spec => []InOrder
  OBVIOUS
<1>1. Inv /\ [Next]_vars => Inv'
  BY NextInv
<1>2. Inv => InOrder
  BY InvMeans
<1> QED
  BY InitInv, <1>1, <1>2, PTL DEF Spec

(* On such a bus no event slips between a watcher's replay and its live tail. *)
THEOREM NothingSlipsAlone == LoopOnly => (Spec => []NothingSlips)
<1> SUFFICES ASSUME LoopOnly PROVE Spec => []NothingSlips
  OBVIOUS
<1>1. Inv /\ [Next]_vars => Inv'
  BY NextInv
<1>2. Inv => NothingSlips
  BY InvMeans
<1> QED
  BY InitInv, <1>1, <1>2, PTL DEF Spec

-----------------------------------------------------------------------------
(* The publishes that may still come to watcher w's queue, by threads beside the loop. *)
ToCome(w) == {t \in Workers : \/ pub[t].at \in {"stamped", "appended"}
                              \/ pub[t].at = "fan" /\ w \in pub[t].to}

(* Closing reaches who tails: the sentinel is in its queue, and what stands behind it leaves
   the room for what may still come.                                                        *)
Sentinel(w, i) == queue[w][i] = Close /\ Len(queue[w]) - i + Cardinality(ToCome(w)) <= Cardinality(Workers)

SentinelInv ==
  /\ closed => pub[Loop].at = "idle"
  /\ \A w \in Watchers : wpc[w] \in Watching => w \in subs
  /\ \A w \in Watchers : closed /\ wpc[w] = Tail_ => \E i \in 1..Len(queue[w]) : Sentinel(w, i)

FewWorkers == IsFiniteSet(Workers) /\ Cardinality(Workers) < QueueMax

SentinelStands == \A w \in Watchers : closed /\ wpc[w] = Tail_ => Close \in Items(queue[w])

LEMMA OfferedAt ==
  ASSUME NEW S, NEW s \in Seq(S), NEW e \in S, Len(s) <= QueueMax
  PROVE  /\ Len(s) < QueueMax => /\ Len(Offered(s, e)) = Len(s) + 1
                                 /\ \A i \in 1..Len(s) : Offered(s, e)[i] = s[i]
         /\ Len(s) = QueueMax => /\ Len(Offered(s, e)) = Len(s)
                                 /\ \A i \in 1..Len(s) : i > 1 => Offered(s, e)[i - 1] = s[i]
         /\ Len(Offered(s, e)) >= 1 /\ Offered(s, e)[Len(Offered(s, e))] = e
<1>1. CASE Len(s) < QueueMax
  BY <1>1, Grown DEF Offered
<1>2. CASE Len(s) = QueueMax
  <2>1. s # <<>> /\ Len(s) >= 1
    BY <1>2
  <2>2. /\ Tail(s) \in Seq(S) /\ Len(Tail(s)) = Len(s) - 1
        /\ \A i \in 1..Len(Tail(s)) : Tail(s)[i] = s[i + 1]
    BY <2>1, Shrunk
  <2>3. /\ Offered(s, e) = Append(Tail(s), e) /\ Len(Offered(s, e)) = Len(s)
        /\ \A i \in 1..Len(Tail(s)) : Offered(s, e)[i] = Tail(s)[i]
        /\ Offered(s, e)[Len(s)] = e
    BY <1>2, <2>2, Grown DEF Offered
  <2>4. ASSUME NEW i \in 1..Len(s), i > 1 PROVE Offered(s, e)[i - 1] = s[i]
    <3>1. i - 1 \in 1..Len(Tail(s))
      BY <2>2, <2>4
    <3> QED
      BY <2>2, <2>3, <3>1
  <2> QED
    BY <1>2, <2>1, <2>3, <2>4
<1> QED
  BY <1>1, <1>2

(* The sentinel of w stays put while its queue does and nobody new is to come. *)
LEMMA SentinelStays ==
  ASSUME TypeInv, IsFiniteSet(Workers), NEW w \in Watchers, UNCHANGED queue, ToCome(w)' \subseteq ToCome(w),
         NEW i \in 1..Len(queue[w]), Sentinel(w, i)
  PROVE  Sentinel(w, i)'
<1>1. IsFiniteSet(ToCome(w))
  BY FS_Subset DEF ToCome
<1>2. /\ Cardinality(ToCome(w)) \in Nat /\ Cardinality(ToCome(w)') \in Nat
      /\ Cardinality(ToCome(w)') <= Cardinality(ToCome(w)) /\ Cardinality(Workers) \in Nat
  <2>1. IsFiniteSet(ToCome(w)') /\ Cardinality(ToCome(w)') <= Cardinality(ToCome(w))
    BY <1>1, FS_Subset
  <2> QED
    BY <1>1, <2>1, FS_CardinalityType
<1>3. Len(queue[w]) \in Nat
  BY DEF TypeInv, TypeOK
<1> QED
  BY <1>2, <1>3 DEF Sentinel

LEMMA NextSentinel == FewWorkers /\ TypeInv /\ SentinelInv /\ [Next]_vars => SentinelInv'
<1> SUFFICES ASSUME FewWorkers, TypeInv, SentinelInv, [Next]_vars PROVE SentinelInv'
  OBVIOUS
<1>p. /\ queue \in [Watchers -> Seq(0..MaxCursor)] /\ wpc \in [Watchers -> {Off, Asked, Replay, Tail_, Ended, Left}]
      /\ pub \in [Threads -> [at : {"idle", "stamped", "appended", "fan"}, item : 0..MaxCursor, to : SUBSET Watchers]]
      /\ Loop \in Threads /\ Workers \subseteq Threads /\ IsFiniteSet(Workers) /\ closed \in BOOLEAN
      /\ \A w \in Watchers : Len(queue[w]) <= QueueMax /\ Len(queue[w]) \in Nat
  BY DEF TypeInv, TypeOK, FewWorkers, Threads
<1>i. SentinelInv
  OBVIOUS
<1>n. TypeInv'
  BY NextType
<1>k. ASSUME closed' = closed, UNCHANGED <<queue, subs, wpc>>, closed => pub'[Loop].at = "idle",
             closed => \A w \in Watchers : ToCome(w)' \subseteq ToCome(w)
      PROVE  SentinelInv'
  BY <1>k, <1>p, <1>i, SentinelStays DEF SentinelInv
<1>1. ASSUME NEW t \in Threads, Stamp(t) PROVE SentinelInv'
  BY <1>1, <1>k DEF Stamp, watch
<1>2. ASSUME NEW t \in Threads, RingAppend(t) \/ Snapshot(t) \/ Published(t) PROVE SentinelInv'
  <2>1. closed' = closed /\ UNCHANGED <<queue, subs, wpc>> /\ pub[t].at # "idle"
    BY <1>2 DEF RingAppend, Snapshot, Published, watch
  <2>2. \A u \in Threads : u # t => pub'[u] = pub[u]
    BY <1>2, <1>p DEF RingAppend, Snapshot, Published
  <2>3. closed => pub'[Loop].at = "idle"
    BY <2>1, <2>2, <1>i, <1>p DEF SentinelInv
  <2>4. ASSUME NEW w \in Watchers PROVE ToCome(w)' \subseteq ToCome(w)
    <3>1. CASE RingAppend(t)
      BY <2>2, <3>1, <1>p DEF RingAppend, ToCome
    <3>2. CASE Snapshot(t)
      BY <2>2, <3>2, <1>p DEF Snapshot, ToCome
    <3>3. CASE Published(t)
      BY <2>2, <3>3, <1>p DEF Published, ToCome, Idle
    <3> QED
      BY <3>1, <3>2, <3>3, <1>2
  <2> QED
    BY <2>1, <2>3, <2>4, <1>k
<1>3. ASSUME NEW t \in Threads, Offer(t) PROVE SentinelInv'
  <2>1. PICK v \in pub[t].to : /\ queue' = [queue EXCEPT ![v] = Offered(@, pub[t].item)]
                               /\ pub' = [pub EXCEPT ![t].to = @ \ {v}]
    BY <1>3 DEF Offer
  <2>2. pub[t].at = "fan" /\ UNCHANGED <<closed, subs, wpc>> /\ v \in Watchers /\ pub[t].item \in 0..MaxCursor
    BY <1>3, <1>p DEF Offer
  <2>3. /\ \A u \in Threads : u # t => pub'[u] = pub[u]
        /\ pub'[t].at = "fan" /\ pub'[t].to = pub[t].to \ {v}
    BY <2>1, <2>2, <1>p
  <2>4. closed => t \in Workers /\ pub'[Loop].at = "idle"
    BY <2>2, <2>3, <1>i DEF SentinelInv, Threads
  <2>5. ASSUME NEW w \in Watchers, closed, wpc[w] = Tail_ PROVE \E i \in 1..Len(queue'[w]) : Sentinel(w, i)'
    <3>1. PICK i \in 1..Len(queue[w]) : Sentinel(w, i)
      BY <2>5, <1>i DEF SentinelInv
    <3>2. CASE w # v
      <4>1. ToCome(w)' = ToCome(w) /\ queue'[w] = queue[w]
        BY <2>1, <2>2, <2>3, <3>2, <1>p DEF ToCome
      <4> QED
        BY <3>1, <4>1 DEF Sentinel
    <3>3. CASE w = v
      <4>1. ToCome(w)' = ToCome(w) \ {t} /\ t \in ToCome(w)
        BY <2>2, <2>3, <2>4, <2>5, <3>3, <1>p DEF ToCome
      <4>2. IsFiniteSet(ToCome(w)) /\ Cardinality(ToCome(w)) \in Nat /\ Cardinality(Workers) \in Nat
        <5>1. ToCome(w) \in SUBSET Workers
          BY DEF ToCome
        <5> QED
          BY <5>1, <1>p, FS_Subset, FS_CardinalityType
      <4>3. Cardinality(ToCome(w)') = Cardinality(ToCome(w)) - 1 /\ Cardinality(ToCome(w)') \in Nat
        BY <4>1, <4>2, FS_RemoveElement, FS_CardinalityType
      <4>4. queue'[w] = Offered(queue[w], pub[t].item)
        BY <2>1, <3>3, <1>p
      <4>5. queue[w] \in Seq(0..MaxCursor) /\ Len(queue[w]) \in Nat /\ Len(queue[w]) <= QueueMax
        BY <1>p
      <4>6. queue[w][i] = Close /\ Len(queue[w]) - i + Cardinality(ToCome(w)) <= Cardinality(Workers)
        BY <3>1 DEF Sentinel
      <4>o. /\ Len(queue[w]) < QueueMax => /\ Len(queue'[w]) = Len(queue[w]) + 1
                                          /\ \A k \in 1..Len(queue[w]) : queue'[w][k] = queue[w][k]
            /\ Len(queue[w]) = QueueMax => /\ Len(queue'[w]) = Len(queue[w])
                                          /\ \A k \in 1..Len(queue[w]) : k > 1 => queue'[w][k - 1] = queue[w][k]
        <5> DEFINE q == queue[w]
                   e == pub[t].item
        <5>1. q \in Seq(0..MaxCursor) /\ e \in 0..MaxCursor /\ Len(q) <= QueueMax /\ queue'[w] = Offered(q, e)
          BY <4>4, <4>5, <2>2
        <5> HIDE DEF q, e
        <5>2. /\ Len(q) < QueueMax => /\ Len(Offered(q, e)) = Len(q) + 1
                                      /\ \A k \in 1..Len(q) : Offered(q, e)[k] = q[k]
              /\ Len(q) = QueueMax => /\ Len(Offered(q, e)) = Len(q)
                                      /\ \A k \in 1..Len(q) : k > 1 => Offered(q, e)[k - 1] = q[k]
          BY <5>1, OfferedAt
        <5> QED
          BY <5>1, <5>2 DEF q
      <4>7. CASE Len(queue[w]) < QueueMax
        <5>1. Len(queue'[w]) = Len(queue[w]) + 1 /\ queue'[w][i] = queue[w][i]
          BY <4>o, <4>7
        <5>2. i \in 1..Len(queue'[w])
          BY <5>1, <4>5
        <5>3. Sentinel(w, i)'
          BY <5>1, <4>2, <4>3, <4>5, <4>6 DEF Sentinel
        <5> QED
          BY <5>2, <5>3
      <4>8. CASE Len(queue[w]) = QueueMax
        <5>1. i > 1
          BY <4>2, <4>3, <4>5, <4>6, <4>8 DEF FewWorkers
        <5>2. Len(queue'[w]) = Len(queue[w]) /\ queue'[w][i - 1] = queue[w][i]
          BY <4>o, <4>8, <5>1
        <5>3. i - 1 \in 1..Len(queue'[w])
          BY <5>1, <5>2, <4>5
        <5>4. Sentinel(w, i - 1)'
          BY <5>1, <5>2, <4>2, <4>3, <4>5, <4>6 DEF Sentinel
        <5> QED
          BY <5>3, <5>4
      <4> QED
        BY <4>5, <4>7, <4>8
    <3> QED
      BY <3>2, <3>3
  <2> QED
    BY <2>2, <2>4, <2>5, <1>i DEF SentinelInv
<1>4. ASSUME NEW drop, Forget(drop) PROVE SentinelInv'
  BY <1>4, <1>k, <1>i DEF Forget, watch, ToCome, SentinelInv
<1>5. CASE CloseBus
  <2>1. closed' /\ pub[Loop].at = "idle" /\ UNCHANGED <<subs, pub, wpc>>
    BY <1>5 DEF CloseBus, LoopFree
  <2>2. ASSUME NEW w \in Watchers, wpc[w] = Tail_ PROVE \E i \in 1..Len(queue'[w]) : Sentinel(w, i)'
    <3>1. queue'[w] = Offered(queue[w], Close)
      BY <1>5, <2>2, <1>i, <1>p DEF CloseBus, SentinelInv, Watching
    <3>2. Len(queue'[w]) >= 1 /\ queue'[w][Len(queue'[w])] = Close
      <4>1. 0 \in 0..MaxCursor
        OBVIOUS
      <4> QED
        BY <3>1, <4>1, <1>p, OfferedAt DEF Close
    <3>3. Len(queue'[w]) \in Nat
      BY <1>n DEF TypeInv, TypeOK
    <3>4. ToCome(w)' \in SUBSET Workers
      BY DEF ToCome
    <3>5. Cardinality(ToCome(w)') <= Cardinality(Workers) /\ Cardinality(ToCome(w)') \in Nat /\ Cardinality(Workers) \in Nat
      BY <3>4, <1>p, FS_Subset, FS_CardinalityType
    <3>6. ASSUME NEW i \in Nat, i = Len(queue'[w]) PROVE Sentinel(w, i)'
      BY <3>2, <3>3, <3>5, <3>6 DEF Sentinel
    <3> QED
      BY <3>2, <3>3, <3>6
  <2> QED
    BY <2>1, <2>2, <1>i DEF SentinelInv
<1>6. ASSUME NEW v \in Watchers, NEW since \in 0..MaxCursor, Ask(v, since) \/ Subscribe(v) \/ ReplayNext(v) \/ Leave(v)
      PROVE  SentinelInv'
  <2>1. UNCHANGED <<closed, pub, queue>>
    BY <1>6 DEF Ask, Subscribe, ReplayNext, Leave, bus
  <2>2. \A w \in Watchers : wpc'[w] = Tail_ => wpc[w] = Tail_
    BY <1>6, <1>p DEF Ask, Subscribe, ReplayNext, Leave, Asked, Replay, Left, Tail_
  <2>3. \A w \in Watchers : wpc'[w] \in Watching => w \in subs'
    BY <1>6, <1>i, <1>p DEF Ask, Subscribe, ReplayNext, Leave, bus, Asked, Replay, Left, Tail_, Watching, SentinelInv
  <2>4. \A w \in Watchers : ToCome(w)' = ToCome(w)
    BY <2>1 DEF ToCome
  <2> QED
    BY <2>1, <2>2, <2>3, <2>4, <1>i DEF SentinelInv, Sentinel
<1>7. ASSUME NEW v \in Watchers, ReplayDone(v) PROVE SentinelInv'
  <2>1. UNCHANGED <<closed, pub, queue>>
    BY <1>7 DEF ReplayDone
  <2>2. \A w \in Watchers : closed /\ wpc'[w] = Tail_ => wpc[w] = Tail_
    BY <1>7, <1>p DEF ReplayDone, Ended, Tail_
  <2>3. \A w \in Watchers : wpc'[w] \in Watching => w \in subs'
    BY <1>7, <1>i, <1>p DEF ReplayDone, Replay, Ended, Tail_, Watching, SentinelInv
  <2>4. \A w \in Watchers : ToCome(w)' = ToCome(w)
    BY <2>1 DEF ToCome
  <2> QED
    BY <2>1, <2>2, <2>3, <2>4, <1>i DEF SentinelInv, Sentinel
<1>8. ASSUME NEW v \in Watchers, Get(v) PROVE SentinelInv'
  <2>1. UNCHANGED <<closed, pub>> /\ wpc[v] = Tail_ /\ queue[v] # <<>>
    BY <1>8 DEF Get
  <2>2. \A w \in Watchers : ToCome(w)' = ToCome(w)
    BY <2>1 DEF ToCome
  <2>3. CASE Head(queue[v]) = Close
    <3>1. queue' = queue /\ wpc' = [wpc EXCEPT ![v] = Ended] /\ subs' = subs \ {v}
      BY <1>8, <2>3 DEF Get
    <3>2. \A w \in Watchers : wpc'[w] \in Watching => w # v /\ wpc'[w] = wpc[w]
      BY <3>1, <1>p DEF Ended, Watching, Replay, Tail_
    <3> QED
      BY <2>1, <2>2, <3>1, <3>2, <1>i DEF SentinelInv, Sentinel, Watching
  <2>4. CASE Head(queue[v]) # Close
    <3>1. queue' = [queue EXCEPT ![v] = Tail(@)] /\ UNCHANGED <<wpc, subs>>
      BY <1>8, <2>4 DEF Get
    <3>2. ASSUME NEW w \in Watchers, closed, wpc[w] = Tail_ PROVE \E i \in 1..Len(queue'[w]) : Sentinel(w, i)'
      <4>1. PICK i \in 1..Len(queue[w]) : Sentinel(w, i)
        BY <3>2, <1>i DEF SentinelInv
      <4>2. CASE w # v
        BY <2>2, <3>1, <4>1, <4>2, <1>p DEF Sentinel
      <4>3. CASE w = v
        <5>1. /\ Head(queue[w]) = queue[w][1] /\ Len(queue'[w]) = Len(queue[w]) - 1
              /\ \A k \in 1..Len(queue'[w]) : queue'[w][k] = queue[w][k + 1]
          BY <2>1, <3>1, <4>3, <1>p, Shrunk
        <5>2. i # 1 /\ Len(queue[w]) \in Nat
          BY <2>4, <4>1, <4>3, <5>1, <1>p DEF Sentinel
        <5>3. i - 1 \in 1..Len(queue'[w])
          BY <5>1, <5>2
        <5>4. queue'[w][i - 1] = queue[w][i] /\ Len(queue'[w]) - (i - 1) = Len(queue[w]) - i
          BY <5>1, <5>2, <5>3
        <5>5. Sentinel(w, i - 1)'
          BY <2>2, <4>1, <5>4 DEF Sentinel
        <5> QED
          BY <5>3, <5>5
      <4> QED
        BY <4>2, <4>3
    <3> QED
      BY <2>1, <3>1, <3>2, <1>i DEF SentinelInv
  <2> QED
    BY <2>3, <2>4
<1>9. CASE UNCHANGED vars
  BY <1>9, <1>k, <1>i DEF vars, bus, watch, ToCome, SentinelInv
<1> QED
  BY <1>1, <1>2, <1>3, <1>4, <1>5, <1>6, <1>7, <1>8, <1>9 DEF Next, Publish, Watcher

(* Who tails a closed bus has the sentinel in its queue (server/event_bus.py:221-243): no
   event of a sync route's thread pushes it out, as long as there are fewer such threads than
   places in a queue; so a watcher never waits on a closed bus for what will not come.       *)
THEOREM SentinelStandsAlways == FewWorkers => (Spec => []SentinelStands)
<1>1. ASSUME FewWorkers, Init PROVE SentinelInv
  BY <1>1 DEF Init, SentinelInv, Watching, Off, Replay, Tail_
<1>2. ASSUME SentinelInv, TypeInv PROVE SentinelStands
  <2>1. \A w \in Watchers : queue[w] \in Seq(0..MaxCursor) /\ DOMAIN queue[w] = 1..Len(queue[w])
    BY <1>2 DEF TypeInv, TypeOK
  <2> QED
    BY <1>2, <2>1 DEF SentinelInv, SentinelStands, Sentinel, Items
<1>3. FewWorkers => (Spec => []SentinelStands)
  <2>1. SUFFICES ASSUME FewWorkers PROVE Spec => []SentinelStands
    OBVIOUS
  <2>2. Init => SentinelInv
    BY <2>1, <1>1
  <2>3. TypeInv /\ SentinelInv /\ [Next]_vars => SentinelInv'
    BY <2>1, NextSentinel
  <2> QED
    BY <2>2, <2>3, <1>2, InitType, NextType, PTL DEF Spec
<1> QED
  BY <1>3

=============================================================================
