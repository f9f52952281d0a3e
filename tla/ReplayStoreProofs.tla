------------------------- MODULE ReplayStoreProofs ---------------------------
(***************************************************************************)
(* Proofs about the AntiReplayStore (src/anti_replay.rs), for any keys,    *)
(* capacity and time window.                                               *)
(*                                                                         *)
(* A queue that holds the keys of the map, each once and in time order, is *)
(* what makes popping from the front enough; that the queue is the latest  *)
(* part of all insertions ever made is what makes forgetting fair.         *)
(***************************************************************************)
EXTENDS AntiReplayStore, FiniteSetTheorems, WellFoundedInduction, SequenceTheorems, TLAPS

(* The three properties of the store, of any store and at any time. *)
Typed(s) ==
    /\ s.queue \in Seq(Item)
    /\ DOMAIN s.entries \subseteq Keys
    /\ \A k \in DOMAIN s.entries : s.entries[k] \in Nat

Matched(s) ==
    /\ {s.queue[i].key : i \in 1..Len(s.queue)} = DOMAIN s.entries
    /\ \A i \in 1..Len(s.queue) :
          /\ s.entries[s.queue[i].key] = s.queue[i].at
          /\ \A j \in 1..Len(s.queue) : s.queue[i].key = s.queue[j].key => i = j

Ordered(s, t) ==
    \A i \in 1..Len(s.queue) :
        /\ s.queue[i].at <= t
        /\ \A j \in 1..i : s.queue[j].at <= s.queue[i].at

Sound(s, t) == Typed(s) /\ Matched(s) /\ Ordered(s, t)

Items(s) == {s.queue[i] : i \in 1..Len(s.queue)}

(* The items of a queue are items. *)
LEMMA QueueItems ==
    ASSUME NEW s, Typed(s)
    PROVE  /\ Len(s.queue) \in Nat
           /\ \A i \in 1..Len(s.queue) : /\ s.queue[i] \in Item
                                         /\ s.queue[i].key \in Keys
                                         /\ s.queue[i].at \in Nat
                                         /\ s.queue[i] = [key |-> s.queue[i].key,
                                                          at |-> s.queue[i].at]
<1>1. Len(s.queue) \in Nat /\ \A i \in 1..Len(s.queue) : s.queue[i] \in Item
  BY DEF Typed
<1> QED
  BY <1>1 DEF Item

(* A nonempty set of natural numbers has a least element, which Min picks. *)
LEMMA MinIsLeast ==
    ASSUME NEW T \in SUBSET Nat, T # {}
    PROVE  Min(T) \in T /\ \A t \in T : Min(T) <= t
<1>1. PICK m \in T : \A t \in T : ~ (<<t, m>> \in OpToRel(<, Nat))
  BY NatLessThanWellFounded, WFMin
<1>2. \A t \in T : ~ (t < m)
  BY <1>1 DEF OpToRel
<1>3. \A t \in T : m <= t
  BY <1>2
<1> QED
  BY <1>3 DEF Min

(* Popping n items off the front of the queue, and their keys out of the map,
   leaves map and queue in step (anti_replay.rs:73-75, 84-86). *)
LEMMA PopFrontKeeps ==
    ASSUME NEW s, NEW t, Sound(s, t), NEW n \in 0..Len(s.queue)
    PROVE  /\ Sound(PopFront(s, n), t)
           /\ Len(PopFront(s, n).queue) = Len(s.queue) - n
           /\ \A i \in 1..(Len(s.queue) - n) : PopFront(s, n).queue[i] = s.queue[n + i]
<1> DEFINE r == PopFront(s, n)
           q == s.queue
           popped == {q[i].key : i \in 1..n}
<1>1. /\ Len(q) \in Nat /\ n \in Nat /\ n <= Len(q) /\ q \in Seq(Item)
      /\ \A i \in 1..Len(q) : q[i] \in Item /\ q[i].key \in Keys /\ q[i].at \in Nat
  <2>1. Typed(s)
    BY DEF Sound
  <2>2. q \in Seq(Item)
    BY <2>1 DEF Typed
  <2>3. /\ Len(q) \in Nat
        /\ \A i \in 1..Len(q) : q[i] \in Item /\ q[i].key \in Keys /\ q[i].at \in Nat
    BY <2>1, QueueItems
  <2>4. n \in 0..Len(q)
    OBVIOUS
  <2> HIDE DEF q
  <2> QED BY <2>2, <2>3, <2>4
<1>2. r.queue = SubSeq(q, n + 1, Len(q))
  BY DEF PopFront
<1>3. /\ r.queue \in Seq(Item) /\ Len(r.queue) = Len(q) - n
      /\ \A i \in 1..(Len(q) - n) : r.queue[i] = q[n + i]
  <2>1. /\ SubSeq(q, n + 1, Len(q)) \in Seq(Item)
        /\ Len(SubSeq(q, n + 1, Len(q)))
             = IF n + 1 <= Len(q) THEN Len(q) - (n + 1) + 1 ELSE 0
        /\ \A i \in 1..(Len(q) - (n + 1) + 1) :
              SubSeq(q, n + 1, Len(q))[i] = q[n + 1 + i - 1]
    <3>1. \A i \in (n + 1)..Len(q) : q[i] \in Item
      BY <1>1
    <3>2. n + 1 \in Int /\ Len(q) \in Int
      BY <1>1
    <3> HIDE DEF q
    <3> QED BY <3>1, <3>2, SubSeqProperties
  <2> HIDE DEF q, r
  <2>2. \A i \in 1..(Len(q) - n) : i \in 1..(Len(q) - (n + 1) + 1) /\ n + 1 + i - 1 = n + i
    BY <1>1
  <2> QED BY <1>1, <1>2, <2>1, <2>2
<1>4. /\ DOMAIN r.entries = DOMAIN s.entries \ popped
      /\ \A k \in DOMAIN r.entries : r.entries[k] = s.entries[k]
  BY DEF PopFront
<1>5. /\ {q[i].key : i \in 1..Len(q)} = DOMAIN s.entries
      /\ \A i \in 1..Len(q) :
            /\ s.entries[q[i].key] = q[i].at
            /\ \A j \in 1..Len(q) : q[i].key = q[j].key => i = j
  BY DEF Sound, Matched
<1>6. /\ DOMAIN s.entries \subseteq Keys
      /\ \A k \in DOMAIN s.entries : s.entries[k] \in Nat
  BY DEF Sound, Typed
<1>7. \A i \in 1..Len(q) : q[i].at <= t /\ \A j \in 1..i : q[j].at <= q[i].at
  BY DEF Sound, Ordered
<1> HIDE DEF r, q
<1>8. \A i \in 1..Len(r.queue) : n + i \in 1..Len(q) /\ r.queue[i] = q[n + i]
  BY <1>1, <1>3
<1>9. Typed(r)
  BY <1>3, <1>4, <1>6 DEF Typed
<1>10. Matched(r)
  <2>1. ASSUME NEW i \in 1..Len(r.queue)
        PROVE  r.queue[i].key \in DOMAIN r.entries
    <3>1. q[n + i].key \in DOMAIN s.entries
      BY <1>5, <1>8
    <3>2. \A j \in 1..n : j \in 1..Len(q) /\ j # n + i
      BY <1>1, <1>3
    <3>3. q[n + i].key \notin popped
      BY <1>5, <1>8, <3>2
    <3> QED BY <3>1, <3>3, <1>4, <1>8
  <2>2. ASSUME NEW k \in DOMAIN r.entries
        PROVE  \E i \in 1..Len(r.queue) : r.queue[i].key = k
    <3>1. PICK j \in 1..Len(q) : q[j].key = k
      BY <1>4, <1>5
    <3>2. j \notin 1..n
      BY <3>1, <1>4
    <3>3. j - n \in 1..Len(r.queue) /\ n + (j - n) = j
      BY <3>2, <1>1, <1>3
    <3> QED BY <3>1, <3>3, <1>8
  <2>3. ASSUME NEW i \in 1..Len(r.queue)
        PROVE  /\ r.entries[r.queue[i].key] = r.queue[i].at
               /\ \A j \in 1..Len(r.queue) : r.queue[i].key = r.queue[j].key => i = j
    <3>1. r.entries[r.queue[i].key] = s.entries[q[n + i].key]
      BY <2>1, <1>4, <1>8
    <3>2. ASSUME NEW j \in 1..Len(r.queue), r.queue[i].key = r.queue[j].key
          PROVE  n + i = n + j
      <4>1. n + i \in 1..Len(q) /\ n + j \in 1..Len(q) /\ q[n + i].key = q[n + j].key
        BY <3>2, <1>8
      <4> QED BY <4>1, <1>5
    <3> QED BY <3>1, <3>2, <1>1, <1>3, <1>5, <1>8
  <2>4. {r.queue[i].key : i \in 1..Len(r.queue)} = DOMAIN r.entries
    BY <2>1, <2>2
  <2> QED BY <2>3, <2>4 DEF Matched
<1>11. Ordered(r, t)
  <2> SUFFICES ASSUME NEW i \in 1..Len(r.queue), NEW j \in 1..i
               PROVE  r.queue[i].at <= t /\ r.queue[j].at <= r.queue[i].at
    BY <1>1, <1>3 DEF Ordered
  <2>1. j \in 1..Len(r.queue) /\ n + j \in 1..(n + i)
    BY <1>1, <1>3
  <2> QED BY <2>1, <1>7, <1>8
<1> QED
  BY <1>3, <1>9, <1>10, <1>11 DEF Sound, r, q

(* What prune pops is all that has expired, and nothing else: the queue is in
   time order, so that no expired item hides behind a live one
   (anti_replay.rs:69-80). *)
LEMMA PruneCut ==
    ASSUME NEW s, NEW t \in Nat, Sound(s, t)
    PROVE  \E n \in 0..Len(s.queue) :
              /\ Prune(s, t) = PopFront(s, n)
              /\ \A i \in 1..n : t - s.queue[i].at > TimeWindow
              /\ \A i \in (n + 1)..Len(s.queue) : t - s.queue[i].at <= TimeWindow
<1> DEFINE q == s.queue
           live == LiveItems(q, t)
           n == ExpiredPrefix(q, t)
<1>1. Len(q) \in Nat /\ \A i \in 1..Len(q) : q[i].at \in Nat
  BY QueueItems DEF Sound
<1>2. \A i \in 1..Len(q) : \A j \in 1..i : q[j].at <= q[i].at
  BY DEF Sound, Ordered
<1>3. Prune(s, t) = PopFront(s, n)
  BY DEF Prune
<1>4. live = {i \in 1..Len(q) : t - q[i].at <= TimeWindow}
  BY DEF LiveItems
<1>5. n = IF live = {} THEN Len(q) ELSE Min(live) - 1
  BY DEF ExpiredPrefix
<1> HIDE DEF q, live, n
<1>6. CASE live = {}
  <2>1. n = Len(q)
    BY <1>5, <1>6
  <2>2. \A i \in 1..Len(q) : t - q[i].at > TimeWindow
    BY <1>1, <1>4, <1>6, StoreAssumption
  <2> QED BY <1>1, <1>3, <2>1, <2>2 DEF q
<1>7. CASE live # {}
  <2>1. live \in SUBSET Nat
    BY <1>4
  <2>2. Min(live) \in live /\ \A i \in live : Min(live) <= i
    BY <1>7, <2>1, MinIsLeast
  <2>3. Min(live) \in 1..Len(q) /\ t - q[Min(live)].at <= TimeWindow /\ n = Min(live) - 1
    BY <1>4, <1>5, <1>7, <2>2
  <2>4. n \in 0..Len(q)
    BY <1>1, <2>3
  <2>5. ASSUME NEW i \in 1..n PROVE t - q[i].at > TimeWindow
    <3>1. i \in 1..Len(q) /\ ~ (Min(live) <= i)
      BY <1>1, <2>3
    <3>2. i \notin live
      BY <3>1, <2>2
    <3> QED BY <1>1, <1>4, <3>1, <3>2, StoreAssumption
  <2>6. ASSUME NEW i \in (n + 1)..Len(q) PROVE t - q[i].at <= TimeWindow
    <3>1. i \in 1..Len(q) /\ Min(live) \in 1..i
      BY <1>1, <2>3
    <3>2. q[Min(live)].at <= q[i].at
      BY <1>2, <3>1
    <3>3. q[Min(live)].at \in Nat /\ q[i].at \in Nat
      BY <1>1, <2>3, <3>1
    <3> QED BY <2>3, <3>2, <3>3, StoreAssumption
  <2> QED BY <1>3, <2>4, <2>5, <2>6 DEF q
<1> QED
  BY <1>6, <1>7

(* The map has as many keys as the queue has items, and the items are all
   different. *)
LEMMA Counted ==
    ASSUME NEW s, NEW t, Sound(s, t)
    PROVE  /\ IsFiniteSet(DOMAIN s.entries) /\ Cardinality(DOMAIN s.entries) = Len(s.queue)
           /\ IsFiniteSet(Items(s)) /\ Cardinality(Items(s)) = Len(s.queue)
<1> DEFINE q == s.queue
           f == [i \in 1..Len(q) |-> q[i].key]
           g == [i \in 1..Len(q) |-> q[i]]
<1>1. Len(q) \in Nat
  BY QueueItems DEF Sound
<1>2. IsFiniteSet(1..Len(q)) /\ Cardinality(1..Len(q)) = Len(q)
  <2> HIDE DEF q
  <2>1. IsFiniteSet(1..Len(q)) /\ Cardinality(1..Len(q)) = IF 1 > Len(q) THEN 0 ELSE Len(q) - 1 + 1
    BY <1>1, FS_Interval
  <2> QED BY <1>1, <2>1
<1>3. /\ {q[i].key : i \in 1..Len(q)} = DOMAIN s.entries
      /\ \A i, j \in 1..Len(q) : q[i].key = q[j].key => i = j
  BY DEF Sound, Matched
<1>4. {q[i] : i \in 1..Len(q)} = Items(s)
  BY DEF Items
<1> HIDE DEF q
<1>5. f \in Bijection(1..Len(q), DOMAIN s.entries)
  BY <1>3 DEF Bijection, Injection, IsInjective, Surjection
<1>6. g \in Bijection(1..Len(q), Items(s))
  <2>1. \A i, j \in 1..Len(q) : q[i] = q[j] => i = j
    BY <1>3
  <2> QED BY <1>4, <2>1 DEF Bijection, Injection, IsInjective, Surjection
<1> HIDE DEF f, g
<1>7. ExistsBijection(1..Len(q), DOMAIN s.entries) /\ ExistsBijection(1..Len(q), Items(s))
  BY <1>5, <1>6 DEF ExistsBijection
<1> QED
  BY <1>2, <1>7, FS_Bijection DEF q

(* A full store makes room by dropping the front of its queue, and nothing more:
   that key is really in the map (anti_replay.rs:83-89). *)
LEMMA MakeRoomCut ==
    ASSUME NEW s, NEW t, Sound(s, t)
    PROVE  /\ Len(s.queue) < Capacity => MakeRoom(s) = s
           /\ Len(s.queue) >= Capacity =>
                MakeRoom(s) = PopFront(s, IF Len(s.queue) = 0 THEN 0 ELSE 1)
<1> DEFINE mapped == {i \in 1..Len(s.queue) : Contains(s, s.queue[i].key)}
<1>1. Cardinality(DOMAIN s.entries) = Len(s.queue) /\ Len(s.queue) \in Nat
  BY Counted, QueueItems DEF Sound
<1>2. Len(s.queue) < Capacity => MakeRoom(s) = s
  BY <1>1, StoreAssumption DEF MakeRoom
<1>3. ASSUME Len(s.queue) >= Capacity
      PROVE  MakeRoom(s) = PopFront(s, IF Len(s.queue) = 0 THEN 0 ELSE 1)
  <2>1. mapped = 1..Len(s.queue)
    BY DEF Contains, Sound, Matched
  <2>2. MakeRoom(s) = PopFront(s, IF mapped = {} THEN Len(s.queue) ELSE Min(mapped))
    BY <1>1, <1>3 DEF MakeRoom, EvictOldest
  <2> HIDE DEF mapped
  <2>3. CASE Len(s.queue) = 0
    <3>1. mapped = {}
      BY <2>1, <2>3
    <3> QED BY <2>2, <2>3, <3>1
  <2>4. CASE Len(s.queue) # 0
    <3>1. 1 \in mapped /\ mapped \in SUBSET Nat /\ \A i \in mapped : 1 <= i
      BY <1>1, <2>1, <2>4
    <3>2. Min(mapped) \in mapped /\ Min(mapped) <= 1
      BY <3>1, MinIsLeast
    <3>3. Min(mapped) = 1
      <4>1. Min(mapped) \in Nat /\ 1 <= Min(mapped)
        BY <3>1, <3>2
      <4> QED BY <4>1, <3>2
    <3> QED BY <2>2, <2>4, <3>1, <3>3
  <2> QED BY <2>3, <2>4
<1> QED
  BY <1>2, <1>3

(* Recording a key that the map does not hold keeps map and queue in step
   (anti_replay.rs:63-64). *)
LEMMA InsertKeeps ==
    ASSUME NEW s, NEW t \in Nat, Sound(s, t), NEW key \in Keys, ~ Contains(s, key)
    PROVE  /\ Sound(Insert(s, key, t), t)
           /\ Len(Insert(s, key, t).queue) = Len(s.queue) + 1
           /\ \A i \in 1..Len(s.queue) : Insert(s, key, t).queue[i] = s.queue[i]
           /\ Insert(s, key, t).queue[Len(s.queue) + 1] = [key |-> key, at |-> t]
<1> DEFINE r == Insert(s, key, t)
           q == s.queue
           new == [key |-> key, at |-> t]
<1>1. q \in Seq(Item) /\ Len(q) \in Nat /\ \A i \in 1..Len(q) : q[i].at \in Nat
  BY QueueItems DEF Sound, Typed
<1>2. new \in Item /\ new.key = key /\ new.at = t
  BY DEF Item
<1>3. r.queue = Append(q, new)
  BY DEF Insert
<1>4. /\ DOMAIN r.entries = DOMAIN s.entries \cup {key}
      /\ \A k \in DOMAIN s.entries \cup {key} :
            r.entries[k] = IF k = key THEN t ELSE s.entries[k]
  BY DEF Insert
<1>5. key \notin DOMAIN s.entries
  BY DEF Contains
<1>6. /\ DOMAIN s.entries \subseteq Keys
      /\ \A k \in DOMAIN s.entries : s.entries[k] \in Nat
  BY DEF Sound, Typed
<1>7. /\ {q[i].key : i \in 1..Len(q)} = DOMAIN s.entries
      /\ \A i \in 1..Len(q) :
            /\ s.entries[q[i].key] = q[i].at
            /\ \A j \in 1..Len(q) : q[i].key = q[j].key => i = j
  BY DEF Sound, Matched
<1>8. \A i \in 1..Len(q) : q[i].at <= t /\ \A j \in 1..i : q[j].at <= q[i].at
  BY DEF Sound, Ordered
<1> HIDE DEF r, q, new
<1>9. /\ r.queue \in Seq(Item) /\ Len(r.queue) = Len(q) + 1
      /\ \A i \in 1..Len(q) : r.queue[i] = q[i]
      /\ r.queue[Len(q) + 1] = new
  BY <1>1, <1>2, <1>3
<1>10. \A i \in 1..Len(r.queue) : i \in 1..Len(q) \/ i = Len(q) + 1
  BY <1>1, <1>9
<1>11. Typed(r)
  BY <1>4, <1>6, <1>9 DEF Typed
<1>12. Matched(r)
  <2>1. \A i \in 1..Len(q) : i \in 1..Len(r.queue) /\ r.queue[i].key \in DOMAIN s.entries
    BY <1>1, <1>7, <1>9
  <2>2. Len(q) + 1 \in 1..Len(r.queue) /\ r.queue[Len(q) + 1].key = key
    BY <1>1, <1>2, <1>9
  <2>3. {r.queue[i].key : i \in 1..Len(r.queue)} = DOMAIN r.entries
    <3>1. ASSUME NEW i \in 1..Len(r.queue) PROVE r.queue[i].key \in DOMAIN r.entries
      BY <1>4, <1>10, <2>1, <2>2
    <3>2. ASSUME NEW k \in DOMAIN r.entries
          PROVE  \E i \in 1..Len(r.queue) : r.queue[i].key = k
      <4>1. CASE k = key
        BY <4>1, <2>2
      <4>2. CASE k \in DOMAIN s.entries
        <5>1. PICK i \in 1..Len(q) : q[i].key = k
          BY <4>2, <1>7
        <5> QED BY <5>1, <2>1, <1>9
      <4> QED BY <4>1, <4>2, <1>4
    <3> QED BY <3>1, <3>2
  <2>4. \A i \in 1..Len(r.queue) : r.entries[r.queue[i].key] = r.queue[i].at
    <3>1. \A i \in 1..Len(q) : r.entries[r.queue[i].key] = r.queue[i].at
      BY <1>4, <1>5, <1>7, <1>9, <2>1
    <3>2. r.entries[r.queue[Len(q) + 1].key] = r.queue[Len(q) + 1].at
      BY <1>2, <1>4, <1>9
    <3> QED BY <3>1, <3>2, <1>10
  <2>5. ASSUME NEW i \in 1..Len(r.queue), NEW j \in 1..Len(r.queue),
               r.queue[i].key = r.queue[j].key
        PROVE  i = j
    <3>1. CASE i \in 1..Len(q) /\ j \in 1..Len(q)
      BY <2>5, <3>1, <1>7, <1>9
    <3>2. CASE i = Len(q) + 1 /\ j = Len(q) + 1
      BY <3>2
    <3>3. CASE i = Len(q) + 1 /\ j \in 1..Len(q)
      BY <2>5, <3>3, <2>1, <2>2, <1>5
    <3>4. CASE i \in 1..Len(q) /\ j = Len(q) + 1
      BY <2>5, <3>4, <2>1, <2>2, <1>5
    <3> QED BY <3>1, <3>2, <3>3, <3>4, <1>10
  <2> QED BY <2>3, <2>4, <2>5 DEF Matched
<1>13. Ordered(r, t)
  <2> SUFFICES ASSUME NEW i \in 1..Len(r.queue), NEW j \in 1..i
               PROVE  r.queue[i].at <= t /\ r.queue[j].at <= r.queue[i].at
    <3>1. \A i \in 1..Len(r.queue) : i \in 1..i
      BY <1>1, <1>9
    <3> QED BY <3>1 DEF Ordered
  <2>1. CASE i \in 1..Len(q)
    <3>1. j \in 1..Len(q)
      BY <2>1, <1>1
    <3> QED BY <2>1, <3>1, <1>8, <1>9
  <2>2. CASE i = Len(q) + 1
    <3>1. r.queue[i].at = t
      BY <2>2, <1>2, <1>9
    <3>2. j \in 1..Len(q) \/ j = Len(q) + 1
      BY <2>2, <1>1
    <3>3. CASE j \in 1..Len(q)
      BY <3>1, <3>3, <1>8, <1>9
    <3>4. CASE j = Len(q) + 1
      BY <3>1, <3>4, <2>2
    <3> QED BY <3>1, <3>2, <3>3, <3>4
  <2> QED BY <2>1, <2>2, <1>10
<1> QED
  BY <1>9, <1>11, <1>12, <1>13 DEF Sound, r, q, new

(* n is the number of expired items at the front of queue q. *)
Cut(q, n, t) ==
    /\ n \in 0..Len(q)
    /\ \A i \in 1..n : t - q[i].at > TimeWindow
    /\ \A i \in (n + 1)..Len(q) : t - q[i].at <= TimeWindow

(* check_and_insert found key behind the n expired items and left queue r. *)
Refused(q, key, n, r) ==
    /\ \E i \in (n + 1)..Len(q) : q[i].key = key
    /\ Len(r) = Len(q) - n
    /\ \A i \in 1..(Len(q) - n) : r[i] = q[n + i]

(* check_and_insert did not find key, dropped the m items at the front (the n
   expired ones and the next one if the store was full) and left queue r. *)
Recorded(q, key, t, n, m, r) ==
    /\ \A i \in (n + 1)..Len(q) : q[i].key # key
    /\ m \in n..Len(q)
    /\ \/ m = n /\ (Len(q) - n < Capacity \/ n = Len(q))
       \/ m = n + 1 /\ Len(q) - n >= Capacity
    /\ Len(r) = Len(q) - m + 1
    /\ \A i \in 1..(Len(q) - m) : r[i] = q[m + i]
    /\ r[Len(q) - m + 1] = [key |-> key, at |-> t]

(* The two outcomes of check_and_insert (anti_replay.rs:49-66). *)
LEMMA Outcome ==
    ASSUME NEW s, NEW t \in Nat, Sound(s, t), NEW key \in Keys
    PROVE  /\ Sound(CheckAndInsert(s, key, t).store, t)
           /\ \E n \in 0..Len(s.queue) :
                 /\ Cut(s.queue, n, t)
                 /\ \/ /\ CheckAndInsert(s, key, t).fresh = FALSE
                       /\ Refused(s.queue, key, n, CheckAndInsert(s, key, t).store.queue)
                    \/ /\ CheckAndInsert(s, key, t).fresh = TRUE
                       /\ \E m \in Nat :
                             Recorded(s.queue, key, t, n, m,
                                      CheckAndInsert(s, key, t).store.queue)
<1> DEFINE q == s.queue
           c == CheckAndInsert(s, key, t)
           p == Prune(s, t)
<1>1. PICK n \in 0..Len(q) : p = PopFront(s, n) /\ Cut(q, n, t)
  BY PruneCut DEF Cut
<1>2. /\ Sound(p, t) /\ Len(p.queue) = Len(q) - n
      /\ \A i \in 1..(Len(q) - n) : p.queue[i] = q[n + i]
  BY <1>1, PopFrontKeeps
<1>3. Len(q) \in Nat /\ n \in Nat /\ n <= Len(q)
  <2>1. Len(q) \in Nat
    BY QueueItems DEF Sound
  <2> HIDE DEF q
  <2> QED BY <2>1
<1>4. Contains(p, key) <=> \E i \in 1..Len(p.queue) : p.queue[i].key = key
  BY <1>2 DEF Contains, Sound, Matched
<1>5. CASE Contains(p, key)
  <2>1. c.fresh = FALSE /\ c.store = p
    BY <1>5 DEF CheckAndInsert
  <2> HIDE DEF c, p, q
  <2>2. PICK i \in 1..Len(p.queue) : p.queue[i].key = key
    BY <1>4, <1>5
  <2>3. n + i \in (n + 1)..Len(q) /\ q[n + i].key = key
    BY <1>2, <1>3, <2>2
  <2>4. Refused(q, key, n, c.store.queue)
    BY <1>2, <2>1, <2>3 DEF Refused
  <2> QED BY <1>1, <1>2, <2>1, <2>4 DEF c, q
<1>6. CASE ~ Contains(p, key)
  <2> DEFINE room == MakeRoom(p)
  <2>1. c.fresh = TRUE /\ c.store = Insert(room, key, t)
    BY <1>6 DEF CheckAndInsert
  <2>2. \A i \in (n + 1)..Len(q) : q[i].key # key
    <3> HIDE DEF c, p, q
    <3> SUFFICES ASSUME NEW i \in (n + 1)..Len(q), q[i].key = key
                 PROVE  FALSE
      OBVIOUS
    <3>1. i - n \in 1..Len(p.queue) /\ n + (i - n) = i
      BY <1>2, <1>3
    <3> QED BY <3>1, <1>2, <1>4, <1>6
  <2>3. \E k \in 0..Len(p.queue) :
           /\ Sound(room, t) /\ ~ Contains(room, key)
           /\ \/ k = 0 /\ (Len(p.queue) < Capacity \/ Len(p.queue) = 0)
              \/ k = 1 /\ Len(p.queue) >= Capacity
           /\ Len(room.queue) = Len(p.queue) - k
           /\ \A i \in 1..(Len(p.queue) - k) : room.queue[i] = p.queue[k + i]
    <3>1. Len(p.queue) \in Nat
      BY <1>2, QueueItems DEF Sound
    <3> HIDE DEF p
    <3>2. CASE Len(p.queue) < Capacity
      <4>1. room = p
        BY <1>2, <3>2, MakeRoomCut
      <4> WITNESS 0 \in 0..Len(p.queue)
      <4>2. \A i \in 1..(Len(p.queue) - 0) : p.queue[0 + i] = p.queue[i]
        BY <3>1
      <4> QED BY <1>2, <1>6, <3>1, <3>2, <4>1, <4>2
    <3>3. CASE Len(p.queue) >= Capacity
      <4> DEFINE k == IF Len(p.queue) = 0 THEN 0 ELSE 1
      <4>1. room = PopFront(p, k)
        BY <1>2, <3>3, MakeRoomCut
      <4>2. k \in 0..Len(p.queue) /\ (k = 0 => Len(p.queue) = 0) /\ (k = 0 \/ k = 1)
        BY <3>1
      <4> HIDE DEF k, room
      <4>3. /\ Sound(room, t) /\ Len(room.queue) = Len(p.queue) - k
            /\ \A i \in 1..(Len(p.queue) - k) : room.queue[i] = p.queue[k + i]
        BY <1>2, <4>1, <4>2, PopFrontKeeps
      <4>4. ~ Contains(room, key)
        BY <1>6, <4>1 DEF Contains, PopFront
      <4> QED BY <3>3, <4>2, <4>3, <4>4 DEF room
    <3> QED BY <3>1, <3>2, <3>3, StoreAssumption
  <2> HIDE DEF room, c, p, q
  <2>4. PICK k \in 0..Len(p.queue) :
           /\ Sound(room, t) /\ ~ Contains(room, key)
           /\ \/ k = 0 /\ (Len(p.queue) < Capacity \/ Len(p.queue) = 0)
              \/ k = 1 /\ Len(p.queue) >= Capacity
           /\ Len(room.queue) = Len(p.queue) - k
           /\ \A i \in 1..(Len(p.queue) - k) : room.queue[i] = p.queue[k + i]
    BY <2>3
  <2>5. /\ Sound(c.store, t)
        /\ Len(c.store.queue) = Len(room.queue) + 1
        /\ \A i \in 1..Len(room.queue) : c.store.queue[i] = room.queue[i]
        /\ c.store.queue[Len(room.queue) + 1] = [key |-> key, at |-> t]
    <3>1. Sound(room, t) /\ ~ Contains(room, key)
      BY <2>4
    <3>2. /\ Sound(Insert(room, key, t), t)
          /\ Len(Insert(room, key, t).queue) = Len(room.queue) + 1
          /\ \A i \in 1..Len(room.queue) : Insert(room, key, t).queue[i] = room.queue[i]
          /\ Insert(room, key, t).queue[Len(room.queue) + 1] = [key |-> key, at |-> t]
      BY <3>1, InsertKeeps
    <3> QED BY <2>1, <3>2
  <2>6. /\ n + k \in Nat /\ n + k \in n..Len(q) /\ Len(p.queue) = Len(q) - n
        /\ Len(room.queue) = Len(q) - (n + k)
        /\ Len(p.queue) = 0 => n = Len(q)
        /\ k = 0 => n + k = n
    BY <1>2, <1>3, <2>4
  <2>7. \A i \in 1..(Len(q) - (n + k)) : c.store.queue[i] = q[(n + k) + i]
    <3> TAKE i \in 1..(Len(q) - (n + k))
    <3>1. /\ i \in 1..Len(room.queue) /\ i \in 1..(Len(p.queue) - k)
          /\ k + i \in 1..(Len(q) - n) /\ (n + k) + i = n + (k + i)
      BY <1>3, <2>6
    <3> QED BY <3>1, <1>2, <2>4, <2>5
  <2>8. Recorded(q, key, t, n, n + k, c.store.queue)
    <3>1. \/ n + k = n /\ (Len(q) - n < Capacity \/ n = Len(q))
          \/ n + k = n + 1 /\ Len(q) - n >= Capacity
      BY <2>4, <2>6
    <3>2. Len(c.store.queue) = Len(q) - (n + k) + 1
      BY <2>5, <2>6
    <3>3. c.store.queue[Len(q) - (n + k) + 1] = [key |-> key, at |-> t]
      BY <2>5, <2>6
    <3> QED BY <2>2, <2>6, <2>7, <3>1, <3>2, <3>3 DEF Recorded
  <2> QED BY <1>1, <2>1, <2>5, <2>6, <2>8 DEF c, q
<1> QED
  BY <1>5, <1>6

------------------------------------------------------------------------------
Room == IF Capacity = 0 THEN 1 ELSE Capacity

(* The inductive invariant, in two parts.  The store is sound and within its
   bound ... *)
StoreInv ==
    /\ now \in Nat
    /\ accepted \in Seq(Item)
    /\ fresh \in BOOLEAN
    /\ Sound(store, now)
    /\ Len(store.queue) <= Room

(* ... and it is the latest part of all insertions ever made: what it no longer
   holds is older than the window or Capacity insertions back. *)
Forgotten == Len(accepted) - Len(store.queue)

HistoryInv ==
    /\ Forgotten \in Nat
    /\ \A i \in 1..Len(store.queue) : store.queue[i] = accepted[Forgotten + i]
    /\ \A i \in 1..Forgotten : \/ now - accepted[i].at > TimeWindow
                               \/ Len(accepted) - i >= Capacity
    /\ ReplayNeedsForgetting

(* AntiReplayStore::new (anti_replay.rs) makes an empty store. *)
LEMMA InitStore == Init => StoreInv /\ HistoryInv
<1> SUFFICES ASSUME Init PROVE StoreInv /\ HistoryInv
  OBVIOUS
<1>1. /\ store.queue = << >> /\ DOMAIN store.entries = {} /\ now = 0
      /\ accepted = << >> /\ fresh = TRUE
  BY DEF Init, EmptyStore
<1>2. Len(store.queue) = 0 /\ Len(accepted) = 0 /\ 1..0 = {}
  BY <1>1
<1>3. Typed(store)
  BY <1>1 DEF Typed
<1>4. Matched(store)
  BY <1>1, <1>2 DEF Matched
<1>5. Ordered(store, now)
  BY <1>2 DEF Ordered
<1>6. StoreInv
  BY <1>1, <1>2, <1>3, <1>4, <1>5, StoreAssumption DEF StoreInv, Sound, Room
<1>7. Forgotten = 0
  BY <1>2 DEF Forgotten
<1>8. HistoryInv
  BY <1>2, <1>7 DEF HistoryInv, ReplayNeedsForgetting
<1> QED
  BY <1>6, <1>8

(* Every action leaves the store sound and bounded. *)
LEMMA StepStore == StoreInv /\ [Next]_vars => StoreInv'
<1> SUFFICES ASSUME StoreInv, [Next]_vars PROVE StoreInv'
  OBVIOUS
<1> USE DEF StoreInv
<1>1. CASE Tick
  <2>1. store' = store /\ accepted' = accepted /\ fresh' = fresh /\ now' = now + 1
    BY <1>1 DEF Tick
  <2>2. \A i \in 1..Len(store.queue) : store.queue[i].at <= now + 1
    <3>1. \A i \in 1..Len(store.queue) : store.queue[i].at \in Nat /\ store.queue[i].at <= now
      BY QueueItems DEF Sound, Ordered
    <3> QED BY <3>1
  <2>3. Sound(store, now + 1)
    BY <2>2 DEF Sound, Ordered
  <2> QED BY <2>1, <2>3
<1>2. ASSUME NEW key \in Keys, Offer(key) PROVE StoreInv'
  <2> DEFINE c == CheckAndInsert(store, key, now)
  <2>1. /\ store' = c.store /\ fresh' = c.fresh /\ now' = now
        /\ accepted' = IF c.fresh THEN Append(accepted, [key |-> key, at |-> now])
                                  ELSE accepted
    BY <1>2 DEF Offer
  <2>2. Sound(c.store, now)
    BY Outcome
  <2>3. PICK n \in 0..Len(store.queue) :
           \/ c.fresh = FALSE /\ Refused(store.queue, key, n, c.store.queue)
           \/ c.fresh = TRUE /\ \E m \in Nat :
                 Recorded(store.queue, key, now, n, m, c.store.queue)
    BY Outcome
  <2>4. Len(store.queue) \in Nat
    BY QueueItems DEF Sound
  <2> HIDE DEF c
  <2>5. Len(c.store.queue) <= Room
    <3>1. CASE Refused(store.queue, key, n, c.store.queue)
      BY <3>1, <2>4, StoreAssumption DEF Refused, Room
    <3>2. CASE \E m \in Nat : Recorded(store.queue, key, now, n, m, c.store.queue)
      <4>1. PICK m \in Nat : /\ m \in n..Len(store.queue)
                             /\ \/ m = n /\ (Len(store.queue) - n < Capacity \/ n = Len(store.queue))
                                \/ m = n + 1 /\ Len(store.queue) - n >= Capacity
                             /\ Len(c.store.queue) = Len(store.queue) - m + 1
        BY <3>2 DEF Recorded
      <4> QED BY <4>1, <2>4, StoreAssumption DEF Room
    <3> QED BY <2>3, <3>1, <3>2
  <2>6. c.fresh \in BOOLEAN
    BY <2>3
  <2>7. accepted' \in Seq(Item)
    <3>1. [key |-> key, at |-> now] \in Item
      BY DEF Item
    <3> QED BY <2>1, <3>1
  <2> QED BY <2>1, <2>2, <2>5, <2>6, <2>7
<1>3. CASE UNCHANGED vars
  BY <1>3 DEF vars
<1> QED
  BY <1>1, <1>2, <1>3 DEF Next

(* Every action leaves behind only what was forgotten for a reason. *)
LEMMA StepHistory == StoreInv /\ HistoryInv /\ [Next]_vars => HistoryInv'
<1> SUFFICES ASSUME StoreInv, HistoryInv, [Next]_vars PROVE HistoryInv'
  OBVIOUS
<1> DEFINE q == store.queue
           a == accepted
           d == Forgotten
<1>1. /\ now \in Nat /\ a \in Seq(Item) /\ Len(a) \in Nat
      /\ \A i \in 1..Len(a) : a[i].at \in Nat
  <2>1. now \in Nat /\ a \in Seq(Item)
    BY DEF StoreInv
  <2> HIDE DEF a
  <2>2. Len(a) \in Nat /\ \A i \in 1..Len(a) : a[i] \in Item
    BY <2>1
  <2> QED BY <2>1, <2>2 DEF Item
<1>2. /\ d \in Nat /\ d = Len(a) - Len(q)
      /\ \A i \in 1..Len(q) : q[i] = a[d + i]
      /\ \A i \in 1..d : now - a[i].at > TimeWindow \/ Len(a) - i >= Capacity
      /\ \A i, j \in 1..Len(a) :
            (i < j /\ a[i].key = a[j].key)
            => a[j].at - a[i].at > TimeWindow \/ j - i > Capacity
  BY DEF HistoryInv, Forgotten, ReplayNeedsForgetting
<1>3. Len(q) \in Nat
  BY QueueItems DEF StoreInv, Sound
<1>7. HistoryInv' = ( /\ d' \in Nat
                      /\ \A i \in 1..Len(q') : q'[i] = a'[d' + i]
                      /\ \A i \in 1..d' : \/ now' - a'[i].at > TimeWindow
                                          \/ Len(a') - i >= Capacity
                      /\ \A i, j \in 1..Len(a') :
                            (i < j /\ a'[i].key = a'[j].key)
                            => \/ a'[j].at - a'[i].at > TimeWindow
                               \/ j - i > Capacity )
  BY DEF HistoryInv, ReplayNeedsForgetting
<1>4. CASE Tick
  <2>1. q' = q /\ a' = a /\ d' = d /\ now' = now + 1
    BY <1>4 DEF Tick, Forgotten
  <2> HIDE DEF q, a, d
  <2>2. \A i \in 1..d : i \in 1..Len(a)
    BY <1>1, <1>2, <1>3
  <2>3. \A i \in 1..d : now + 1 - a[i].at > TimeWindow \/ Len(a) - i >= Capacity
    <3> TAKE i \in 1..d
    <3>1. a[i].at \in Nat /\ (now - a[i].at > TimeWindow \/ Len(a) - i >= Capacity)
      BY <1>1, <1>2, <2>2
    <3> QED BY <3>1, <1>1, StoreAssumption
  <2>4. \A i \in 1..d' : now' - a'[i].at > TimeWindow \/ Len(a') - i >= Capacity
    <3> TAKE i \in 1..d'
    <3>1. i \in 1..d /\ a'[i] = a[i] /\ Len(a') = Len(a)
      BY <2>1
    <3>2. now' = now + 1
      BY <2>1
    <3>3. a[i].at \in Nat /\ (now + 1 - a[i].at > TimeWindow \/ Len(a) - i >= Capacity)
      BY <1>1, <2>2, <2>3, <3>1
    <3> QED BY <1>1, <3>1, <3>2, <3>3, StoreAssumption
  <2>5. \A i \in 1..Len(q') : q'[i] = a'[d' + i]
    BY <1>2, <2>1
  <2>6. \A i, j \in 1..Len(a') : (i < j /\ a'[i].key = a'[j].key)
                                 => a'[j].at - a'[i].at > TimeWindow \/ j - i > Capacity
    BY <1>2, <2>1
  <2>7. d' \in Nat
    BY <1>2, <2>1
  <2> QED BY <1>7, <2>4, <2>5, <2>6, <2>7
<1>5. ASSUME NEW key \in Keys, Offer(key) PROVE HistoryInv'
  <2> DEFINE c == CheckAndInsert(store, key, now)
             new == [key |-> key, at |-> now]
  <2>1. /\ store' = c.store /\ now' = now
        /\ a' = IF c.fresh THEN Append(a, new) ELSE a
    BY <1>5 DEF Offer
  <2>2. PICK n \in 0..Len(q) :
           /\ Cut(q, n, now)
           /\ \/ c.fresh = FALSE /\ Refused(q, key, n, c.store.queue)
              \/ c.fresh = TRUE /\ \E m \in Nat : Recorded(q, key, now, n, m, c.store.queue)
    BY Outcome DEF StoreInv
  <2>3. q' = c.store.queue /\ d' = Len(a') - Len(q')
    BY <2>1 DEF Forgotten
  <2>4. new.at = now /\ new.key = key
    OBVIOUS
  <2> HIDE DEF q, a, d, c, new
  <2>6. \A i \in 1..n : now - a[d + i].at > TimeWindow
    <3>1. \A i \in 1..n : i \in 1..Len(q)
      BY <1>3
    <3> QED BY <2>2, <3>1, <1>2 DEF Cut
  <2>7. \A i \in 1..(d + n) : \/ i \in 1..d
                              \/ i - d \in 1..n /\ d + (i - d) = i
    BY <1>2, <1>3
  <2>8. \A i \in 1..(d + n) : now - a[i].at > TimeWindow \/ Len(a) - i >= Capacity
    BY <1>2, <2>6, <2>7
  <2>9. CASE c.fresh = FALSE /\ Refused(q, key, n, c.store.queue)
    <3>1. a' = a /\ Len(q') = Len(q) - n /\ \A i \in 1..(Len(q) - n) : q'[i] = q[n + i]
      BY <2>1, <2>3, <2>9 DEF Refused
    <3>2. d' = d + n /\ d' \in Nat
      BY <1>1, <1>2, <1>3, <2>3, <3>1
    <3>3. ASSUME NEW i \in 1..Len(q') PROVE q'[i] = a'[d' + i]
      <4>1. i \in 1..(Len(q) - n) /\ n + i \in 1..Len(q) /\ d' + i = d + (n + i)
        BY <1>2, <1>3, <3>1, <3>2
      <4> QED BY <4>1, <3>1, <1>2
    <3> QED BY <1>2, <2>1, <1>7, <2>8, <3>1, <3>2, <3>3
  <2>10. ASSUME c.fresh = TRUE, NEW m \in Nat, Recorded(q, key, now, n, m, c.store.queue)
         PROVE  HistoryInv'
    <3>1. a' = Append(a, new)
      BY <2>1, <2>10
    <3>2. /\ \A i \in (n + 1)..Len(q) : q[i].key # key
          /\ m \in n..Len(q)
          /\ m = n \/ (m = n + 1 /\ Len(q) - n >= Capacity)
          /\ Len(q') = Len(q) - m + 1
          /\ \A i \in 1..(Len(q) - m) : q'[i] = q[m + i]
          /\ q'[Len(q) - m + 1] = new
      BY <2>3, <2>10 DEF Recorded, new
    <3>3. /\ Len(a') = Len(a) + 1 /\ a'[Len(a) + 1] = new
          /\ \A i \in 1..Len(a) : a'[i] = a[i]
      BY <1>1, <3>1
    <3>4. d' = d + m /\ d' \in Nat /\ d + m <= Len(a)
      BY <1>1, <1>2, <1>3, <2>3, <3>2, <3>3
    <3>5. ASSUME NEW i \in 1..Len(q') PROVE q'[i] = a'[d' + i]
      <4>1. CASE i \in 1..(Len(q) - m)
        <5>1. m + i \in 1..Len(q) /\ d' + i = d + (m + i) /\ d' + i \in 1..Len(a)
          BY <1>1, <1>2, <1>3, <3>2, <3>4, <4>1
        <5> QED BY <4>1, <5>1, <3>2, <3>3, <1>2
      <4>2. CASE i = Len(q) - m + 1
        <5>1. d' + i = Len(a) + 1
          BY <1>1, <1>2, <1>3, <3>4, <4>2
        <5> QED BY <4>2, <5>1, <3>2, <3>3
      <4>3. i \in 1..(Len(q) - m) \/ i = Len(q) - m + 1
        BY <1>3, <3>2
      <4> QED BY <4>1, <4>2, <4>3
    <3>6. ASSUME NEW i \in 1..d'
          PROVE  now' - a'[i].at > TimeWindow \/ Len(a') - i >= Capacity
      <4>1. i \in 1..Len(a) /\ a'[i] = a[i] /\ i \in Nat
        BY <1>1, <1>2, <1>3, <3>3, <3>4
      <4>2. CASE i \in 1..(d + n)
        <5>1. now - a[i].at > TimeWindow \/ Len(a) - i >= Capacity
          BY <2>8, <4>2
        <5> QED BY <5>1, <4>1, <1>1, <2>1, <3>3, StoreAssumption
      <4>3. CASE i \notin 1..(d + n)
        <5>1. i = d + n + 1 /\ Len(q) - n >= Capacity
          <6>1. n \in Nat /\ d \in Nat /\ i \in 1..(d + m)
            BY <1>2, <1>3, <3>4
          <6>2. m # n
            BY <4>3, <6>1
          <6> QED BY <4>3, <6>1, <6>2, <3>2
        <5> QED BY <5>1, <1>1, <1>2, <1>3, <3>3, StoreAssumption
      <4> QED BY <4>2, <4>3
    <3>7. ASSUME NEW i \in 1..Len(a'), NEW j \in 1..Len(a'), i < j, a'[i].key = a'[j].key
          PROVE  a'[j].at - a'[i].at > TimeWindow \/ j - i > Capacity
      <4>1. i \in 1..Len(a) /\ (j \in 1..Len(a) \/ j = Len(a) + 1)
        BY <1>1, <3>3, <3>7
      <4>2. CASE j \in 1..Len(a)
        BY <4>1, <4>2, <3>3, <3>7, <1>2
      <4>3. CASE j = Len(a) + 1
        <5>1. a'[j] = new /\ a'[i] = a[i] /\ a[i].key = key /\ a'[j].at = now
          BY <2>4, <3>3, <3>7, <4>1, <4>3
        <5>2. CASE i \in 1..(d + n)
          <6>1. now - a[i].at > TimeWindow \/ Len(a) - i >= Capacity
            BY <2>8, <5>2
          <6> QED BY <6>1, <4>1, <4>3, <5>1, <1>1, StoreAssumption
        <5>3. CASE i \notin 1..(d + n)
          <6>1. i - d \in (n + 1)..Len(q) /\ i - d \in 1..Len(q) /\ d + (i - d) = i
            BY <5>3, <4>1, <1>1, <1>2, <1>3
          <6>2. q[i - d].key = key
            BY <6>1, <5>1, <1>2
          <6> QED BY <6>1, <6>2, <3>2
        <5> QED BY <5>2, <5>3
      <4> QED BY <4>1, <4>2, <4>3
    <3> QED BY <1>7, <3>4, <3>5, <3>6, <3>7
  <2> QED BY <2>2, <2>9, <2>10
<1>6. CASE UNCHANGED vars
  <2>1. q' = q /\ a' = a /\ d' = d /\ now' = now
    BY <1>6 DEF vars, Forgotten
  <2> HIDE DEF q, a, d
  <2> QED BY <1>2, <1>7, <2>1
<1> QED
  BY <1>4, <1>5, <1>6 DEF Next

(* So both always hold. *)
LEMMA Invariants == Spec => [](StoreInv /\ HistoryInv)
<1>1. StoreInv /\ HistoryInv /\ [Next]_vars => (StoreInv /\ HistoryInv)'
  BY StepStore, StepHistory
<1> QED
  BY InitStore, <1>1, PTL DEF Spec

------------------------------------------------------------------------------
(* Whatever is offered and when, the map and the queue hold offered keys with
   times of the clock (anti_replay.rs:12-24). *)
THEOREM StoreTyped == Spec => []TypeOK
<1>1. StoreInv => TypeOK
  BY DEF StoreInv, Sound, Typed, TypeOK
<1> QED
  BY Invariants, <1>1, PTL

(* prune, evict_oldest and the insertion never let the map and the queue drift
   apart (anti_replay.rs:63-89). *)
THEOREM QueueAndMapAgree == Spec => []QueueMatchesEntries
<1>1. StoreInv => QueueMatchesEntries
  BY DEF StoreInv, Sound, Matched, QueueMatchesEntries
<1> QED
  BY Invariants, <1>1, PTL

(* The queue stays in time order, for any clock that does not run backwards
   (anti_replay.rs:71). *)
THEOREM QueueSorted == Spec => []QueueInTimeOrder
<1>1. StoreInv => QueueInTimeOrder
  BY DEF StoreInv, Sound, Ordered, QueueInTimeOrder
<1> QED
  BY Invariants, <1>1, PTL

(* The store is bounded, for every capacity, zero and one included
   (anti_replay.rs:59-64). *)
THEOREM StoreStaysBounded == Spec => []StoreBounded
<1>1. StoreInv => StoreBounded
  <2> SUFFICES ASSUME StoreInv PROVE StoreBounded
    OBVIOUS
  <2>1. Cardinality(DOMAIN store.entries) = Len(store.queue)
    BY Counted DEF StoreInv
  <2> QED BY <2>1 DEF StoreInv, StoreBounded, Room
<1> QED
  BY Invariants, <1>1, PTL

(* Within the time window and the capacity no key is accepted twice
   (check_and_insert, anti_replay.rs:49-66). *)
THEOREM NoEarlyReplay == Spec => []ReplayNeedsForgetting
<1>1. HistoryInv => ReplayNeedsForgetting
  BY DEF HistoryInv
<1> QED
  BY Invariants, <1>1, PTL

(* A call of check_and_insert on a sound store is a call on the abstract window:
   pruning the front of the queue forgets exactly the expired items, and popping
   its front forgets one of the oldest. *)
LEMMA OfferRefines ==
    ASSUME StoreInv, NEW key \in Keys, Offer(key)
    PROVE  Window!Refuse(key) \/ Window!Record(key)
<1> DEFINE q == store.queue
           c == CheckAndInsert(store, key, now)
           recent == Items(store)
           kept == {r \in recent : now - r.at <= TimeWindow}
           new == [key |-> key, at |-> now]
<1>1. store' = c.store /\ now' = now
  BY DEF Offer
<1>2. /\ now \in Nat /\ Len(q) \in Nat
      /\ \A i \in 1..Len(q) : q[i].at \in Nat /\ \A j \in 1..i : q[j].at <= q[i].at
  BY QueueItems DEF StoreInv, Sound, Ordered
<1>3. \A i, j \in 1..Len(q) : q[i].key = q[j].key => i = j
  BY DEF StoreInv, Sound, Matched
<1>4. PICK n \in 0..Len(q) :
         /\ Cut(q, n, now)
         /\ \/ c.fresh = FALSE /\ Refused(q, key, n, c.store.queue)
            \/ c.fresh = TRUE /\ \E m \in Nat : Recorded(q, key, now, n, m, c.store.queue)
  BY Outcome DEF StoreInv
<1>5. recent = {q[i] : i \in 1..Len(q)} /\ recent' = {c.store.queue[i] : i \in 1..Len(c.store.queue)}
  BY <1>1 DEF Items
<1>6. /\ Window!Refuse(key) <=> ( /\ \E r \in kept : r.key = key
                                  /\ recent' = kept
                                  /\ now' = now )
      /\ Window!Record(key) <=>
            ( /\ \A r \in kept : r.key # key
              /\ \/ /\ Cardinality(kept) < Capacity \/ kept = {}
                    /\ recent' = kept \cup {new}
                 \/ /\ Cardinality(kept) >= Capacity
                    /\ \E old \in kept :
                          /\ \A r \in kept : old.at <= r.at
                          /\ recent' = (kept \ {old}) \cup {new}
              /\ now' = now )
  <2>1. Window!Remembered = kept
    BY DEF Window!Remembered, Items
  <2>2. recent = {store.queue[i] : i \in 1..Len(store.queue)}
    BY DEF Items
  <2>3. recent' = {store'.queue[i] : i \in 1..Len(store'.queue)}
    BY DEF Items
  <2> HIDE DEF kept, recent
  <2>4. Window!Refuse(key) <=> ( /\ \E r \in kept : r.key = key
                                 /\ recent' = kept
                                 /\ now' = now )
    BY <2>1, <2>2, <2>3 DEF Window!Refuse
  <2>5. Window!Record(key) <=>
            ( /\ \A r \in kept : r.key # key
              /\ \/ /\ Cardinality(kept) < Capacity \/ kept = {}
                    /\ recent' = kept \cup {new}
                 \/ /\ Cardinality(kept) >= Capacity
                    /\ \E old \in kept :
                          /\ \A r \in kept : old.at <= r.at
                          /\ recent' = (kept \ {old}) \cup {new}
              /\ now' = now )
    <3>1. Window!Cardinality(kept) = Cardinality(kept)
      BY DEF Window!Cardinality, Cardinality
    <3> QED BY <2>1, <2>2, <2>3, <3>1 DEF Window!Record
  <2> QED BY <2>4, <2>5
<1>7. Cardinality(kept) = Len(q) - n
  <2>1. /\ Sound(PopFront(store, n), now)
        /\ Len(PopFront(store, n).queue) = Len(q) - n
        /\ \A i \in 1..(Len(q) - n) : PopFront(store, n).queue[i] = q[n + i]
    BY PopFrontKeeps DEF StoreInv
  <2>2. Cardinality(Items(PopFront(store, n))) = Len(q) - n
    BY <2>1, Counted
  <2>3. Items(PopFront(store, n)) = {q[n + i] : i \in 1..(Len(q) - n)}
    <3> DEFINE p == PopFront(store, n).queue
    <3>1. Items(PopFront(store, n)) = {p[i] : i \in 1..Len(p)}
      BY DEF Items
    <3> HIDE DEF p, q
    <3> QED BY <2>1, <3>1 DEF p
  <2>4. kept = {q[n + i] : i \in 1..(Len(q) - n)}
    <3> HIDE DEF q
    <3>1. ASSUME NEW i \in 1..(Len(q) - n) PROVE q[n + i] \in kept
      <4>1. n + i \in (n + 1)..Len(q) /\ n + i \in 1..Len(q)
        BY <1>2
      <4> QED BY <4>1, <1>4, <1>5 DEF Cut
    <3>2. ASSUME NEW r \in kept PROVE \E i \in 1..(Len(q) - n) : r = q[n + i]
      <4>1. PICK j \in 1..Len(q) : r = q[j] /\ now - q[j].at <= TimeWindow
        BY <1>5
      <4>2. j \notin 1..n
        <5>1. j \in 1..n => now - q[j].at > TimeWindow
          BY <1>4 DEF Cut
        <5> QED BY <4>1, <5>1, <1>2, StoreAssumption
      <4>3. j - n \in 1..(Len(q) - n) /\ n + (j - n) = j
        BY <4>2, <1>2
      <4> QED BY <4>1, <4>3
    <3> HIDE DEF kept
    <3> QED BY <3>1, <3>2
  <2> QED BY <2>2, <2>3, <2>4
<1> HIDE DEF q, c, new
<1>8. kept = {q[i] : i \in (n + 1)..Len(q)}
  <2>1. ASSUME NEW i \in (n + 1)..Len(q) PROVE q[i] \in kept
    <3>1. i \in 1..Len(q)
      BY <1>2
    <3> QED BY <3>1, <1>4, <1>5 DEF Cut
  <2>2. ASSUME NEW r \in kept PROVE \E i \in (n + 1)..Len(q) : r = q[i]
    <3>1. PICK j \in 1..Len(q) : r = q[j] /\ now - q[j].at <= TimeWindow
      BY <1>5
    <3>2. j \notin 1..n
      <4>1. j \in 1..n => now - q[j].at > TimeWindow
        BY <1>4 DEF Cut
      <4> QED BY <3>1, <4>1, <1>2, StoreAssumption
    <3>3. j \in (n + 1)..Len(q)
      BY <3>2, <1>2
    <3> QED BY <3>1, <3>3
  <2> HIDE DEF kept
  <2> QED BY <2>1, <2>2
<1> HIDE DEF kept, recent
<1>9. CASE Refused(q, key, n, c.store.queue)
  <2>1. PICK i \in (n + 1)..Len(q) : q[i].key = key
    BY <1>9 DEF Refused
  <2>2. \E r \in kept : r.key = key
    BY <2>1, <1>8
  <2>3. recent' = {q[n + j] : j \in 1..(Len(q) - n)}
    BY <1>5, <1>9 DEF Refused
  <2>4. recent' = kept
    <3>1. \A j \in 1..(Len(q) - n) : n + j \in (n + 1)..Len(q)
      BY <1>2
    <3>2. \A j \in (n + 1)..Len(q) : j - n \in 1..(Len(q) - n) /\ n + (j - n) = j
      BY <1>2
    <3> QED BY <2>3, <3>1, <3>2, <1>8
  <2> QED BY <1>1, <1>6, <2>2, <2>4
<1>10. ASSUME NEW m \in Nat, Recorded(q, key, now, n, m, c.store.queue)
       PROVE  Window!Record(key)
  <2>1. /\ \A i \in (n + 1)..Len(q) : q[i].key # key
        /\ m \in n..Len(q)
        /\ \/ m = n /\ (Len(q) - n < Capacity \/ n = Len(q))
           \/ m = n + 1 /\ Len(q) - n >= Capacity
        /\ Len(c.store.queue) = Len(q) - m + 1
        /\ \A i \in 1..(Len(q) - m) : c.store.queue[i] = q[m + i]
        /\ c.store.queue[Len(q) - m + 1] = new
    BY <1>10 DEF Recorded, new
  <2>2. \A r \in kept : r.key # key
    BY <2>1, <1>8
  <2>3. recent' = {q[i] : i \in (m + 1)..Len(q)} \cup {new}
    <3>1. \A j \in 1..Len(c.store.queue) : j \in 1..(Len(q) - m) \/ j = Len(q) - m + 1
      <4>1. Len(c.store.queue) = Len(q) - m + 1 /\ m <= Len(q)
        BY <1>2, <2>1
      <4> QED BY <4>1, <1>2
    <3>2. \A j \in 1..(Len(q) - m) : m + j \in (m + 1)..Len(q) /\ j \in 1..Len(c.store.queue)
      BY <1>2, <2>1
    <3>3. \A j \in (m + 1)..Len(q) : j - m \in 1..(Len(q) - m) /\ m + (j - m) = j
      BY <1>2, <2>1
    <3>4. Len(q) - m + 1 \in 1..Len(c.store.queue)
      BY <1>2, <2>1
    <3>5. ASSUME NEW r \in recent' PROVE r \in {q[i] : i \in (m + 1)..Len(q)} \cup {new}
      <4>1. PICK j \in 1..Len(c.store.queue) : r = c.store.queue[j]
        BY <1>5
      <4> QED BY <4>1, <3>1, <3>2, <2>1
    <3>6. ASSUME NEW j \in (m + 1)..Len(q) PROVE q[j] \in recent'
      <4>1. c.store.queue[j - m] = q[j] /\ j - m \in 1..Len(c.store.queue)
        BY <3>2, <3>3, <2>1
      <4> QED BY <4>1, <1>5
    <3>7. new \in recent'
      BY <3>4, <2>1, <1>5
    <3> QED BY <3>5, <3>6, <3>7
  <2>4. CASE m = n /\ (Len(q) - n < Capacity \/ n = Len(q))
    <3>1. recent' = kept \cup {new}
      BY <2>3, <2>4, <1>8
    <3>2. n = Len(q) => (n + 1)..Len(q) = {}
      BY <1>2
    <3>3. Cardinality(kept) < Capacity \/ kept = {}
      BY <2>4, <3>2, <1>7, <1>8
    <3> QED BY <1>1, <1>6, <2>2, <3>1, <3>3
  <2>5. CASE m = n + 1 /\ Len(q) - n >= Capacity
    <3>1. m \in 1..Len(q) /\ m \in (n + 1)..Len(q)
      BY <2>1, <2>5, <1>2
    <3>2. q[m] \in kept
      BY <3>1, <1>8
    <3>3. \A r \in kept : q[m].at <= r.at
      <4>1. \A i \in (n + 1)..Len(q) : i \in 1..Len(q) /\ m \in 1..i
        BY <2>5, <1>2
      <4> QED BY <4>1, <1>2, <1>8
    <3>4. kept \ {q[m]} = {q[i] : i \in (m + 1)..Len(q)}
      <4>1. \A i \in (n + 1)..Len(q) : i = m \/ i \in (m + 1)..Len(q)
        BY <2>5, <1>2
      <4>2. \A i \in (m + 1)..Len(q) : i \in (n + 1)..Len(q) /\ i # m /\ i \in 1..Len(q)
        BY <2>5, <1>2
      <4>3. \A i \in (m + 1)..Len(q) : q[i] # q[m]
        BY <4>2, <3>1, <1>3
      <4> QED BY <4>1, <4>2, <4>3, <1>8
    <3> QED BY <1>1, <1>6, <1>7, <2>2, <2>3, <2>5, <3>2, <3>3, <3>4
  <2> QED BY <2>1, <2>4, <2>5
<1> QED
  BY <1>4, <1>9, <1>10

(* For any keys, capacity and window the two containers behave as one window of
   remembered keys (src/anti_replay.rs). *)
THEOREM StoreImplementsWindow == Spec => ImplementsWindow
<1>1. Init => Window!Init
  <2> SUFFICES ASSUME Init PROVE Window!Init
    OBVIOUS
  <2>1. Len(store.queue) = 0 /\ now = 0
    BY DEF Init, EmptyStore
  <2> QED BY <2>1 DEF Window!Init
<1>2. StoreInv /\ [Next]_vars => [Window!Next]_(Window!vars)
  <2> SUFFICES ASSUME StoreInv, [Next]_vars PROVE [Window!Next]_(Window!vars)
    OBVIOUS
  <2>1. CASE Tick
    BY <2>1 DEF Tick, Window!Next, Window!Tick
  <2>2. ASSUME NEW key \in Keys, Offer(key) PROVE Window!Next
    BY <2>2, OfferRefines DEF Window!Next
  <2>3. CASE UNCHANGED vars
    BY <2>3 DEF vars, Window!vars
  <2> QED BY <2>1, <2>2, <2>3 DEF Next
<1> QED
  BY Invariants, <1>1, <1>2, PTL DEF Spec, ImplementsWindow, Window!Spec
==============================================================================
