---------------------------- MODULE AntiReplayOps ----------------------------
(***************************************************************************)
(* The data structure of src/anti_replay.rs: a store that pairs a HashMap  *)
(* (entries: key -> time of insertion) with a VecDeque (queue: the same    *)
(* keys in order of insertion).  A store is a value here, and every method *)
(* is an operator from a store to a store, so that the store can be run on *)
(* its own (AntiReplayStore) and inside an endpoint (SecureChannel).       *)
(*                                                                         *)
(* A key stands for the pair (seq, message_id); time is a natural number   *)
(* of ticks of the monotonic clock behind Instant::now().                  *)
(***************************************************************************)
EXTENDS Integers, Sequences, FiniteSets, FiniteSetsExt

CONSTANTS
    Capacity,      \* self.capacity     (ANTI_REPLAY_CAPACITY by default)
    TimeWindow     \* self.time_window  (ANTI_REPLAY_TIME_WINDOW by default)

ASSUME StoreAssumption == Capacity \in Nat /\ TimeWindow \in Nat

EmptyStore == [entries |-> [k \in {} |-> 0], queue |-> << >>]

Contains(store, key) == key \in DOMAIN store.entries

(* Pop n items off the front of the queue and remove their keys from the map. *)
PopFront(store, n) ==
    LET popped == {store.queue[i].key : i \in 1..n}
    IN [entries |-> [k \in DOMAIN store.entries \ popped |-> store.entries[k]],
        queue   |-> SubSeq(store.queue, n + 1, Len(store.queue))]

(* A definition named Mut... is the one below it with a slip that its code
   could have had; the properties are checked to notice each of them. *)

MutLiveItems(queue, now) ==
    {i \in 1..Len(queue) : now - queue[i].at < TimeWindow}

(* Prune pops while the front is expired: it stops at the first live item. *)
LiveItems(queue, now) ==
    {i \in 1..Len(queue) : now - queue[i].at <= TimeWindow}

ExpiredPrefix(queue, now) ==
    IF LiveItems(queue, now) = {} THEN Len(queue)
                                  ELSE Min(LiveItems(queue, now)) - 1

MutPruneQueueOnly(store, now) ==
    [store EXCEPT !.queue = SubSeq(@, ExpiredPrefix(@, now) + 1, Len(@))]

Prune(store, now) == PopFront(store, ExpiredPrefix(store.queue, now))

(* evict_oldest pops until one popped key was really in the map. *)
EvictOldest(store) ==
    LET mapped == {i \in 1..Len(store.queue) : Contains(store, store.queue[i].key)}
    IN PopFront(store, IF mapped = {} THEN Len(store.queue) ELSE Min(mapped))

MutMakeRoom(store) ==
    IF Cardinality(DOMAIN store.entries) > Capacity
    THEN EvictOldest(store) ELSE store

MutMakeRoomEager(store) ==
    IF Cardinality(DOMAIN store.entries) + 1 >= Capacity
    THEN EvictOldest(store) ELSE store

MakeRoom(store) ==
    IF Cardinality(DOMAIN store.entries) >= Capacity
    THEN EvictOldest(store) ELSE store

MutInsertAtFront(store, key, now) ==
    [entries |-> [k \in DOMAIN store.entries \cup {key} |->
                    IF k = key THEN now ELSE store.entries[k]],
     queue   |-> <<[key |-> key, at |-> now]>> \o store.queue]

MutInsertExpiry(store, key, now) ==
    [entries |-> [k \in DOMAIN store.entries \cup {key} |->
                    IF k = key THEN now - TimeWindow ELSE store.entries[k]],
     queue   |-> Append(store.queue, [key |-> key, at |-> now - TimeWindow])]

Insert(store, key, now) ==
    [entries |-> [k \in DOMAIN store.entries \cup {key} |->
                    IF k = key THEN now ELSE store.entries[k]],
     queue   |-> Append(store.queue, [key |-> key, at |-> now])]

(* check_and_insert: its Boolean result and the store it leaves behind. *)
CheckAndInsert(store, key, now) ==
    LET pruned == Prune(store, now)
    IN IF Contains(pruned, key)
       THEN [fresh |-> FALSE, store |-> pruned]
       ELSE [fresh |-> TRUE,  store |-> Insert(MakeRoom(pruned), key, now)]
==============================================================================
