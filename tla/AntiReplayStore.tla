--------------------------- MODULE AntiReplayStore ---------------------------
(***************************************************************************)
(* One AntiReplayStore (src/anti_replay.rs) driven by a caller: calls of   *)
(* check_and_insert in any order, at any time.  accepted is a history      *)
(* variable: every insertion ever made, in order.                          *)
(***************************************************************************)
EXTENDS AntiReplayOps

CONSTANTS
    Keys,          \* the (seq, message_id) pairs offered to the store
    MaxClock,      \* bound: the last tick of the clock
    MaxInserts     \* bound: the number of successful insertions

ASSUME BoundAssumption == MaxClock \in Nat /\ MaxInserts \in Nat

VARIABLES store, now, accepted, fresh

vars == <<store, now, accepted, fresh>>

Item == [key : Keys, at : Nat]

(* The map and the queue hold keys that were offered, with times of the clock. *)
TypeOK ==
    /\ store.queue \in Seq(Item)
    /\ DOMAIN store.entries \subseteq Keys
    /\ \A k \in DOMAIN store.entries : store.entries[k] \in Nat
    /\ now \in Nat
    /\ accepted \in Seq(Item)
    /\ fresh \in BOOLEAN

Init ==
    /\ store = EmptyStore
    /\ now = 0
    /\ accepted = << >>
    /\ fresh = TRUE

Offer(key) ==
    LET result == CheckAndInsert(store, key, now)
    IN /\ Len(accepted) < MaxInserts
       /\ store' = result.store
       /\ fresh' = result.fresh
       /\ accepted' = IF result.fresh
                      THEN Append(accepted, [key |-> key, at |-> now])
                      ELSE accepted
       /\ UNCHANGED now

Tick ==
    /\ now < MaxClock
    /\ now' = now + 1
    /\ UNCHANGED <<store, accepted, fresh>>

Next == Tick \/ \E key \in Keys : Offer(key)

Spec == Init /\ [][Next]_vars

------------------------------------------------------------------------------
(* The map and the queue hold the same keys with the same times, each key
   once: prune (anti_replay.rs:69-80) and evict_oldest (83-89) remove from both,
   so neither can leak an entry that the other has forgotten. *)
QueueMatchesEntries ==
    /\ {store.queue[i].key : i \in 1..Len(store.queue)} = DOMAIN store.entries
    /\ \A i \in 1..Len(store.queue) :
          /\ store.entries[store.queue[i].key] = store.queue[i].at
          /\ \A j \in 1..Len(store.queue) :
                store.queue[i].key = store.queue[j].key => i = j

(* The queue is sorted by time and never ahead of the clock: popping only
   from its front (anti_replay.rs:71) therefore finds every expired entry. *)
QueueInTimeOrder ==
    \A i \in 1..Len(store.queue) :
        /\ store.queue[i].at <= now
        /\ \A j \in 1..i : store.queue[j].at <= store.queue[i].at

(* The store never holds more than its capacity; a capacity of zero still
   leaves the one entry that check_and_insert pushes after evicting
   (anti_replay.rs:59-64). *)
StoreBounded ==
    Cardinality(DOMAIN store.entries) <= (IF Capacity = 0 THEN 1 ELSE Capacity)

(* A key is accepted a second time only after the time window has run out or
   more than Capacity insertions later: within both limits check_and_insert
   (anti_replay.rs:49-66) has not forgotten it. *)
ReplayNeedsForgetting ==
    \A i, j \in 1..Len(accepted) :
        (i < j /\ accepted[i].key = accepted[j].key)
        => \/ accepted[j].at - accepted[i].at > TimeWindow
           \/ j - i > Capacity

(* The map and queue together implement the abstract window, with the items
   of the queue as the remembered set. *)
Window == INSTANCE ReplayWindow
            WITH recent <- {store.queue[i] : i \in 1..Len(store.queue)}
ImplementsWindow == Window!Spec
==============================================================================
