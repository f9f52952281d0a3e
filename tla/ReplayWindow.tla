---------------------------- MODULE ReplayWindow -----------------------------
(***************************************************************************)
(* What src/anti_replay.rs promises, without its two containers: a set of  *)
(* remembered keys, each with the time it was recorded.  Offering a key    *)
(* first forgets everything older than the window, wherever it is kept;    *)
(* a remembered key is then refused, and a new one is recorded, one of the *)
(* oldest making room when the window is full.  (A window of capacity zero *)
(* has nothing to make room with, and keeps the key it has just recorded.) *)
(***************************************************************************)
EXTENDS Integers, FiniteSets

CONSTANTS Keys, Capacity, TimeWindow

VARIABLES recent, now

vars == <<recent, now>>

Remembered == {r \in recent : now - r.at <= TimeWindow}

Init == recent = {} /\ now = 0

Tick == now' = now + 1 /\ UNCHANGED recent

Refuse(key) ==
    /\ \E r \in Remembered : r.key = key
    /\ recent' = Remembered
    /\ UNCHANGED now

Record(key) ==
    /\ \A r \in Remembered : r.key # key
    /\ \/ /\ Cardinality(Remembered) < Capacity \/ Remembered = {}
          /\ recent' = Remembered \cup {[key |-> key, at |-> now]}
       \/ /\ Cardinality(Remembered) >= Capacity
          /\ \E old \in Remembered :
                /\ \A r \in Remembered : old.at <= r.at
                /\ recent' = (Remembered \ {old}) \cup {[key |-> key, at |-> now]}
    /\ UNCHANGED now

Next == Tick \/ \E key \in Keys : Refuse(key) \/ Record(key)

Spec == Init /\ [][Next]_vars
==============================================================================
