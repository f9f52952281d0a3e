------------------------ MODULE SecureChannelProofs --------------------------
(***************************************************************************)
(* Proofs about SecureChannel, for any number of ends that send, receive   *)
(* or do both, with any path counts, limits and bounds.                    *)
(*                                                                         *)
(* The heart of the argument is IInv: whatever has been delivered lies     *)
(* behind the ratchet and has no key left, and whatever key has been used  *)
(* lies behind the head of the ratchet and is not among the skipped keys.  *)
(* AtMostOnce alone is not inductive: it says nothing of the keys that a   *)
(* second delivery would need.                                             *)
(***************************************************************************)
EXTENDS SecureChannel, TLAPS

(* check_and_insert (anti_replay.rs:49-66) adds no key but the one it is given. *)
LEMMA StoreGrowsByKey ==
    ASSUME NEW store, NEW key, NEW t
    PROVE  DOMAIN CheckAndInsert(store, key, t).store.entries
             \subseteq DOMAIN store.entries \cup {key}
<1> DEFINE pruned == Prune(store, t)
<1>1. DOMAIN pruned.entries \subseteq DOMAIN store.entries
  BY DEF Prune, PopFront
<1>2. DOMAIN MakeRoom(pruned).entries \subseteq DOMAIN pruned.entries
  <2> HIDE DEF pruned
  <2> QED BY DEF MakeRoom, EvictOldest, PopFront
<1>3. DOMAIN Insert(MakeRoom(pruned), key, t).entries
        = DOMAIN MakeRoom(pruned).entries \cup {key}
  BY DEF Insert
<1> QED
  BY <1>1, <1>2, <1>3 DEF CheckAndInsert

(* check_and_insert accepts a key that the store does not hold: pruning and
   eviction only remove (anti_replay.rs:69-89). *)
LEMMA UnknownKeyIsFresh ==
    ASSUME NEW store, NEW key, NEW t, key \notin DOMAIN store.entries
    PROVE  CheckAndInsert(store, key, t).fresh = TRUE
<1>1. DOMAIN Prune(store, t).entries \subseteq DOMAIN store.entries
  BY DEF Prune, PopFront
<1> QED
  BY <1>1 DEF CheckAndInsert, Contains

(* The remainder that select_slot computes (path_engine.rs:83) is a slot number. *)
LEMMA ModIsNat ==
    ASSUME NEW a \in Nat, NEW b \in Nat, b # 0
    PROVE  a % b \in Nat
  BY SMT

------------------------------------------------------------------------------
(* Every send and every forward receive moves the head of the ratchet by as
   much as it moves the end's own count of sequence numbers. *)
KeyPosition ==
    \A e \in Ends :
        /\ current_key[e] = Frontier(e) + NextSendSeq(e)
        /\ Frontier(e) <= MaxSeq + 1
        /\ NextSendSeq(e) <= MaxSeq + 1

(* A skipped key lies behind the ratchet and belongs to one sequence number. *)
SkippedBehind ==
    \A e \in Ends : \A s \in DOMAIN skipped_keys[e] :
        /\ s < Frontier(e)
        /\ skipped_keys[e][s] < current_key[e]
        /\ \A t \in DOMAIN skipped_keys[e] :
              skipped_keys[e][s] = skipped_keys[e][t] => s = t

(* What has been delivered is behind the ratchet and has no key left. *)
DeliveredBehind ==
    \A e \in Ends : \A i \in 1..Len(delivered[e]) :
        /\ delivered[e][i].seq < Frontier(e)
        /\ delivered[e][i].seq \notin DOMAIN skipped_keys[e]

IInv ==
    /\ TypeOK
    /\ KeyPosition
    /\ SkippedBehind
    /\ DeliveredBehind
    /\ UsedKeysForgotten
    /\ ReplayStoreRedundant
    /\ AtMostOnce

(* SecureChannel::new (channel.rs:37-46) establishes the invariant. *)
THEOREM InitIInv == Init => IInv
<1> SUFFICES ASSUME Init PROVE IInv
  OBVIOUS
<1> USE DEF Init
<1>1. \A e \in Ends : /\ DOMAIN skipped_keys[e] = {} /\ Len(delivered[e]) = 0
                      /\ DOMAIN anti_replay[e].entries = {}
                      /\ Frontier(e) = 0 /\ NextSendSeq(e) = 0
  BY DEF EmptyStore, Frontier, NextSendSeq
<1>2. TypeOK
  <2>1. delivered \in [Ends -> Seq([seq : Nat, mid : MessageIds,
                                   payload : Payloads, key : Nat])]
    OBVIOUS
  <2> QED BY <1>1, <2>1 DEF TypeOK, Codes
<1>3. KeyPosition
  BY <1>1, LimitAssumption DEF KeyPosition
<1>4. SkippedBehind /\ DeliveredBehind /\ ReplayStoreRedundant /\ AtMostOnce
  BY <1>1 DEF SkippedBehind, DeliveredBehind, ReplayStoreRedundant, AtMostOnce
<1>5. UsedKeysForgotten
  BY <1>1 DEF UsedKeysForgotten, SentKeys, OpenedKeys
<1> QED
  BY <1>2, <1>3, <1>4, <1>5 DEF IInv

(* Keys sealed or opened with, and delivered sequence numbers, are numbers. *)
LEMMA UsedKeysAreNat ==
    ASSUME TypeOK, NEW e \in Ends
    PROVE  /\ \A k \in SentKeys(e) \cup OpenedKeys(e) : k \in Nat
           /\ \A i \in 1..Len(delivered[e]) : delivered[e][i].seq \in Nat
<1> DEFINE Message == [seq : Nat, mid : MessageIds, payload : Payloads, key : Nat]
<1>1. \A k \in SentKeys(e) : k \in Nat
  BY DEF TypeOK, SentKeys, Packet
<1>2. delivered[e] \in Seq(Message)
  BY DEF TypeOK
<1>3. \A i \in 1..Len(delivered[e]) : delivered[e][i] \in Message
  <2> HIDE DEF Message
  <2> QED BY <1>2
<1>4. \A i \in 1..Len(delivered[e]) :
         delivered[e][i].key \in Nat /\ delivered[e][i].seq \in Nat
  BY <1>3
<1> QED
  BY <1>1, <1>4 DEF OpenedKeys

(* An accepted packet: its key was still held, and what opened is the envelope
   the sender sealed under this sequence number and message id. *)
LEMMA AcceptedIsGenuine ==
    ASSUME IInv,
           NEW e \in Ends, NEW p \in wire, NEW S, NEW n \in 0..NPaths[p.from],
           NEW seq \in 0..MaxSeq, NEW mid \in MessageIds,
           AuthVerdict(e, Arrival(p, S, n), seq, mid) = "Ok"
    PROVE  /\ IsForward(e, seq) \/ seq \in DOMAIN skipped_keys[e]
           /\ TargetKey(e, seq) \in Nat
           /\ p.seq = seq /\ p.mid = mid /\ p.key = TargetKey(e, seq)
           /\ Arrival(p, S, n)[Slot(e, seq, mid) + 1].payload = p.payload
<1> DEFINE envs == Arrival(p, S, n)
           k == TargetKey(e, seq)
<1>1. /\ p \in Packet /\ p.from \in Ends /\ NPaths[p.from] \in Nat
      /\ NPaths[e] \in Nat /\ n \in Nat /\ seq \in Nat
  <2>1. p \in Packet
    BY DEF IInv, TypeOK
  <2>2. p.from \in Ends
    BY <2>1 DEF Packet
  <2>3. NPaths[p.from] \in Nat /\ NPaths[e] \in Nat
    BY <2>2, EndsAssumption
  <2> QED BY <2>1, <2>2, <2>3, LimitAssumption
<1>2. /\ Frontier(e) \in Nat /\ NextSendSeq(e) \in Nat /\ current_key[e] \in Nat
      /\ current_key[e] = Frontier(e) + NextSendSeq(e)
      /\ Frontier(e) <= MaxSeq + 1 /\ NextSendSeq(e) <= MaxSeq + 1
  BY DataAssumption DEF IInv, TypeOK, KeyPosition, Frontier, NextSendSeq
<1>3. IsForward(e, seq) \/ seq \in DOMAIN skipped_keys[e]
  BY DEF AuthVerdict, Step1Verdict
<1>4. k \in 0..(2 * MaxSeq + 2)
  <2>1. CASE IsForward(e, seq)
    BY <2>1, <1>1, <1>2, LimitAssumption DEF IsForward, TargetKey, Derive
  <2>2. CASE ~IsForward(e, seq)
    <3>1. seq \in DOMAIN skipped_keys[e] /\ k = skipped_keys[e][seq]
      BY <2>2, <1>3 DEF TargetKey
    <3>2. k \in Nat /\ k < current_key[e]
      BY <3>1 DEF IInv, TypeOK, SkippedBehind
    <3> QED BY <3>2, <1>2, LimitAssumption
  <2> QED BY <2>1, <2>2
<1>5. /\ NPaths[e] # 0
      /\ ~(Slot(e, seq, mid) >= Len(envs))
      /\ Opens(k, envs[Slot(e, seq, mid) + 1], Aad(seq, mid))
  BY DEF AuthVerdict
<1>6. Slot(e, seq, mid) \in Nat
  <2>1. Hmac(k, mid) \in Nat
    BY <1>4, DataAssumption
  <2> QED BY <2>1, <1>1, <1>5, ModIsNat DEF Slot, select_slot
<1>7. envs = [i \in 1..n |-> IF i \in S THEN [Envelopes(p)[i] EXCEPT !.key = ForeignKey]
                                        ELSE Envelopes(p)[i]]
  BY DEF Arrival
<1>8. Len(envs) = n
  BY <1>7, <1>1
<1> DEFINE i == Slot(e, seq, mid) + 1
<1>9. i \in 1..n /\ i \in 1..NPaths[p.from]
  BY <1>1, <1>5, <1>6, <1>8
<1> DEFINE env == Envelopes(p)[i]
<1>10. \/ env = Decoy(Aad(p.seq, p.mid))
       \/ env = Seal(p.key, p.payload, Aad(p.seq, p.mid))
  BY <1>9 DEF Envelopes, MultiPathSlots
<1>11. envs[i] = IF i \in S THEN [env EXCEPT !.key = ForeignKey] ELSE env
  BY <1>7, <1>9
<1>12. envs[i].key = k /\ envs[i].aad = Aad(seq, mid)
  BY <1>5 DEF Opens
<1> HIDE DEF envs, k, i, env
<1>13. k # ForeignKey
  BY <1>4, LimitAssumption DEF ForeignKey
<1>14. i \notin S /\ env = Seal(p.key, p.payload, Aad(p.seq, p.mid))
  BY <1>10, <1>11, <1>12, <1>13 DEF Decoy, Seal
<1>15. p.key = k /\ Aad(p.seq, p.mid) = Aad(seq, mid) /\ envs[i].payload = p.payload
  BY <1>11, <1>12, <1>14 DEF Seal
<1>16. p.seq = seq /\ p.mid = mid
  BY <1>15 DEF Aad
<1>17. k \in Nat
  BY <1>4, LimitAssumption
<1> QED
  BY <1>3, <1>15, <1>16, <1>17 DEF envs, k, i

(* Step 4 never refuses what steps 1-3 let through. *)
LEMMA Step4NeverRefuses ==
    ASSUME IInv, NEW e \in Ends, NEW envs, NEW seq \in Nat, NEW mid,
           AuthVerdict(e, envs, seq, mid) = "Ok"
    PROVE  ReceiveVerdict(e, envs, seq, mid) = "Ok"
<1>1. IsForward(e, seq) \/ seq \in DOMAIN skipped_keys[e]
  BY DEF AuthVerdict, Step1Verdict
<1>2. Frontier(e) \in Nat
  BY DataAssumption DEF IInv, TypeOK, Frontier
<1>3. <<seq, mid>> \notin DOMAIN anti_replay[e].entries
  <2> SUFFICES ASSUME <<seq, mid>> \in DOMAIN anti_replay[e].entries
               PROVE  FALSE
    OBVIOUS
  <2>1. <<seq, mid>>[1] < Frontier(e) /\ <<seq, mid>>[1] \notin DOMAIN skipped_keys[e]
    BY DEF IInv, ReplayStoreRedundant
  <2> QED BY <2>1, <1>1, <1>2 DEF IsForward
<1> QED
  BY <1>3, UnknownKeyIsFresh DEF ReceiveVerdict, Replay

(* A call of receive that returns an error changes no part of the channel: the
   only error after a mutation, that of step 4 (channel.rs:204), is never met. *)
LEMMA RefusedChangesNothing ==
    ASSUME IInv, NEW e \in Ends, NEW envs, NEW seq \in Nat, NEW mid,
           ReceiveRejected(e, envs, seq, mid)
    PROVE  UNCHANGED channel
<1>1. AuthVerdict(e, envs, seq, mid) # "Ok"
  BY Step4NeverRefuses DEF ReceiveRejected
<1>2. anti_replay' = [anti_replay EXCEPT ![e] = anti_replay[e]]
  BY <1>1 DEF ReceiveRejected
<1>3. anti_replay' = anti_replay
  BY <1>2 DEF IInv, TypeOK
<1> QED
  BY <1>3 DEF ReceiveRejected, channel

(* A step that leaves channels, wire and deliveries alone keeps everything
   the invariant says of them. *)
LEMMA UnchangedKeepsIInv ==
    ASSUME IInv, UNCHANGED <<channel, wire, delivered>>,
           now' \in Nat, ret' \in [op : {"new", "send", "receive"}, end : Ends, code : Codes]
    PROVE  IInv'
<1> USE DEF channel
<1>1. TypeOK'
  BY DEF IInv, TypeOK
<1>2. KeyPosition' /\ SkippedBehind' /\ DeliveredBehind'
  BY DEF IInv, KeyPosition, SkippedBehind, DeliveredBehind, Frontier, NextSendSeq
<1>3. UsedKeysForgotten' /\ ReplayStoreRedundant' /\ AtMostOnce'
  BY DEF IInv, UsedKeysForgotten, ReplayStoreRedundant, AtMostOnce, SentKeys,
         OpenedKeys, Frontier
<1> QED
  BY <1>1, <1>2, <1>3 DEF IInv

(* The sender's ratchet moves, whether or not the envelopes get out. *)
LEMMA SenderStepKeepsIInv ==
    ASSUME IInv, NEW e \in Ends, NEW payload \in Payloads, NEW mid \in MessageIds,
           Send(e, payload, mid) \/ DecoyPanics(e, payload, mid)
    PROVE  IInv'
<1> DEFINE packet == [from |-> e, seq |-> NextSendSeq(e), mid |-> mid,
                      payload |-> payload, key |-> current_key[e]]
<1>1. /\ AdvanceSender(e) /\ NextSendSeq(e) <= MaxSeq
      /\ wire' = wire \/ wire' = wire \cup {packet}
      /\ UNCHANGED <<now, delivered>>
      /\ \/ ret' = [op |-> "send", end |-> e, code |-> "Ok"]
         \/ ret' = [op |-> "send", end |-> e, code |-> "Panic"]
  BY DEF Send, DecoyPanics
<1>2. \A f \in Ends : Frontier(f) \in Nat /\ NextSendSeq(f) \in Nat
  BY DataAssumption DEF IInv, TypeOK, Frontier, NextSendSeq
<1>3. /\ current_key' = [current_key EXCEPT ![e] = @ + 1]
      /\ send_seq' = [send_seq EXCEPT ![e] = NextSendSeq(e)]
      /\ UNCHANGED <<last_seq, skipped_keys, anti_replay>>
  BY <1>1 DEF AdvanceSender, derive_next
<1>4. packet \in Packet
  BY <1>2 DEF IInv, TypeOK, Packet
<1> HIDE DEF packet
<1>5. TypeOK'
  <2>1. /\ last_seq' \in [Ends -> Nat \cup {None}]
        /\ send_seq' \in [Ends -> Nat \cup {None}]
        /\ current_key' \in [Ends -> Nat]
    BY <1>2, <1>3 DEF IInv, TypeOK
  <2>2. wire' \subseteq Packet
    BY <1>1, <1>4 DEF IInv, TypeOK
  <2>3. ret' \in [op : {"new", "send", "receive"}, end : Ends, code : Codes]
    BY <1>1 DEF Codes
  <2> QED BY <1>1, <1>3, <2>1, <2>2, <2>3 DEF IInv, TypeOK
<1>6. \A f \in Ends : /\ Frontier(f)' = Frontier(f)
                      /\ NextSendSeq(f)' = IF f = e THEN NextSendSeq(f) + 1
                                                    ELSE NextSendSeq(f)
                      /\ current_key'[f] = IF f = e THEN current_key[f] + 1
                                                    ELSE current_key[f]
  <2> SUFFICES ASSUME NEW f \in Ends
               PROVE  /\ Frontier(f)' = Frontier(f)
                      /\ NextSendSeq(f)' = IF f = e THEN NextSendSeq(f) + 1
                                                    ELSE NextSendSeq(f)
                      /\ current_key'[f] = IF f = e THEN current_key[f] + 1
                                                    ELSE current_key[f]
    OBVIOUS
  <2>1. send_seq \in [Ends -> Nat \cup {None}] /\ current_key \in [Ends -> Nat]
    BY DEF IInv, TypeOK
  <2>2. NextSendSeq(e) # None
    BY <1>2, DataAssumption
  <2> QED BY <1>3, <2>1, <2>2 DEF Frontier, NextSendSeq
<1>7. \A f \in Ends : current_key[f] \in Nat /\ current_key'[f] >= current_key[f]
  <2>1. current_key \in [Ends -> Nat]
    BY DEF IInv, TypeOK
  <2> QED BY <2>1, <1>6
<1>8. KeyPosition'
  BY <1>1, <1>2, <1>6, LimitAssumption DEF IInv, KeyPosition
<1>9. SkippedBehind'
  <2> SUFFICES ASSUME NEW f \in Ends, NEW s \in DOMAIN skipped_keys[f]
               PROVE  skipped_keys[f][s] < current_key'[f]
    BY <1>3, <1>6 DEF IInv, SkippedBehind
  <2>1. skipped_keys[f][s] \in Nat /\ skipped_keys[f][s] < current_key[f]
    BY DEF IInv, TypeOK, SkippedBehind
  <2> QED BY <2>1, <1>6, <1>7
<1>10. DeliveredBehind' /\ ReplayStoreRedundant' /\ AtMostOnce'
  BY <1>1, <1>3, <1>6 DEF IInv, DeliveredBehind, ReplayStoreRedundant, AtMostOnce
<1>11. UsedKeysForgotten'
  <2> SUFFICES ASSUME NEW f \in Ends, NEW k \in (SentKeys(f) \cup OpenedKeys(f))'
               PROVE  /\ k < current_key'[f]
                      /\ \A s \in DOMAIN skipped_keys[f] : skipped_keys[f][s] # k
    BY <1>3 DEF UsedKeysForgotten
  <2>1. k \in SentKeys(f) \cup OpenedKeys(f) \/ (f = e /\ k = current_key[e])
    BY <1>1 DEF SentKeys, OpenedKeys, packet
  <2>2. CASE k \in SentKeys(f) \cup OpenedKeys(f)
    <3>1. /\ k < current_key[f]
          /\ \A s \in DOMAIN skipped_keys[f] : skipped_keys[f][s] # k
      BY <2>2 DEF IInv, UsedKeysForgotten
    <3>2. k \in Nat
      BY <2>2, UsedKeysAreNat DEF IInv
    <3> QED BY <3>1, <3>2, <1>6, <1>7
  <2>3. CASE f = e /\ k = current_key[e]
    <3>1. k < current_key'[f]
      BY <2>3, <1>6, <1>7
    <3>2. \A s \in DOMAIN skipped_keys[f] :
             skipped_keys[f][s] \in Nat /\ skipped_keys[f][s] < current_key[f]
      BY DEF IInv, TypeOK, SkippedBehind
    <3> QED BY <2>3, <3>1, <3>2, <1>7
  <2> QED BY <2>1, <2>2, <2>3
<1> QED
  BY <1>5, <1>8, <1>9, <1>10, <1>11 DEF IInv

(* What step 5 does to the ratchet of the receiving end.  A key in skipped_keys
   afterwards was there before, or lies between the old head and the key just
   used; the key just used is gone. *)
LEMMA CommitFacts ==
    ASSUME IInv, NEW e \in Ends, NEW seq \in 0..MaxSeq,
           IsForward(e, seq) \/ seq \in DOMAIN skipped_keys[e],
           CommitForward(e, seq) \/ CommitSkipped(e, seq),
           UNCHANGED send_seq
    PROVE  /\ last_seq' \in [Ends -> Nat \cup {None}]
           /\ current_key' \in [Ends -> Nat]
           /\ skipped_keys' = [f \in Ends |-> skipped_keys'[f]]
           /\ \A f \in Ends \ {e} : /\ Frontier(f)' = Frontier(f)
                                    /\ current_key'[f] = current_key[f]
                                    /\ skipped_keys'[f] = skipped_keys[f]
           /\ Frontier(e) <= Frontier(e)' /\ seq < Frontier(e)'
           /\ Frontier(e)' <= MaxSeq + 1
           /\ current_key[e] <= current_key'[e] /\ TargetKey(e, seq) < current_key'[e]
           /\ current_key'[e] = Frontier(e)' + NextSendSeq(e)
           /\ \A s \in DOMAIN skipped_keys'[e] :
                 /\ s \in Nat /\ s # seq /\ s < Frontier(e)'
                 /\ skipped_keys'[e][s] \in Nat
                 /\ skipped_keys'[e][s] # TargetKey(e, seq)
                 /\ skipped_keys'[e][s] < current_key'[e]
                 /\ \/ s \in DOMAIN skipped_keys[e]
                       /\ skipped_keys'[e][s] = skipped_keys[e][s]
                    \/ s >= Frontier(e)
                       /\ skipped_keys'[e][s] = current_key[e] + (s - Frontier(e))
<1>1. /\ last_seq \in [Ends -> Nat \cup {None}] /\ current_key \in [Ends -> Nat]
      /\ skipped_keys = [f \in Ends |-> skipped_keys[f]]
      /\ DOMAIN skipped_keys[e] \subseteq Nat
      /\ \A s \in DOMAIN skipped_keys[e] : skipped_keys[e][s] \in Nat
      /\ \A s \in DOMAIN skipped_keys[e] :
           /\ s < Frontier(e) /\ skipped_keys[e][s] < current_key[e]
           /\ \A t \in DOMAIN skipped_keys[e] :
                 skipped_keys[e][s] = skipped_keys[e][t] => s = t
  BY DEF IInv, TypeOK, SkippedBehind
<1>2. /\ Frontier(e) \in Nat /\ current_key[e] \in Nat /\ NextSendSeq(e) \in Nat
      /\ current_key[e] = Frontier(e) + NextSendSeq(e)
      /\ Frontier(e) <= MaxSeq + 1 /\ seq \in Nat /\ seq <= MaxSeq /\ MaxSeq \in Nat
  <2>1. seq \in Nat /\ seq <= MaxSeq /\ MaxSeq \in Nat
    BY LimitAssumption
  <2>2. Frontier(e) \in Nat /\ NextSendSeq(e) \in Nat /\ current_key[e] \in Nat
    BY DataAssumption DEF IInv, TypeOK, Frontier, NextSendSeq
  <2>3. /\ current_key[e] = Frontier(e) + NextSendSeq(e)
        /\ Frontier(e) <= MaxSeq + 1
    BY DEF IInv, KeyPosition
  <2> QED BY <2>1, <2>2, <2>3
<1>3. CASE CommitForward(e, seq)
  <2>1. /\ seq >= Frontier(e)
        /\ last_seq' = [last_seq EXCEPT ![e] = seq]
        /\ TargetKey(e, seq) = current_key[e] + (seq - Frontier(e))
        /\ current_key' = [current_key EXCEPT ![e] = TargetKey(e, seq) + 1]
    BY <1>3 DEF CommitForward, IsForward, TargetKey, Derive, derive_next
  <2>2. /\ Frontier(e)' = seq + 1
        /\ \A f \in Ends \ {e} : Frontier(f)' = Frontier(f)
    <3>1. seq # None
      BY <1>2, DataAssumption
    <3> QED BY <1>1, <2>1, <3>1 DEF Frontier
  <2>3. /\ last_seq' \in [Ends -> Nat \cup {None}]
        /\ TargetKey(e, seq) \in Nat
        /\ current_key' \in [Ends -> Nat]
        /\ current_key'[e] = TargetKey(e, seq) + 1
        /\ \A f \in Ends \ {e} : current_key'[f] = current_key[f]
    BY <1>1, <1>2, <2>1
  <2> DEFINE merged == Merge(LocalSkipped(e, seq), skipped_keys[e])
  <2>4. skipped_keys' = [skipped_keys EXCEPT ![e] = EvictOldestSkipped(merged)]
    BY <1>3 DEF CommitForward
  <2>5. /\ skipped_keys' = [f \in Ends |-> skipped_keys'[f]]
        /\ \A f \in Ends \ {e} : skipped_keys'[f] = skipped_keys[f]
        /\ skipped_keys'[e] = EvictOldestSkipped(merged)
    <3> HIDE DEF merged
    <3> QED BY <1>1, <2>4
  <2>6. \A s \in DOMAIN skipped_keys'[e] :
           s \in DOMAIN merged /\ skipped_keys'[e][s] = merged[s]
    <3> HIDE DEF merged
    <3> QED BY <2>5 DEF EvictOldestSkipped
  <2>7. \A s \in DOMAIN merged :
           \/ s \in DOMAIN skipped_keys[e] /\ merged[s] = skipped_keys[e][s]
           \/ /\ s \in Frontier(e)..(seq - 1)
              /\ merged[s] = current_key[e] + (s - Frontier(e))
    BY DEF Merge, LocalSkipped, Derive
  <2>8. ASSUME NEW s \in DOMAIN skipped_keys'[e]
        PROVE  /\ s \in Nat /\ s # seq /\ s < Frontier(e)'
               /\ skipped_keys'[e][s] \in Nat
               /\ skipped_keys'[e][s] # TargetKey(e, seq)
               /\ skipped_keys'[e][s] < current_key'[e]
               /\ \/ s \in DOMAIN skipped_keys[e]
                     /\ skipped_keys'[e][s] = skipped_keys[e][s]
                  \/ s >= Frontier(e)
                     /\ skipped_keys'[e][s] = current_key[e] + (s - Frontier(e))
    <3> HIDE DEF merged
    <3>1. CASE s \in DOMAIN skipped_keys[e] /\ skipped_keys'[e][s] = skipped_keys[e][s]
      <4>1. s \in Nat /\ s < Frontier(e) /\ skipped_keys[e][s] \in Nat
            /\ skipped_keys[e][s] < current_key[e]
        BY <3>1, <1>1
      <4> QED BY <3>1, <4>1, <1>2, <2>1, <2>2, <2>3
    <3>2. CASE /\ s \in Frontier(e)..(seq - 1)
               /\ skipped_keys'[e][s] = current_key[e] + (s - Frontier(e))
      BY <3>2, <1>2, <2>1, <2>2, <2>3
    <3> QED BY <3>1, <3>2, <2>6, <2>7
  <2>9. /\ Frontier(e) <= Frontier(e)' /\ seq < Frontier(e)'
        /\ Frontier(e)' <= MaxSeq + 1
        /\ current_key[e] <= current_key'[e] /\ TargetKey(e, seq) < current_key'[e]
        /\ current_key'[e] = Frontier(e)' + NextSendSeq(e)
    BY <1>2, <2>1, <2>2, <2>3
  <2> QED BY <2>2, <2>3, <2>5, <2>8, <2>9
<1>4. CASE CommitSkipped(e, seq)
  <2>1. /\ ~IsForward(e, seq) /\ seq \in DOMAIN skipped_keys[e]
        /\ TargetKey(e, seq) = skipped_keys[e][seq]
        /\ last_seq' = last_seq /\ current_key' = current_key
        /\ skipped_keys' = [skipped_keys EXCEPT
             ![e] = [s \in DOMAIN skipped_keys[e] \ {seq} |-> skipped_keys[e][s]]]
    BY <1>4 DEF CommitSkipped, TargetKey
  <2>2. \A f \in Ends : Frontier(f)' = Frontier(f)
    BY <2>1 DEF Frontier
  <2>3. /\ skipped_keys' = [f \in Ends |-> skipped_keys'[f]]
        /\ \A f \in Ends \ {e} : skipped_keys'[f] = skipped_keys[f]
        /\ skipped_keys'[e] = [s \in DOMAIN skipped_keys[e] \ {seq} |-> skipped_keys[e][s]]
    BY <1>1, <2>1
  <2>4. ASSUME NEW s \in DOMAIN skipped_keys'[e]
        PROVE  /\ s \in DOMAIN skipped_keys[e] /\ s # seq
               /\ skipped_keys'[e][s] = skipped_keys[e][s]
               /\ skipped_keys[e][s] # skipped_keys[e][seq]
    BY <2>1, <2>3, <1>1
  <2>5. seq < Frontier(e) /\ TargetKey(e, seq) < current_key[e]
    BY <2>1, <1>1
  <2>6. \A s \in DOMAIN skipped_keys'[e] :
          /\ s \in Nat /\ s # seq /\ s < Frontier(e)'
          /\ skipped_keys'[e][s] \in Nat
          /\ skipped_keys'[e][s] # TargetKey(e, seq)
          /\ skipped_keys'[e][s] < current_key'[e]
          /\ s \in DOMAIN skipped_keys[e] /\ skipped_keys'[e][s] = skipped_keys[e][s]
    BY <2>1, <2>2, <2>4, <1>1
  <2> QED BY <1>1, <1>2, <2>1, <2>2, <2>3, <2>5, <2>6
<1> QED
  BY <1>3, <1>4

(* A successful receive (channel.rs:100-225) keeps the invariant. *)
LEMMA ReceiveKeepsIInv ==
    ASSUME IInv,
           NEW e \in Ends, NEW p \in wire, NEW S, NEW n \in 0..NPaths[p.from],
           NEW seq \in 0..MaxSeq, NEW mid \in MessageIds,
           Receive(e, Arrival(p, S, n), seq, mid)
    PROVE  IInv'
<1> DEFINE k == TargetKey(e, seq)
           m == [seq |-> seq, mid |-> mid, key |-> k,
                 payload |-> Arrival(p, S, n)[Slot(e, seq, mid) + 1].payload]
           Message == [seq : Nat, mid : MessageIds, payload : Payloads, key : Nat]
<1>1. /\ CommitForward(e, seq) \/ CommitSkipped(e, seq)
      /\ anti_replay' = [anti_replay EXCEPT ![e] =
                           CheckAndInsert(anti_replay[e], <<seq, mid>>, now).store]
      /\ delivered' = [delivered EXCEPT ![e] = Append(delivered[e], m)]
      /\ ret' = [op |-> "receive", end |-> e, code |-> "Ok"]
      /\ UNCHANGED <<send_seq, now, wire>>
  BY DEF Receive, Replay
<1>2. AuthVerdict(e, Arrival(p, S, n), seq, mid) = "Ok"
  BY DEF Receive, ReceiveVerdict
<1>3. /\ IsForward(e, seq) \/ seq \in DOMAIN skipped_keys[e]
      /\ k \in Nat /\ m.payload = p.payload
  BY <1>2, AcceptedIsGenuine
<1>4. m \in Message /\ m.seq = seq /\ m.key = k
  <2>1. p.payload \in Payloads
    BY DEF IInv, TypeOK, Packet
  <2> QED BY <1>3, <2>1, LimitAssumption
<1>5. /\ last_seq' \in [Ends -> Nat \cup {None}]
      /\ current_key' \in [Ends -> Nat]
      /\ skipped_keys' = [f \in Ends |-> skipped_keys'[f]]
  BY <1>1, <1>3, CommitFacts
<1>6. \A f \in Ends \ {e} : /\ Frontier(f)' = Frontier(f)
                            /\ current_key'[f] = current_key[f]
                            /\ skipped_keys'[f] = skipped_keys[f]
  BY <1>1, <1>3, CommitFacts
<1>7. /\ Frontier(e) <= Frontier(e)' /\ seq < Frontier(e)'
      /\ Frontier(e)' <= MaxSeq + 1
      /\ current_key[e] <= current_key'[e] /\ k < current_key'[e]
      /\ current_key'[e] = Frontier(e)' + NextSendSeq(e)
  BY <1>1, <1>3, CommitFacts
<1>8. \A s \in DOMAIN skipped_keys'[e] :
        /\ s \in Nat /\ s # seq /\ s < Frontier(e)'
        /\ skipped_keys'[e][s] \in Nat
        /\ skipped_keys'[e][s] # k
        /\ skipped_keys'[e][s] < current_key'[e]
        /\ \/ s \in DOMAIN skipped_keys[e]
              /\ skipped_keys'[e][s] = skipped_keys[e][s]
           \/ s >= Frontier(e)
              /\ skipped_keys'[e][s] = current_key[e] + (s - Frontier(e))
  BY <1>1, <1>3, CommitFacts
<1>9. \A f \in Ends : /\ Frontier(f) \in Nat /\ current_key[f] \in Nat
                      /\ Frontier(f)' \in Nat /\ current_key'[f] \in Nat
  BY <1>5, DataAssumption DEF IInv, TypeOK, Frontier
<1>10. /\ anti_replay' = [f \in Ends |-> anti_replay'[f]]
       /\ \A f \in Ends \ {e} : anti_replay'[f] = anti_replay[f]
       /\ DOMAIN anti_replay'[e].entries
            \subseteq DOMAIN anti_replay[e].entries \cup {<<seq, mid>>}
  BY <1>1, StoreGrowsByKey DEF IInv, TypeOK
<1>11. /\ delivered' \in [Ends -> Seq(Message)]
       /\ \A f \in Ends \ {e} : delivered'[f] = delivered[f]
       /\ delivered'[e] = Append(delivered[e], m)
       /\ delivered[e] \in Seq(Message)
  <2>1. delivered \in [Ends -> Seq(Message)]
    BY DEF IInv, TypeOK
  <2> HIDE DEF m, Message
  <2> QED BY <1>1, <1>4, <2>1
<1>12. /\ Len(delivered[e]) \in Nat /\ Len(delivered'[e]) = Len(delivered[e]) + 1
       /\ \A i \in 1..Len(delivered'[e]) :
            delivered'[e][i] = IF i = Len(delivered[e]) + 1 THEN m ELSE delivered[e][i]
  <2> HIDE DEF m, Message
  <2> QED BY <1>4, <1>11
<1> HIDE DEF m, k
<1>13. TypeOK'
  <2>1. \A f \in Ends : /\ DOMAIN skipped_keys'[f] \subseteq Nat
                        /\ \A s \in DOMAIN skipped_keys'[f] : skipped_keys'[f][s] \in Nat
    BY <1>6, <1>8 DEF IInv, TypeOK
  <2>2. \A f \in Ends : DOMAIN anti_replay'[f].entries \subseteq Nat \X MessageIds
    <3>1. <<seq, mid>> \in Nat \X MessageIds
      BY LimitAssumption
    <3> QED BY <1>10, <3>1 DEF IInv, TypeOK
  <2>3. ret' \in [op : {"new", "send", "receive"}, end : Ends, code : Codes]
    BY <1>1 DEF Codes
  <2> QED BY <1>1, <1>5, <1>10, <1>11, <2>1, <2>2, <2>3 DEF IInv, TypeOK
<1>14. KeyPosition'
  <2>1. \A f \in Ends : NextSendSeq(f)' = NextSendSeq(f)
    BY <1>1 DEF NextSendSeq
  <2> QED BY <2>1, <1>6, <1>7 DEF IInv, KeyPosition
<1>15. SkippedBehind'
  <2> SUFFICES ASSUME NEW f \in Ends, NEW s \in DOMAIN skipped_keys'[f],
                      NEW t \in DOMAIN skipped_keys'[f]
               PROVE  /\ s < Frontier(f)' /\ skipped_keys'[f][s] < current_key'[f]
                      /\ skipped_keys'[f][s] = skipped_keys'[f][t] => s = t
    BY DEF SkippedBehind
  <2>1. CASE f # e
    BY <2>1, <1>6 DEF IInv, SkippedBehind
  <2>2. CASE f = e
    <3>1. s < Frontier(f)' /\ skipped_keys'[f][s] < current_key'[f]
      BY <2>2, <1>8
    <3>2. \A r \in DOMAIN skipped_keys[e] :
             /\ skipped_keys[e][r] \in Nat /\ skipped_keys[e][r] < current_key[e]
             /\ \A q \in DOMAIN skipped_keys[e] :
                   skipped_keys[e][r] = skipped_keys[e][q] => r = q
      BY DEF IInv, TypeOK, SkippedBehind
    <3>3. ASSUME skipped_keys'[e][s] = skipped_keys'[e][t] PROVE s = t
      BY <2>2, <3>2, <3>3, <1>8, <1>9
    <3> QED BY <2>2, <3>1, <3>3
  <2> QED BY <2>1, <2>2
<1>16. DeliveredBehind'
  <2> SUFFICES ASSUME NEW f \in Ends, NEW i \in 1..Len(delivered'[f])
               PROVE  /\ delivered'[f][i].seq < Frontier(f)'
                      /\ delivered'[f][i].seq \notin DOMAIN skipped_keys'[f]
    BY DEF DeliveredBehind
  <2>1. CASE f # e
    BY <2>1, <1>6, <1>11 DEF IInv, DeliveredBehind
  <2>2. CASE f = e /\ i = Len(delivered[e]) + 1
    BY <2>2, <1>4, <1>7, <1>8, <1>12
  <2>3. CASE f = e /\ i # Len(delivered[e]) + 1
    <3>1. i \in 1..Len(delivered[e]) /\ delivered'[f][i] = delivered[e][i]
      BY <2>3, <1>12
    <3>2. delivered[e][i].seq \in Nat
      BY <3>1, UsedKeysAreNat DEF IInv
    <3>3. /\ delivered[e][i].seq < Frontier(e)
          /\ delivered[e][i].seq \notin DOMAIN skipped_keys[e]
      BY <3>1 DEF IInv, DeliveredBehind
    <3> QED BY <2>3, <3>1, <3>2, <3>3, <1>7, <1>8, <1>9
  <2> QED BY <2>1, <2>2, <2>3
<1>17. UsedKeysForgotten'
  <2> SUFFICES ASSUME NEW f \in Ends, NEW j \in (SentKeys(f) \cup OpenedKeys(f))'
               PROVE  /\ j < current_key'[f]
                      /\ \A s \in DOMAIN skipped_keys'[f] : skipped_keys'[f][s] # j
    BY DEF UsedKeysForgotten
  <2>1. j \in SentKeys(f) \cup OpenedKeys(f) \/ (f = e /\ j = k)
    <3>1. SentKeys(f)' = SentKeys(f)
      BY <1>1 DEF SentKeys
    <3>2. CASE f # e
      BY <3>1, <3>2, <1>11 DEF OpenedKeys
    <3>3. CASE f = e
      <4>1. ASSUME NEW i \in 1..Len(delivered'[e]), j = delivered'[e][i].key
            PROVE  j \in OpenedKeys(e) \/ j = k
        <5>1. CASE i = Len(delivered[e]) + 1
          BY <4>1, <5>1, <1>4, <1>12
        <5>2. CASE i # Len(delivered[e]) + 1
          <6>1. i \in 1..Len(delivered[e]) /\ j = delivered[e][i].key
            BY <4>1, <5>2, <1>12
          <6> QED BY <6>1 DEF OpenedKeys
        <5> QED BY <5>1, <5>2
      <4> QED BY <3>1, <3>3, <4>1 DEF OpenedKeys
    <3> QED BY <3>2, <3>3
  <2>2. CASE j \in SentKeys(f) \cup OpenedKeys(f)
    <3>1. /\ j \in Nat /\ j < current_key[f]
          /\ \A s \in DOMAIN skipped_keys[f] : skipped_keys[f][s] # j
      BY <2>2, UsedKeysAreNat DEF IInv, UsedKeysForgotten
    <3> QED BY <3>1, <1>6, <1>7, <1>8, <1>9
  <2>3. CASE f = e /\ j = k
    BY <2>3, <1>7, <1>8
  <2> QED BY <2>1, <2>2, <2>3
<1>18. ReplayStoreRedundant'
  <2> SUFFICES ASSUME NEW f \in Ends, NEW q \in DOMAIN anti_replay'[f].entries
               PROVE  q[1] < Frontier(f)' /\ q[1] \notin DOMAIN skipped_keys'[f]
    BY DEF ReplayStoreRedundant
  <2>1. CASE f # e
    BY <2>1, <1>6, <1>10 DEF IInv, ReplayStoreRedundant
  <2>2. CASE f = e /\ q = <<seq, mid>>
    BY <2>2, <1>7, <1>8
  <2>3. CASE f = e /\ q \in DOMAIN anti_replay[e].entries
    <3>1. /\ q[1] < Frontier(e) /\ q[1] \notin DOMAIN skipped_keys[e] /\ q[1] \in Nat
      BY <2>3 DEF IInv, TypeOK, ReplayStoreRedundant
    <3> QED BY <2>3, <3>1, <1>7, <1>8, <1>9
  <2> QED BY <2>1, <2>2, <2>3, <1>10
<1>19. AtMostOnce'
  <2> SUFFICES ASSUME NEW f \in Ends, NEW i \in 1..Len(delivered'[f]),
                      NEW j \in 1..Len(delivered'[f]),
                      delivered'[f][i].seq = delivered'[f][j].seq
               PROVE  i = j
    BY DEF AtMostOnce
  <2>1. CASE f # e
    BY <2>1, <1>11 DEF IInv, AtMostOnce
  <2>2. CASE f = e
    <3>1. \A r \in 1..Len(delivered[e]) : delivered[e][r].seq # seq
      <4> SUFFICES ASSUME NEW r \in 1..Len(delivered[e]) PROVE delivered[e][r].seq # seq
        OBVIOUS
      <4>1. /\ delivered[e][r].seq < Frontier(e)
            /\ delivered[e][r].seq \notin DOMAIN skipped_keys[e]
            /\ delivered[e][r].seq \in Nat
        BY UsedKeysAreNat DEF IInv, DeliveredBehind
      <4> QED BY <4>1, <1>3, <1>9 DEF IsForward
    <3>2. \A r \in 1..Len(delivered'[e]) :
             \/ r = Len(delivered[e]) + 1 /\ delivered'[e][r].seq = seq
             \/ r \in 1..Len(delivered[e]) /\ delivered'[e][r] = delivered[e][r]
      BY <1>4, <1>12
    <3> QED BY <2>2, <3>1, <3>2 DEF IInv, AtMostOnce
  <2> QED BY <2>1, <2>2
<1> QED
  BY <1>13, <1>14, <1>15, <1>16, <1>17, <1>18, <1>19 DEF IInv

(* Every call, and the clock, keeps the invariant. *)
THEOREM NextKeepsIInv == IInv /\ [Next]_vars => IInv'
<1> SUFFICES ASSUME IInv, [Next]_vars PROVE IInv'
  OBVIOUS
<1> DEFINE Returns == [op : {"new", "send", "receive"}, end : Ends, code : Codes]
<1>1. now \in Nat /\ ret \in Returns
  BY DEF IInv, TypeOK
<1>2. CASE UNCHANGED vars
  BY <1>1, <1>2, UnchangedKeepsIInv DEF vars
<1>3. CASE Tick
  BY <1>1, <1>3, UnchangedKeepsIInv DEF Tick
<1>4. ASSUME NEW e \in Senders, NEW payload \in Payloads, NEW mid \in MessageIds,
             \/ Send(e, payload, mid)
             \/ SendRejected(e, payload, mid)
             \/ SealPanics(e, payload, mid)
             \/ DecoyPanics(e, payload, mid)
      PROVE  IInv'
  <2>1. e \in Ends
    BY EndsAssumption
  <2>2. CASE SendRejected(e, payload, mid)
    <3>1. ret' \in Returns
      BY <2>1, <2>2 DEF SendRejected, SendVerdict, Codes
    <3> QED BY <1>1, <2>2, <3>1, UnchangedKeepsIInv DEF SendRejected
  <2>3. CASE SealPanics(e, payload, mid)
    <3>1. ret' \in Returns
      BY <2>1, <2>3 DEF SealPanics, Codes
    <3> QED BY <1>1, <2>3, <3>1, UnchangedKeepsIInv DEF SealPanics
  <2> QED BY <1>4, <2>1, <2>2, <2>3, SenderStepKeepsIInv
<1>5. ASSUME NEW e \in Receivers, NEW p \in wire, NEW seq \in 0..MaxSeq,
             NEW mid \in MessageIds, NEW n \in 0..NPaths[p.from],
             NEW S \in SUBSET (1..n), Arrives(e, p, S, n, seq, mid)
      PROVE  IInv'
  <2>1. e \in Ends /\ seq \in Nat
    BY EndsAssumption, LimitAssumption
  <2>2. CASE Receive(e, Arrival(p, S, n), seq, mid)
    BY <2>1, <2>2, ReceiveKeepsIInv
  <2>3. CASE ReceiveRejected(e, Arrival(p, S, n), seq, mid)
    <3>1. ret' \in Returns
      BY <2>1, <2>3 DEF ReceiveRejected, ReceiveVerdict, AuthVerdict, Step1Verdict, Codes
    <3>2. UNCHANGED <<channel, now, wire, delivered>>
      BY <2>1, <2>3, RefusedChangesNothing DEF ReceiveRejected
    <3> QED BY <1>1, <3>1, <3>2, UnchangedKeepsIInv
  <2> QED BY <1>5, <2>2, <2>3 DEF Arrives
<1> QED
  BY <1>2, <1>3, <1>4, <1>5 DEF Next

(* The invariant holds throughout. *)
THEOREM Invariance == Spec => []IInv
  BY InitIInv, NextKeepsIInv, PTL DEF Spec

(* Every variable keeps its type; in particular receive never returns the noise
   of a decoy (decoy.rs:11-28).  That it returns what was sent under this number
   and id is for Refinement to say. *)
THEOREM TypeCorrect == Spec => []TypeOK
<1>1. IInv => TypeOK
  BY DEF IInv
<1> QED
  BY <1>1, Invariance, PTL

(* receive (channel.rs:100-225) returns Ok at most once per sequence number. *)
THEOREM DeliversAtMostOnce == Spec => []AtMostOnce
<1>1. IInv => AtMostOnce
  BY DEF IInv
<1> QED
  BY <1>1, Invariance, PTL

(* No key that was used can be had from what an end still holds
   (channel.rs:92, 217 and 221), in one-way and in two-way use. *)
THEOREM ForwardSecrecy == Spec => []UsedKeysForgotten
<1>1. IInv => UsedKeysForgotten
  BY DEF IInv
<1> QED
  BY <1>1, Invariance, PTL

(* What the replay store remembers the ratchet can no longer open: step 4
   (channel.rs:202-205) never has anything to refuse. *)
THEOREM KeysSupersedeReplayStore == Spec => []ReplayStoreRedundant
<1>1. IInv => ReplayStoreRedundant
  BY DEF IInv
<1> QED
  BY <1>1, Invariance, PTL

(* A failed call leaves the channel as it was (channel.rs:195 and 203). *)
THEOREM FailedCallsLeaveNoTrace == Spec => ErrorsMutateNothing
<1> DEFINE A == ret'.code \notin {"Ok", "Panic"} => UNCHANGED channel
<1>1. ASSUME IInv, [Next]_vars PROVE [A]_vars
  <2>1. CASE UNCHANGED vars
    BY <2>1
  <2>2. CASE Tick
    BY <2>2 DEF Tick
  <2>3. ASSUME NEW e \in Senders, NEW payload \in Payloads, NEW mid \in MessageIds,
               \/ Send(e, payload, mid)
               \/ SendRejected(e, payload, mid)
               \/ SealPanics(e, payload, mid)
               \/ DecoyPanics(e, payload, mid)
        PROVE  A
    BY <2>3 DEF Send, SendRejected, SealPanics, DecoyPanics
  <2>4. ASSUME NEW e \in Receivers, NEW p \in wire, NEW seq \in 0..MaxSeq,
               NEW mid \in MessageIds, NEW n \in 0..NPaths[p.from],
               NEW S \in SUBSET (1..n), Arrives(e, p, S, n, seq, mid)
        PROVE  A
    <3>1. e \in Ends /\ seq \in Nat
      BY EndsAssumption, LimitAssumption
    <3>2. CASE Receive(e, Arrival(p, S, n), seq, mid)
      BY <3>2 DEF Receive
    <3>3. CASE ReceiveRejected(e, Arrival(p, S, n), seq, mid)
      BY <1>1, <3>1, <3>3, RefusedChangesNothing
    <3> QED BY <2>4, <3>2, <3>3 DEF Arrives
  <2> QED BY <1>1, <2>1, <2>2, <2>3, <2>4 DEF Next
<1> QED
  BY <1>1, Invariance, PTL DEF Spec, ErrorsMutateNothing

------------------------------------------------------------------------------
(* What is on the wire was numbered by its sender's own counter. *)
WireNumbered ==
    \A p \in wire : p.seq < NextSendSeq(p.from)

(* Nothing is on the wire at first. *)
LEMMA InitWireNumbered == Init => WireNumbered
  BY DEF Init, WireNumbered

(* send (channel.rs:79-82 and 93) numbers what it puts on the wire. *)
LEMMA NextWireNumbered == IInv /\ WireNumbered /\ [Next]_vars => WireNumbered'
<1> SUFFICES ASSUME IInv, WireNumbered, [Next]_vars PROVE WireNumbered'
  OBVIOUS
<1>1. CASE UNCHANGED <<wire, send_seq>>
  BY <1>1 DEF WireNumbered, NextSendSeq
<1>2. ASSUME NEW e \in Senders, NEW payload \in Payloads, NEW mid \in MessageIds,
             Send(e, payload, mid) \/ DecoyPanics(e, payload, mid)
      PROVE  WireNumbered'
  <2>1. \A f \in Ends : NextSendSeq(f) \in Nat
    BY DataAssumption DEF IInv, TypeOK, NextSendSeq
  <2>2. e \in Ends /\ NextSendSeq(e) # None
    BY <2>1, EndsAssumption, DataAssumption
  <2>3. send_seq' = [send_seq EXCEPT ![e] = NextSendSeq(e)]
    BY <1>2 DEF Send, DecoyPanics, AdvanceSender
  <2>4. \A f \in Ends : NextSendSeq(f)' = IF f = e THEN NextSendSeq(f) + 1
                                                 ELSE NextSendSeq(f)
    BY <2>2, <2>3 DEF IInv, TypeOK, NextSendSeq
  <2>5. \A p \in wire' : p \in wire \/ (p.from = e /\ p.seq = NextSendSeq(e))
    BY <1>2 DEF Send, DecoyPanics
  <2>6. \A p \in wire : p.from \in Ends /\ p.seq \in Nat
    BY DEF IInv, TypeOK, Packet
  <2> QED BY <2>1, <2>2, <2>4, <2>5, <2>6 DEF WireNumbered
<1>3. ASSUME NEW e \in Receivers, NEW p \in wire, NEW seq \in 0..MaxSeq,
             NEW mid \in MessageIds, NEW n \in 0..NPaths[p.from],
             NEW S \in SUBSET (1..n), Arrives(e, p, S, n, seq, mid)
      PROVE  UNCHANGED <<wire, send_seq>>
  BY <1>3 DEF Arrives, Receive, ReceiveRejected
<1> QED
  BY <1>1, <1>2, <1>3 DEF Next, SendRejected, SealPanics, Tick, vars, channel

(* What an application has seen after a sequence of deliveries. *)
Visible(s) == [i \in 1..Len(s) |-> GotMessage(s[i])]

(* One more delivery is one more message seen. *)
LEMMA VisibleAppend ==
    ASSUME NEW M, NEW s \in Seq(M), NEW d
    PROVE  Visible(Append(s, d)) = Append(Visible(s), GotMessage(d))
<1>1. /\ Len(s) \in Nat /\ Len(Append(s, d)) = Len(s) + 1
      /\ \A i \in 1..(Len(s) + 1) : Append(s, d)[i] = IF i = Len(s) + 1 THEN d ELSE s[i]
  OBVIOUS
<1>2. Len(Visible(s)) = Len(s)
  BY <1>1 DEF Visible
<1>3. Append(Visible(s), GotMessage(d))
        = [i \in 1..(Len(s) + 1) |-> IF i = Len(s) + 1 THEN GotMessage(d)
                                                       ELSE GotMessage(s[i])]
  BY <1>1, <1>2 DEF Visible
<1>4. Visible(Append(s, d))
        = [i \in 1..(Len(s) + 1) |-> IF i = Len(s) + 1 THEN GotMessage(d)
                                                       ELSE GotMessage(s[i])]
  BY <1>1 DEF Visible
<1> QED
  BY <1>3, <1>4

(* A successful send is a send of the contract. *)
LEMMA SendIsContractSend ==
    ASSUME IInv, WireNumbered, NEW e \in Ends, NEW payload \in Payloads,
           NEW mid \in MessageIds, Send(e, payload, mid)
    PROVE  Contract!Send(e, mid, payload)
<1> DEFINE m == [from |-> e, seq |-> NextSendSeq(e), mid |-> mid, payload |-> payload]
           packet == [from |-> e, seq |-> NextSendSeq(e), mid |-> mid,
                      payload |-> payload, key |-> current_key[e]]
<1>1. NextSendSeq(e) \in 0..MaxSeq
  BY DataAssumption, LimitAssumption DEF IInv, TypeOK, NextSendSeq, Send
<1>2. \A q \in SentMessages : q.from = e => q.seq < NextSendSeq(e)
  BY DEF SentMessages, SentMessage, WireNumbered
<1>3. SentMessages' = SentMessages \cup {m}
  <2>1. wire' = wire \cup {packet}
    BY DEF Send
  <2>2. SentMessage(packet) = m
    BY DEF SentMessage
  <2> HIDE DEF packet, m
  <2> QED BY <2>1, <2>2 DEF SentMessages
<1>4. GotMessages' = GotMessages
  BY DEF Send, GotMessages
<1> QED
  BY <1>1, <1>2, <1>3, <1>4 DEF Contract!Send

(* What passes steps 1-3 was sent by another end (a reflected packet needs a key
   that its own end has forgotten) and has not been delivered before. *)
LEMMA AcceptedIsNew ==
    ASSUME IInv,
           NEW e \in Ends, NEW p \in wire, NEW S, NEW n \in 0..NPaths[p.from],
           NEW seq \in 0..MaxSeq, NEW mid \in MessageIds,
           AuthVerdict(e, Arrival(p, S, n), seq, mid) = "Ok"
    PROVE  /\ p.from # e
           /\ \A i \in 1..Len(delivered[e]) : delivered[e][i].seq # seq
<1> DEFINE k == TargetKey(e, seq)
<1>3. /\ IsForward(e, seq) \/ seq \in DOMAIN skipped_keys[e]
      /\ k \in Nat /\ p.key = k
  BY AcceptedIsGenuine
<1>4. p.from # e
  <2> SUFFICES ASSUME p.from = e PROVE FALSE
    OBVIOUS
  <2>1. k < current_key[e] /\ \A s \in DOMAIN skipped_keys[e] : skipped_keys[e][s] # k
    BY <1>3 DEF IInv, UsedKeysForgotten, SentKeys
  <2>2. current_key[e] \in Nat /\ Frontier(e) \in Nat /\ seq \in Nat
    BY DataAssumption, LimitAssumption DEF IInv, TypeOK, Frontier
  <2>3. CASE IsForward(e, seq)
    BY <2>1, <2>2, <2>3 DEF IsForward, TargetKey, Derive
  <2>4. CASE ~IsForward(e, seq)
    BY <2>1, <2>4, <1>3 DEF TargetKey
  <2> QED BY <2>3, <2>4
<1>5. \A i \in 1..Len(delivered[e]) : delivered[e][i].seq # seq
  <2> SUFFICES ASSUME NEW i \in 1..Len(delivered[e]) PROVE delivered[e][i].seq # seq
    OBVIOUS
  <2>1. /\ delivered[e][i].seq < Frontier(e)
        /\ delivered[e][i].seq \notin DOMAIN skipped_keys[e]
        /\ delivered[e][i].seq \in Nat
    BY UsedKeysAreNat DEF IInv, DeliveredBehind
  <2>2. Frontier(e) \in Nat
    BY DataAssumption DEF IInv, TypeOK, Frontier
  <2> QED BY <2>1, <2>2, <1>3 DEF IsForward
<1> QED
  BY <1>4, <1>5

(* A successful receive is a delivery of the contract. *)
LEMMA ReceiveIsContractDeliver ==
    ASSUME IInv,
           NEW e \in Ends, NEW p \in wire, NEW S, NEW n \in 0..NPaths[p.from],
           NEW seq \in 0..MaxSeq, NEW mid \in MessageIds,
           Receive(e, Arrival(p, S, n), seq, mid)
    PROVE  \E m \in SentMessages : Contract!Deliver(e, m)
<1> DEFINE k == TargetKey(e, seq)
           m == [from |-> p.from, seq |-> p.seq, mid |-> p.mid, payload |-> p.payload]
           entry == [seq |-> seq, mid |-> mid, key |-> k,
                     payload |-> Arrival(p, S, n)[Slot(e, seq, mid) + 1].payload]
<1>1. /\ delivered' = [delivered EXCEPT ![e] = Append(delivered[e], entry)]
      /\ wire' = wire
  BY DEF Receive
<1>2. AuthVerdict(e, Arrival(p, S, n), seq, mid) = "Ok"
  BY DEF Receive, ReceiveVerdict
<1>3. /\ IsForward(e, seq) \/ seq \in DOMAIN skipped_keys[e]
      /\ k \in Nat /\ p.seq = seq /\ p.mid = mid /\ p.key = k
      /\ entry.payload = p.payload
  BY <1>2, AcceptedIsGenuine
<1>4. p.from # e /\ \A i \in 1..Len(delivered[e]) : delivered[e][i].seq # seq
  BY <1>2, AcceptedIsNew
<1>6. GotMessages[e] = Visible(delivered[e]) /\ Len(GotMessages[e]) = Len(delivered[e])
  BY DEF GotMessages, Visible, IInv, TypeOK
<1>7. \A i \in 1..Len(GotMessages[e]) : GotMessages[e][i].seq # m.seq
  BY <1>3, <1>4, <1>6 DEF Visible, GotMessage
<1>8. GotMessages' = [GotMessages EXCEPT ![e] = Append(GotMessages[e], GotMessage(m))]
  <2>1. /\ delivered'[e] = Append(delivered[e], entry)
        /\ \A f \in Ends \ {e} : delivered'[f] = delivered[f]
        /\ delivered[e] \in Seq([seq : Nat, mid : MessageIds, payload : Payloads, key : Nat])
    BY <1>1 DEF IInv, TypeOK
  <2>2. GotMessage(entry) = GotMessage(m)
    BY <1>3 DEF GotMessage
  <2> HIDE DEF entry, m
  <2>3. Visible(delivered'[e]) = Append(Visible(delivered[e]), GotMessage(m))
    BY <2>1, <2>2, VisibleAppend
  <2>4. /\ GotMessages = [f \in Ends |-> Visible(delivered[f])]
        /\ GotMessages' = [f \in Ends |-> Visible(delivered'[f])]
    BY DEF GotMessages, Visible
  <2> QED BY <2>1, <2>3, <2>4
<1>9. SentMessages' = SentMessages /\ m \in SentMessages
  BY <1>1 DEF SentMessages, SentMessage
<1>10. Contract!Deliver(e, m)
  BY <1>4, <1>7, <1>8, <1>9 DEF Contract!Deliver, GotMessage
<1> QED
  BY <1>9, <1>10

(* The endpoints implement at-most-once delivery of what was sent: every step of
   send and receive (channel.rs:69-225) is a step of the contract or none. *)
THEOREM Refinement == Spec => ImplementsContract
<1>1. Init => Contract!Init
  <2> SUFFICES ASSUME Init PROVE SentMessages = {} /\ GotMessages = [e \in Ends |-> << >>]
    BY DEF Contract!Init
  <2>1. SentMessages = {}
    BY DEF Init, SentMessages
  <2>2. \A e \in Ends : Len(delivered[e]) = 0
    BY DEF Init
  <2> QED BY <2>1, <2>2 DEF GotMessages
<1>2. ASSUME IInv, WireNumbered, [Next]_vars PROVE [Contract!Next]_(Contract!vars)
  <2>1. CASE UNCHANGED <<wire, delivered>>
    BY <2>1 DEF Contract!vars, SentMessages, GotMessages
  <2>2. ASSUME NEW e \in Senders, NEW payload \in Payloads, NEW mid \in MessageIds,
               Send(e, payload, mid)
        PROVE  Contract!Next
    BY <1>2, <2>2, SendIsContractSend, EndsAssumption DEF Contract!Next
  <2>3. ASSUME NEW e \in Receivers, NEW p \in wire, NEW seq \in 0..MaxSeq,
               NEW mid \in MessageIds, NEW n \in 0..NPaths[p.from],
               NEW S \in SUBSET (1..n),
               Receive(e, Arrival(p, S, n), seq, mid)
        PROVE  Contract!Next
    BY <1>2, <2>3, ReceiveIsContractDeliver, EndsAssumption DEF Contract!Next
  <2> QED
    BY <1>2, <2>1, <2>2, <2>3
       DEF Next, Tick, SendRejected, SealPanics, DecoyPanics, Arrives, ReceiveRejected, vars
<1> QED
  BY <1>1, <1>2, Invariance, InitWireNumbered, NextWireNumbered, PTL
     DEF Spec, Contract!Spec, ImplementsContract
==============================================================================
