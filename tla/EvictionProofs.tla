--------------------------- MODULE EvictionProofs ----------------------------
(***************************************************************************)
(* Proofs about the table of skipped keys (src/channel.rs): it stays       *)
(* bounded, messages are given up oldest first, and in one-way use it      *)
(* holds just what is still needed to open every message not given up.     *)
(***************************************************************************)
EXTENDS SecureChannelProofs, FiniteSetTheorems, WellFoundedInduction

(* A nonempty set of natural numbers has a least element. *)
LEMMA LeastElement ==
    ASSUME NEW T \in SUBSET Nat, T # {}
    PROVE  \E m \in T : \A t \in T : m <= t
<1>1. PICK m \in T : \A t \in T : ~ (<<t, m>> \in OpToRel(<, Nat))
  BY NatLessThanWellFounded, WFMin
<1>2. \A t \in T : ~ (t < m)
  BY <1>1 DEF OpToRel
<1> QED
  BY <1>2

(* evict_oldest_skipped_keys leaves at most MAX_SKIPPED_KEYS entries
   (channel.rs:60): below the least one kept there is none, and above it fewer
   than MAX_SKIPPED_KEYS. *)
LEMMA EvictionBounds ==
    ASSUME NEW keys, IsFiniteSet(DOMAIN keys), DOMAIN keys \subseteq Nat
    PROVE  /\ IsFiniteSet(DOMAIN EvictOldestSkipped(keys))
           /\ Cardinality(DOMAIN EvictOldestSkipped(keys)) <= MAX_SKIPPED_KEYS
<1> DEFINE Above(s) == {t \in DOMAIN keys : t > s}
           kept == {s \in DOMAIN keys : Cardinality(Above(s)) < MAX_SKIPPED_KEYS}
<1>1. DOMAIN EvictOldestSkipped(keys) = kept
  BY DEF EvictOldestSkipped
<1>2. IsFiniteSet(kept) /\ Cardinality(kept) \in Nat
  BY FS_Subset, FS_CardinalityType
<1>3. CASE kept = {}
  <2> HIDE DEF kept
  <2> QED BY <1>1, <1>2, <1>3, FS_EmptySet, LimitAssumption
<1>4. CASE kept # {}
  <2>1. PICK m \in kept : \A t \in kept : m <= t
    BY <1>4, LeastElement
  <2>2. Cardinality(Above(m)) < MAX_SKIPPED_KEYS
    BY <2>1
  <2>3. kept \ {m} \subseteq Above(m)
    BY <2>1
  <2>4. IsFiniteSet(Above(m)) /\ Cardinality(Above(m)) \in Nat
    BY FS_Subset, FS_CardinalityType
  <2>5. Cardinality(kept \ {m}) <= Cardinality(Above(m))
    <3> HIDE DEF Above, kept
    <3> QED BY <2>3, <2>4, FS_Subset
  <2>6. Cardinality(kept \ {m}) = Cardinality(kept) - 1
    <3> HIDE DEF kept
    <3> QED BY <1>2, <2>1, FS_RemoveElement
  <2> HIDE DEF kept, Above
  <2> QED BY <1>1, <1>2, <2>2, <2>4, <2>5, <2>6, LimitAssumption
<1> QED
  BY <1>3, <1>4

(* Of two entries, evict_oldest_skipped_keys keeps the newer whenever it keeps
   the older (pop_first, channel.rs:62). *)
LEMMA EvictionKeepsNewest ==
    ASSUME NEW keys, IsFiniteSet(DOMAIN keys), DOMAIN keys \subseteq Nat,
           NEW s \in DOMAIN keys, s \notin DOMAIN EvictOldestSkipped(keys),
           NEW t \in DOMAIN EvictOldestSkipped(keys)
    PROVE  s < t
<1> DEFINE Above(x) == {y \in DOMAIN keys : y > x}
<1>1. /\ t \in DOMAIN keys /\ Cardinality(Above(t)) < MAX_SKIPPED_KEYS
      /\ ~(Cardinality(Above(s)) < MAX_SKIPPED_KEYS)
  BY DEF EvictOldestSkipped
<1>2. s \in Nat /\ t \in Nat /\ s # t
  BY <1>1
<1>3. /\ Cardinality(Above(s)) \in Nat /\ Cardinality(Above(t)) \in Nat
      /\ IsFiniteSet(Above(t))
  BY FS_Subset, FS_CardinalityType
<1>4. ASSUME t < s PROVE FALSE
  <2>1. Above(s) \subseteq Above(t)
    BY <1>2, <1>4
  <2>2. Cardinality(Above(s)) <= Cardinality(Above(t))
    <3> HIDE DEF Above
    <3> QED BY <1>3, <2>1, FS_Subset
  <2> HIDE DEF Above
  <2> QED BY <1>1, <1>3, <2>2, LimitAssumption
<1> QED
  BY <1>2, <1>4

------------------------------------------------------------------------------
(* How one call of receive changes the table: a forward commit merges the keys
   passed over and evicts, an out-of-order commit removes the key it used. *)
LEMMA TableStep ==
    ASSUME IInv,
           NEW e \in Ends, NEW p \in wire, NEW S, NEW n \in 0..NPaths[p.from],
           NEW seq \in 0..MaxSeq, NEW mid \in MessageIds,
           Receive(e, Arrival(p, S, n), seq, mid)
    PROVE  /\ \A f \in Ends \ {e} : /\ skipped_keys'[f] = skipped_keys[f]
                                    /\ Frontier(f)' = Frontier(f)
                                    /\ DeliveredSeqs(f)' = DeliveredSeqs(f)
           /\ DeliveredSeqs(e)' = DeliveredSeqs(e) \cup {seq}
           /\ \/ /\ seq >= Frontier(e) /\ Frontier(e)' = seq + 1
                 /\ skipped_keys'[e]
                      = EvictOldestSkipped(Merge(LocalSkipped(e, seq), skipped_keys[e]))
              \/ /\ Frontier(e)' = Frontier(e)
                 /\ DOMAIN skipped_keys'[e] = DOMAIN skipped_keys[e] \ {seq}
<1> DEFINE m == [seq |-> seq, mid |-> mid, key |-> TargetKey(e, seq),
                 payload |-> Arrival(p, S, n)[Slot(e, seq, mid) + 1].payload]
           Message == [seq : Nat, mid : MessageIds, payload : Payloads, key : Nat]
<1>1. /\ CommitForward(e, seq) \/ CommitSkipped(e, seq)
      /\ delivered' = [delivered EXCEPT ![e] = Append(delivered[e], m)]
  BY DEF Receive
<1>2. /\ delivered \in [Ends -> Seq(Message)] /\ last_seq \in [Ends -> Nat \cup {None}]
      /\ skipped_keys = [f \in Ends |-> skipped_keys[f]]
  BY DEF IInv, TypeOK
<1>3. seq \in Nat /\ seq # None
  BY DataAssumption, LimitAssumption
<1>4. m.seq = seq
  OBVIOUS
<1> HIDE DEF m, Message
<1>5. /\ \A f \in Ends \ {e} : delivered'[f] = delivered[f]
      /\ Len(delivered[e]) \in Nat /\ Len(delivered'[e]) = Len(delivered[e]) + 1
      /\ \A i \in 1..Len(delivered[e]) : delivered'[e][i] = delivered[e][i]
      /\ delivered'[e][Len(delivered[e]) + 1] = m
  BY <1>1, <1>2
<1>6. \A f \in Ends \ {e} : DeliveredSeqs(f)' = DeliveredSeqs(f)
  BY <1>5 DEF DeliveredSeqs
<1>7. DeliveredSeqs(e)' = DeliveredSeqs(e) \cup {seq}
  <2>1. ASSUME NEW x \in DeliveredSeqs(e)' PROVE x \in DeliveredSeqs(e) \cup {seq}
    <3>1. PICK i \in 1..(Len(delivered[e]) + 1) : x = delivered'[e][i].seq
      BY <2>1, <1>5 DEF DeliveredSeqs
    <3>2. CASE i = Len(delivered[e]) + 1
      BY <3>1, <3>2, <1>4, <1>5
    <3>3. CASE i \in 1..Len(delivered[e])
      BY <3>1, <3>3, <1>5 DEF DeliveredSeqs
    <3> QED BY <3>2, <3>3, <1>5
  <2>2. ASSUME NEW x \in DeliveredSeqs(e) PROVE x \in DeliveredSeqs(e)'
    <3>1. PICK i \in 1..Len(delivered[e]) : x = delivered[e][i].seq
      BY <2>2 DEF DeliveredSeqs
    <3>2. i \in 1..Len(delivered'[e]) /\ x = delivered'[e][i].seq
      BY <3>1, <1>5
    <3> QED BY <3>2 DEF DeliveredSeqs
  <2>3. seq \in DeliveredSeqs(e)'
    <3>1. /\ Len(delivered[e]) + 1 \in 1..Len(delivered'[e])
          /\ seq = delivered'[e][Len(delivered[e]) + 1].seq
      BY <1>4, <1>5
    <3> QED BY <3>1 DEF DeliveredSeqs
  <2> QED BY <2>1, <2>2, <2>3
<1>8. CASE CommitForward(e, seq)
  <2>1. /\ seq >= Frontier(e) /\ last_seq' = [last_seq EXCEPT ![e] = seq]
        /\ skipped_keys' = [skipped_keys EXCEPT
             ![e] = EvictOldestSkipped(Merge(LocalSkipped(e, seq), skipped_keys[e]))]
    BY <1>8 DEF CommitForward, IsForward
  <2>2. Frontier(e)' = seq + 1 /\ \A f \in Ends \ {e} : Frontier(f)' = Frontier(f)
    BY <1>2, <1>3, <2>1 DEF Frontier
  <2>3. /\ skipped_keys'[e]
             = EvictOldestSkipped(Merge(LocalSkipped(e, seq), skipped_keys[e]))
        /\ \A f \in Ends \ {e} : skipped_keys'[f] = skipped_keys[f]
    BY <1>2, <2>1
  <2> QED BY <1>6, <1>7, <2>1, <2>2, <2>3
<1>9. CASE CommitSkipped(e, seq)
  <2>1. /\ last_seq' = last_seq
        /\ skipped_keys' = [skipped_keys EXCEPT
             ![e] = [s \in DOMAIN skipped_keys[e] \ {seq} |-> skipped_keys[e][s]]]
    BY <1>9 DEF CommitSkipped
  <2>2. \A f \in Ends : Frontier(f)' = Frontier(f)
    BY <2>1 DEF Frontier
  <2>3. /\ DOMAIN skipped_keys'[e] = DOMAIN skipped_keys[e] \ {seq}
        /\ \A f \in Ends \ {e} : skipped_keys'[f] = skipped_keys[f]
    BY <1>2, <2>1
  <2> QED BY <1>6, <1>7, <2>2, <2>3
<1> QED
  BY <1>1, <1>8, <1>9

(* Both the table and the table just before an eviction are finite sets of
   natural numbers. *)
LEMMA TableFinite ==
    ASSUME IInv, NEW e \in Ends, NEW seq \in 0..MaxSeq
    PROVE  /\ Frontier(e) \in Nat
           /\ DOMAIN skipped_keys[e] \subseteq Nat /\ IsFiniteSet(DOMAIN skipped_keys[e])
           /\ DOMAIN Merge(LocalSkipped(e, seq), skipped_keys[e])
                = (Frontier(e)..(seq - 1)) \cup DOMAIN skipped_keys[e]
           /\ DOMAIN Merge(LocalSkipped(e, seq), skipped_keys[e]) \subseteq Nat
           /\ IsFiniteSet(DOMAIN Merge(LocalSkipped(e, seq), skipped_keys[e]))
<1> DEFINE merged == DOMAIN Merge(LocalSkipped(e, seq), skipped_keys[e])
<1>1. Frontier(e) \in Nat /\ DOMAIN skipped_keys[e] \subseteq Nat
  BY DataAssumption DEF IInv, TypeOK, Frontier
<1>2. DOMAIN skipped_keys[e] \subseteq 0..MaxSeq
  <2>1. \A s \in DOMAIN skipped_keys[e] : s < Frontier(e) /\ Frontier(e) <= MaxSeq + 1
    BY DEF IInv, SkippedBehind, KeyPosition
  <2> QED BY <1>1, <2>1, LimitAssumption
<1>3. merged = (Frontier(e)..(seq - 1)) \cup DOMAIN skipped_keys[e]
  BY DEF Merge, LocalSkipped
<1>4. merged \subseteq 0..MaxSeq
  BY <1>1, <1>2, <1>3, LimitAssumption
<1>5. IsFiniteSet(0..MaxSeq) /\ 0..MaxSeq \subseteq Nat
  BY FS_Interval, LimitAssumption
<1>6. IsFiniteSet(DOMAIN skipped_keys[e]) /\ IsFiniteSet(merged)
  <2> HIDE DEF merged
  <2> QED BY <1>2, <1>4, <1>5, FS_Subset
<1> QED
  BY <1>1, <1>3, <1>4, <1>5, <1>6

EvictionInv == SkippedBounded /\ OldestGivenUpFirst

(* A new channel has skipped nothing and lost nothing. *)
LEMMA InitEvictionInv == Init => EvictionInv
<1> SUFFICES ASSUME Init PROVE EvictionInv
  OBVIOUS
<1>1. \A e \in Ends : DOMAIN skipped_keys[e] = {}
  BY DEF Init
<1> QED
  BY <1>1, FS_EmptySet, LimitAssumption DEF EvictionInv, SkippedBounded, OldestGivenUpFirst

(* A successful receive keeps the table bounded and gives up the oldest first. *)
LEMMA ReceiveKeepsEvictionInv ==
    ASSUME IInv, EvictionInv,
           NEW e \in Ends, NEW p \in wire, NEW S, NEW n \in 0..NPaths[p.from],
           NEW seq \in 0..MaxSeq, NEW mid \in MessageIds,
           Receive(e, Arrival(p, S, n), seq, mid)
    PROVE  EvictionInv'
<1> DEFINE table == Merge(LocalSkipped(e, seq), skipped_keys[e])
<1>1. \A f \in Ends \ {e} : /\ skipped_keys'[f] = skipped_keys[f]
                            /\ Frontier(f)' = Frontier(f)
                            /\ DeliveredSeqs(f)' = DeliveredSeqs(f)
  BY TableStep
<1>2. DeliveredSeqs(e)' = DeliveredSeqs(e) \cup {seq}
  BY TableStep
<1>3. \/ /\ seq >= Frontier(e) /\ Frontier(e)' = seq + 1
         /\ skipped_keys'[e] = EvictOldestSkipped(table)
      \/ /\ Frontier(e)' = Frontier(e)
         /\ DOMAIN skipped_keys'[e] = DOMAIN skipped_keys[e] \ {seq}
  BY TableStep
<1>4. /\ Frontier(e) \in Nat /\ seq \in Nat
      /\ DOMAIN skipped_keys[e] \subseteq Nat /\ IsFiniteSet(DOMAIN skipped_keys[e])
      /\ DOMAIN table = (Frontier(e)..(seq - 1)) \cup DOMAIN skipped_keys[e]
      /\ DOMAIN table \subseteq Nat /\ IsFiniteSet(DOMAIN table)
  <2>1. seq \in Nat
    BY LimitAssumption
  <2> QED BY <2>1, TableFinite
<1> HIDE DEF table
<1>5. SkippedBounded'
  <2> SUFFICES ASSUME NEW f \in Ends
               PROVE  Cardinality(DOMAIN skipped_keys'[f]) <= MAX_SKIPPED_KEYS
    BY DEF SkippedBounded
  <2>1. CASE f # e
    BY <2>1, <1>1 DEF EvictionInv, SkippedBounded
  <2>2. CASE f = e /\ skipped_keys'[e] = EvictOldestSkipped(table)
    BY <2>2, <1>4, EvictionBounds
  <2>3. CASE f = e /\ DOMAIN skipped_keys'[e] = DOMAIN skipped_keys[e] \ {seq}
    <3>1. /\ Cardinality(DOMAIN skipped_keys'[e]) <= Cardinality(DOMAIN skipped_keys[e])
          /\ Cardinality(DOMAIN skipped_keys'[e]) \in Nat
          /\ Cardinality(DOMAIN skipped_keys[e]) \in Nat
      BY <2>3, <1>4, FS_Subset, FS_CardinalityType
    <3>2. Cardinality(DOMAIN skipped_keys[e]) <= MAX_SKIPPED_KEYS
      BY DEF EvictionInv, SkippedBounded
    <3> QED BY <2>3, <3>1, <3>2, LimitAssumption
  <2> QED BY <2>1, <2>2, <2>3, <1>3
<1>6. OldestGivenUpFirst'
  <2> SUFFICES ASSUME NEW f \in Ends, NEW s \in LostSeqs(f)',
                      NEW t \in DOMAIN skipped_keys'[f]
               PROVE  s < t
    BY DEF OldestGivenUpFirst
  <2>1. CASE f # e
    BY <2>1, <1>1 DEF EvictionInv, OldestGivenUpFirst, LostSeqs
  <2>2. CASE f = e
    <3>1. /\ s \in 0..(Frontier(e)' - 1) /\ s \notin DOMAIN skipped_keys'[e]
          /\ s # seq /\ s \notin DeliveredSeqs(e)
      BY <2>2, <1>2 DEF LostSeqs
    <3>2. \A x \in DOMAIN skipped_keys[e] : s \in LostSeqs(e) => s < x
      BY DEF EvictionInv, OldestGivenUpFirst
    <3>3. CASE /\ seq >= Frontier(e) /\ Frontier(e)' = seq + 1
               /\ skipped_keys'[e] = EvictOldestSkipped(table)
      <4>1. t \in DOMAIN table /\ t \in Nat
        BY <2>2, <3>3, <1>4 DEF EvictOldestSkipped
      <4>2. CASE s \in DOMAIN table
        BY <2>2, <3>1, <3>3, <4>2, <1>4, EvictionKeepsNewest
      <4>3. CASE s \notin DOMAIN table
        <5>1. s \in Nat /\ s < Frontier(e) /\ s \in LostSeqs(e)
          BY <3>1, <3>3, <4>3, <1>4 DEF LostSeqs
        <5> QED BY <4>1, <5>1, <3>2, <1>4
      <4> QED BY <4>2, <4>3
    <3>4. CASE /\ Frontier(e)' = Frontier(e)
               /\ DOMAIN skipped_keys'[e] = DOMAIN skipped_keys[e] \ {seq}
      BY <2>2, <3>1, <3>2, <3>4 DEF LostSeqs
    <3> QED BY <3>3, <3>4, <1>3
  <2> QED BY <2>1, <2>2
<1> QED
  BY <1>5, <1>6 DEF EvictionInv

(* Every call keeps both. *)
LEMMA NextKeepsEvictionInv == IInv /\ EvictionInv /\ [Next]_vars => EvictionInv'
<1> SUFFICES ASSUME IInv, EvictionInv, [Next]_vars PROVE EvictionInv'
  OBVIOUS
<1>1. CASE UNCHANGED <<last_seq, skipped_keys, delivered>>
  BY <1>1 DEF EvictionInv, SkippedBounded, OldestGivenUpFirst, LostSeqs, DeliveredSeqs,
              Frontier
<1>2. ASSUME NEW e \in Senders, NEW payload \in Payloads, NEW mid \in MessageIds,
             \/ Send(e, payload, mid)
             \/ SendRejected(e, payload, mid)
             \/ SealPanics(e, payload, mid)
             \/ DecoyPanics(e, payload, mid)
      PROVE  UNCHANGED <<last_seq, skipped_keys, delivered>>
  BY <1>2 DEF Send, SendRejected, SealPanics, DecoyPanics, AdvanceSender, channel
<1>3. ASSUME NEW e \in Receivers, NEW p \in wire, NEW seq \in 0..MaxSeq,
             NEW mid \in MessageIds, NEW n \in 0..NPaths[p.from],
             NEW S \in SUBSET (1..n), Arrives(e, p, S, n, seq, mid)
      PROVE  EvictionInv'
  <2>1. CASE Receive(e, Arrival(p, S, n), seq, mid)
    BY <2>1, ReceiveKeepsEvictionInv, EndsAssumption
  <2>2. CASE ReceiveRejected(e, Arrival(p, S, n), seq, mid)
    BY <2>2, <1>1 DEF ReceiveRejected
  <2> QED BY <1>3, <2>1, <2>2 DEF Arrives
<1> QED
  BY <1>1, <1>2, <1>3 DEF Next, Tick, vars, channel

(* The table of skipped keys never holds more than MAX_SKIPPED_KEYS entries
   between two calls (channel.rs:59-66), for every window and every limit. *)
THEOREM SkippedKeysBounded == Spec => []SkippedBounded
<1>1. EvictionInv => SkippedBounded
  BY DEF EvictionInv
<1> QED
  BY <1>1, Invariance, InitEvictionInv, NextKeepsEvictionInv, PTL DEF Spec

(* A message that can no longer be delivered is older than every message whose
   key is still held (pop_first, channel.rs:62). *)
THEOREM GivesUpOldestFirst == Spec => []OldestGivenUpFirst
<1>1. EvictionInv => OldestGivenUpFirst
  BY DEF EvictionInv
<1> QED
  BY <1>1, Invariance, InitEvictionInv, NextKeepsEvictionInv, PTL DEF Spec

------------------------------------------------------------------------------
(* One-way use: whoever sends does not receive.  An end's own messages and its
   peer's draw on the same ratchet (channel.rs:92 and 217), so that only then the
   two ratchets stay in step. *)
OneWay == Senders \cap Receivers = {}
SingleSender == \A e, f \in Senders : e = f

(* At an end that works in one direction every key in sight is as far down the
   chain as its sequence number says: those on the wire, those held for skipped
   messages, and those of delivered ones. *)
KeysInStep ==
    /\ \A e \in Ends \ Receivers : last_seq[e] = None
    /\ \A e \in Ends \ Senders : send_seq[e] = None
    /\ \A e \in Ends \ Senders : \A s \in DOMAIN skipped_keys[e] : skipped_keys[e][s] = s
    /\ \A e \in Ends \ Senders : \A i \in 1..Len(delivered[e]) :
          delivered[e][i].key = delivered[e][i].seq
    /\ \A p \in wire : /\ p.from \in Senders
                       /\ p.from \notin Receivers => p.key = p.seq
                       /\ SendVerdict(p.from, p.payload, p.mid) = "Ok"
    /\ \A p, q \in wire : (p.from = q.from /\ p.seq = q.seq) => p = q

(* SecureChannel::new (channel.rs:37-46) starts every end at the same key. *)
LEMMA InitKeysInStep == Init => KeysInStep
  BY EndsAssumption DEF Init, KeysInStep

(* Both ratchets move by one key per sequence number (channel.rs:92, 126-143). *)
LEMMA NextKeysInStep ==
    ASSUME IInv, WireNumbered, KeysInStep, [Next]_vars
    PROVE  KeysInStep'
<1>1. \A e \in Ends : /\ current_key[e] = Frontier(e) + NextSendSeq(e)
                      /\ Frontier(e) \in Nat /\ NextSendSeq(e) \in Nat
  BY DataAssumption DEF IInv, TypeOK, KeyPosition, Frontier, NextSendSeq
<1>2. CASE UNCHANGED <<last_seq, send_seq, skipped_keys, wire, delivered>>
  BY <1>2 DEF KeysInStep, SendVerdict
<1>3. ASSUME NEW e \in Senders, NEW payload \in Payloads, NEW mid \in MessageIds,
             Send(e, payload, mid) \/ DecoyPanics(e, payload, mid)
      PROVE  KeysInStep'
  <2> DEFINE packet == [from |-> e, seq |-> NextSendSeq(e), mid |-> mid,
                        payload |-> payload, key |-> current_key[e]]
  <2>1. e \in Ends
    BY EndsAssumption
  <2>2. ASSUME e \notin Receivers PROVE current_key[e] = NextSendSeq(e)
    <3>1. Frontier(e) = 0
      BY <2>1, <2>2 DEF KeysInStep, Frontier
    <3> QED BY <1>1, <2>1, <3>1
  <2>3. /\ wire' \subseteq wire \cup {packet}
        /\ SendVerdict(e, payload, mid) = "Ok"
        /\ last_seq' = last_seq /\ skipped_keys' = skipped_keys
        /\ delivered' = delivered
        /\ send_seq' = [send_seq EXCEPT ![e] = NextSendSeq(e)]
    BY <1>3 DEF Send, DecoyPanics, AdvanceSender
  <2>4. \A f \in Ends \ Senders : send_seq'[f] = None
    <3>1. send_seq \in [Ends -> Nat \cup {None}]
      BY DEF IInv, TypeOK
    <3> QED BY <2>3, <3>1 DEF KeysInStep
  <2>5. /\ packet.from = e /\ packet.seq = NextSendSeq(e)
        /\ e \notin Receivers => packet.key = packet.seq
        /\ SendVerdict(packet.from, packet.payload, packet.mid) = "Ok"
    BY <2>2, <2>3
  <2>6. \A p \in wire : p.from = e => p.seq # NextSendSeq(e)
    <3>1. \A p \in wire : p.seq \in Nat
      BY DEF IInv, TypeOK, Packet
    <3> QED BY <1>1, <2>1, <3>1 DEF WireNumbered
  <2> HIDE DEF packet
  <2>7. \A p \in wire' : /\ p.from \in Senders
                         /\ p.from \notin Receivers => p.key = p.seq
                         /\ SendVerdict(p.from, p.payload, p.mid) = "Ok"
    BY <2>3, <2>5 DEF KeysInStep
  <2>8. \A p, q \in wire' : (p.from = q.from /\ p.seq = q.seq) => p = q
    BY <2>3, <2>5, <2>6 DEF KeysInStep
  <2> QED BY <2>3, <2>4, <2>7, <2>8 DEF KeysInStep, SendVerdict
<1>4. ASSUME NEW e \in Receivers, NEW p \in wire, NEW seq \in 0..MaxSeq,
             NEW mid \in MessageIds, NEW n \in 0..NPaths[p.from],
             NEW S \in SUBSET (1..n), Receive(e, Arrival(p, S, n), seq, mid)
      PROVE  KeysInStep'
  <2> DEFINE m == [seq |-> seq, mid |-> mid, key |-> TargetKey(e, seq),
                   payload |-> Arrival(p, S, n)[Slot(e, seq, mid) + 1].payload]
  <2>1. e \in Ends
    BY EndsAssumption
  <2>2. AuthVerdict(e, Arrival(p, S, n), seq, mid) = "Ok"
    BY <1>4 DEF Receive, ReceiveVerdict
  <2>3. /\ IsForward(e, seq) \/ seq \in DOMAIN skipped_keys[e]
        /\ CommitForward(e, seq) \/ CommitSkipped(e, seq)
        /\ delivered' = [delivered EXCEPT ![e] = Append(delivered[e], m)]
        /\ send_seq' = send_seq /\ wire' = wire
    BY <1>4, <2>1, <2>2, AcceptedIsGenuine DEF Receive
  <2>4. /\ \A f \in Ends \ {e} : skipped_keys'[f] = skipped_keys[f]
        /\ \A s \in DOMAIN skipped_keys'[e] :
              /\ s \in Nat
              /\ \/ s \in DOMAIN skipped_keys[e] /\ skipped_keys'[e][s] = skipped_keys[e][s]
                 \/ s >= Frontier(e) /\ skipped_keys'[e][s] = current_key[e] + (s - Frontier(e))
    BY <2>1, <2>3, CommitFacts
  <2>5. ASSUME e \notin Senders PROVE current_key[e] = Frontier(e)
    <3>1. NextSendSeq(e) = 0
      BY <2>1, <2>5 DEF KeysInStep, NextSendSeq
    <3> QED BY <1>1, <2>1, <3>1
  <2>6. ASSUME e \notin Senders, NEW s \in DOMAIN skipped_keys'[e]
        PROVE  skipped_keys'[e][s] = s
    <3>1. CASE s \in DOMAIN skipped_keys[e] /\ skipped_keys'[e][s] = skipped_keys[e][s]
      BY <2>1, <2>6, <3>1 DEF KeysInStep
    <3>2. CASE skipped_keys'[e][s] = current_key[e] + (s - Frontier(e))
      <4>1. s \in Nat /\ Frontier(e) \in Nat
        BY <1>1, <2>1, <2>4, <2>6
      <4> QED BY <2>5, <2>6, <3>2, <4>1
    <3> QED BY <2>4, <2>6, <3>1, <3>2
  <2>7. \A f \in Ends \ Senders : \A s \in DOMAIN skipped_keys'[f] : skipped_keys'[f][s] = s
    BY <2>1, <2>4, <2>6 DEF KeysInStep
  <2>8. \A f \in Ends \ Receivers : last_seq'[f] = None
    <3>1. last_seq \in [Ends -> Nat \cup {None}]
      BY DEF IInv, TypeOK
    <3> QED BY <2>3, <3>1 DEF CommitForward, CommitSkipped, KeysInStep
  <2>9. ASSUME e \notin Senders PROVE m.key = m.seq
    <3>1. seq \in Nat /\ Frontier(e) \in Nat
      BY <1>1, <2>1, LimitAssumption
    <3>2. CASE IsForward(e, seq)
      BY <2>5, <2>9, <3>1, <3>2 DEF TargetKey, Derive
    <3>3. CASE ~IsForward(e, seq)
      BY <2>1, <2>3, <2>9, <3>3 DEF TargetKey, KeysInStep
    <3> QED BY <3>2, <3>3
  <2>10. ASSUME NEW f \in Ends \ Senders, NEW i \in 1..Len(delivered'[f])
         PROVE  delivered'[f][i].key = delivered'[f][i].seq
    <3> DEFINE Message == [seq : Nat, mid : MessageIds, payload : Payloads, key : Nat]
    <3>1. delivered \in [Ends -> Seq(Message)]
      BY DEF IInv, TypeOK
    <3> HIDE DEF m, Message
    <3>2. CASE f # e
      BY <2>1, <2>3, <2>10, <3>1, <3>2 DEF KeysInStep
    <3>3. CASE f = e
      <4>1. /\ Len(delivered[e]) \in Nat /\ Len(delivered'[e]) = Len(delivered[e]) + 1
            /\ \A j \in 1..Len(delivered[e]) : delivered'[e][j] = delivered[e][j]
            /\ delivered'[e][Len(delivered[e]) + 1] = m
        BY <2>1, <2>3, <3>1
      <4>2. CASE i = Len(delivered[e]) + 1
        BY <2>9, <2>10, <3>3, <4>1, <4>2
      <4>3. CASE i \in 1..Len(delivered[e])
        BY <2>10, <3>3, <4>1, <4>3 DEF KeysInStep
      <4> QED BY <2>10, <3>3, <4>1, <4>2, <4>3
    <3> QED BY <3>2, <3>3
  <2> HIDE DEF m
  <2> QED BY <2>3, <2>7, <2>8, <2>10 DEF KeysInStep, SendVerdict
<1>5. ASSUME NEW e \in Receivers, NEW envs, NEW seq, NEW mid, ReceiveRejected(e, envs, seq, mid)
      PROVE  UNCHANGED <<last_seq, send_seq, skipped_keys, wire, delivered>>
  BY <1>5 DEF ReceiveRejected
<1> QED
  BY <1>2, <1>3, <1>4, <1>5
     DEF Next, SendRejected, SealPanics, Tick, Arrives, vars, channel

(* So keys and sequence numbers stay in step for ever. *)
LEMMA StaysInStep == Spec => [](IInv /\ KeysInStep)
<1>1. IInv /\ WireNumbered /\ KeysInStep /\ [Next]_vars => KeysInStep'
  BY NextKeysInStep
<1> QED
  BY <1>1, Invariance, InitWireNumbered, NextWireNumbered, InitKeysInStep, PTL DEF Spec

(* At every end that only sends or only receives, key n and sequence number n
   belong together (README.md:191), through panics, jumps, late arrivals and
   evictions, whatever the other ends do. *)
THEOREM KeysFollowSequence == Spec => []KeyOfSequence
<1>1. ASSUME IInv, KeysInStep PROVE KeyOfSequence
  <2>1. \A e \in Ends \ Receivers : current_key[e] = NextSendSeq(e)
    <3> TAKE e \in Ends \ Receivers
    <3>1. current_key[e] = Frontier(e) + NextSendSeq(e) /\ NextSendSeq(e) \in Nat
      BY <1>1, DataAssumption DEF IInv, TypeOK, KeyPosition, NextSendSeq
    <3>2. Frontier(e) = 0
      BY <1>1 DEF KeysInStep, Frontier
    <3> QED BY <3>1, <3>2
  <2> QED BY <1>1, <2>1 DEF KeysInStep, KeyOfSequence
<1> QED
  BY <1>1, StaysInStep, PTL

(* With one sender that only sends, no two packets are sealed under the same
   key (README.md:188-191, envelope.rs:34-35). *)
THEOREM OneWayKeysSingleUse ==
    ASSUME OneWay, SingleSender
    PROVE  Spec => []SingleUseKeys
<1>1. KeysInStep => SingleUseKeys
  BY DEF KeysInStep, OneWay, SingleSender, SingleUseKeys
<1> QED
  BY <1>1, StaysInStep, PTL

(* The slot that the receiver looks at is the slot the sender filled: an intact
   packet whose key the receiver holds is opened (channel.rs:150-199). *)
LEMMA IntactOpens ==
    ASSUME OneWay, IInv, KeysInStep, NEW e \in Ends \ Senders, NEW p \in wire,
           NPaths[e] = NPaths[p.from], Step1Verdict(e, p.seq, p.mid) = "Ok"
    PROVE  ReceiveVerdict(e, Intact(p), p.seq, p.mid) = "Ok"
<1> DEFINE n == NPaths[p.from]
           slot == Slot(e, p.seq, p.mid)
           env == Intact(p)[slot + 1]
<1>1. /\ p \in Packet /\ p.from \in Ends /\ p.seq \in Nat /\ p.key \in Nat
      /\ p.mid \in MessageIds /\ p.key = p.seq
  BY DEF IInv, TypeOK, Packet, KeysInStep, OneWay
<1>2. n \in Nat /\ n # 0 /\ p.mid \notin LongIds
  BY <1>1, EndsAssumption DEF KeysInStep, SendVerdict
<1>3. /\ current_key[e] = Frontier(e) + NextSendSeq(e)
      /\ Frontier(e) \in Nat /\ NextSendSeq(e) = 0
  BY DataAssumption DEF IInv, TypeOK, KeyPosition, Frontier, NextSendSeq, KeysInStep
<1>4. TargetKey(e, p.seq) = p.key
  <2>1. CASE IsForward(e, p.seq)
    BY <1>1, <1>3, <2>1 DEF TargetKey, Derive
  <2>2. CASE ~IsForward(e, p.seq)
    BY <1>1, <2>2 DEF TargetKey, Step1Verdict, KeysInStep
  <2> QED BY <2>1, <2>2
<1>5. slot = select_slot(p.key, p.mid, n)
  BY <1>4 DEF Slot
<1>6. Hmac(p.key, p.mid) \in Nat
  <2>1. p.key \in 0..(2 * MaxSeq + 2)
    <3>1. p.key < current_key[p.from]
      BY <1>1 DEF IInv, UsedKeysForgotten, SentKeys
    <3>2. /\ current_key[p.from] = Frontier(p.from) + NextSendSeq(p.from)
          /\ Frontier(p.from) <= MaxSeq + 1 /\ NextSendSeq(p.from) <= MaxSeq + 1
          /\ Frontier(p.from) \in Nat /\ NextSendSeq(p.from) \in Nat
      <4>1. \A f \in Ends : /\ current_key[f] = Frontier(f) + NextSendSeq(f)
                            /\ Frontier(f) <= MaxSeq + 1 /\ NextSendSeq(f) <= MaxSeq + 1
        BY DEF IInv, KeyPosition
      <4>2. \A f \in Ends : Frontier(f) \in Nat /\ NextSendSeq(f) \in Nat
        BY DataAssumption DEF IInv, TypeOK, Frontier, NextSendSeq
      <4> QED BY <1>1, <4>1, <4>2
    <3> QED BY <1>1, <3>1, <3>2, LimitAssumption
  <2> QED BY <1>1, <2>1, DataAssumption
<1>7. slot \in 0..(n - 1)
  <2> DEFINE h == Hmac(p.key, p.mid)
  <2>1. slot = h % n
    BY <1>5 DEF select_slot
  <2> HIDE DEF h, n, slot
  <2>2. h % n \in 0..(n - 1)
    BY <1>2, <1>6 DEF h
  <2> QED BY <2>1, <2>2
<1>8. Len(Intact(p)) = n /\ env = Envelopes(p)[slot + 1]
  <2>1. Intact(p) = [i \in 1..n |-> Envelopes(p)[i]]
    BY DEF Intact, Arrival
  <2>2. slot + 1 \in 1..n
    <3> HIDE DEF slot, n
    <3> QED BY <1>2, <1>7
  <2> HIDE DEF slot, n
  <2> QED BY <1>2, <2>1, <2>2 DEF n
<1>9. Envelopes(p)[slot + 1] = Seal(p.key, p.payload, Aad(p.seq, p.mid))
  <2>1. slot + 1 \in 1..n
    <3> HIDE DEF slot, n
    <3> QED BY <1>2, <1>7
  <2>2. Envelopes(p) = [i \in 1..n |-> IF i = slot + 1 THEN Seal(p.key, p.payload, Aad(p.seq, p.mid))
                                                   ELSE Decoy(Aad(p.seq, p.mid))]
    BY <1>5 DEF Envelopes, MultiPathSlots
  <2> HIDE DEF slot, n
  <2> QED BY <2>1, <2>2
<1>10. Opens(TargetKey(e, p.seq), env, Aad(p.seq, p.mid))
  <2> HIDE DEF env
  <2> QED BY <1>4, <1>8, <1>9 DEF Opens, Seal
<1>11. ~(slot >= n)
  <2> HIDE DEF slot, n
  <2> QED BY <1>2, <1>7
<1>12. AuthVerdict(e, Intact(p), p.seq, p.mid) = "Ok"
  <2>1. Len(Intact(p)) = NPaths[e] /\ NPaths[e] # 0 /\ ~(NPaths[e] < NPaths[e])
    BY <1>2, <1>8
  <2> QED BY <1>2, <1>8, <1>10, <1>11, <2>1 DEF AuthVerdict
<1> QED
  BY <1>1, <1>12, Step4NeverRefuses

(* The frontier is where the newest delivered message put it (channel.rs:216). *)
FrontierDelivered ==
    \A e \in Ends : Frontier(e) = 0 \/ Frontier(e) - 1 \in DeliveredSeqs(e)

(* Only a forward receive moves the frontier, to the message it delivers. *)
LEMMA NextFrontierDelivered ==
    ASSUME IInv, FrontierDelivered, [Next]_vars
    PROVE  FrontierDelivered'
<1>1. CASE UNCHANGED <<last_seq, delivered>>
  BY <1>1 DEF FrontierDelivered, Frontier, DeliveredSeqs
<1>2. ASSUME NEW e \in Receivers, NEW p \in wire, NEW seq \in 0..MaxSeq,
             NEW mid \in MessageIds, NEW n \in 0..NPaths[p.from],
             NEW S \in SUBSET (1..n), Receive(e, Arrival(p, S, n), seq, mid)
      PROVE  FrontierDelivered'
  <2>1. e \in Ends
    BY EndsAssumption
  <2>2. \A f \in Ends \ {e} : /\ Frontier(f)' = Frontier(f)
                              /\ DeliveredSeqs(f)' = DeliveredSeqs(f)
    BY <1>2, <2>1, TableStep
  <2>3. /\ DeliveredSeqs(e)' = DeliveredSeqs(e) \cup {seq}
        /\ Frontier(e)' = seq + 1 \/ Frontier(e)' = Frontier(e)
    BY <1>2, <2>1, TableStep
  <2>4. Frontier(e)' = 0 \/ Frontier(e)' - 1 \in DeliveredSeqs(e)'
    BY <2>1, <2>3, LimitAssumption DEF FrontierDelivered
  <2> QED BY <2>2, <2>4 DEF FrontierDelivered
<1>3. ASSUME NEW e \in Receivers, NEW envs, NEW seq, NEW mid, ReceiveRejected(e, envs, seq, mid)
      PROVE  UNCHANGED <<last_seq, delivered>>
  BY <1>3 DEF ReceiveRejected
<1>4. ASSUME NEW e \in Senders, NEW payload, NEW mid,
             \/ Send(e, payload, mid) \/ SendRejected(e, payload, mid)
             \/ SealPanics(e, payload, mid) \/ DecoyPanics(e, payload, mid)
      PROVE  UNCHANGED <<last_seq, delivered>>
  BY <1>4 DEF Send, SendRejected, SealPanics, DecoyPanics, AdvanceSender, channel
<1> QED
  BY <1>1, <1>2, <1>3, <1>4 DEF Next, Tick, Arrives, vars, channel

(* The window that step 1 checks against last_seq (channel.rs:130, 146-149) is
   the distance from the newest delivered message. *)
LEMMA WindowIsReach ==
    ASSUME IInv, FrontierDelivered, NEW e \in Ends, NEW seq \in Nat
    PROVE  WithinReach(e, seq) <=> ~BeyondWindow(e, seq)
<1>1. last_seq[e] \in Nat \cup {None} /\ None \notin Int /\ MAX_SKIP_WINDOW \in Nat
  BY DataAssumption, LimitAssumption DEF IInv, TypeOK
<1>2. \A d \in DeliveredSeqs(e) : d \in Nat /\ d < Frontier(e)
  BY UsedKeysAreNat DEF IInv, DeliveredBehind, DeliveredSeqs
<1>3. CASE last_seq[e] = None
  <2>1. \A d \in DeliveredSeqs(e) \cup {0} : d = 0
    BY <1>2, <1>3 DEF Frontier
  <2>2. WithinReach(e, seq) <=> seq <= MAX_SKIP_WINDOW
    BY <1>1, <2>1 DEF WithinReach
  <2> QED BY <1>1, <1>3, <2>2 DEF BeyondWindow
<1>4. CASE last_seq[e] # None
  <2>1. last_seq[e] \in Nat /\ Frontier(e) = last_seq[e] + 1
    BY <1>1, <1>4 DEF Frontier
  <2>2. last_seq[e] \in DeliveredSeqs(e)
    <3>1. Frontier(e) - 1 = last_seq[e] /\ Frontier(e) # 0
      BY <2>1
    <3> QED BY <3>1 DEF FrontierDelivered
  <2>3. \A d \in DeliveredSeqs(e) \cup {0} : d \in Nat /\ d <= last_seq[e]
    BY <1>2, <2>1
  <2>4. WithinReach(e, seq) <=> seq <= last_seq[e] + MAX_SKIP_WINDOW
    BY <1>1, <2>1, <2>2, <2>3 DEF WithinReach
  <2> QED BY <1>1, <1>4, <2>1, <2>4 DEF BeyondWindow
<1> QED
  BY <1>3, <1>4

(* In one-way use an intact packet within the window is accepted exactly when it
   was neither delivered nor given up before (channel.rs:100-225). *)
THEOREM OneWayGenuineAccepted ==
    ASSUME OneWay
    PROVE  Spec => []GenuineAccepted
<1>1. ASSUME IInv, KeysInStep, FrontierDelivered PROVE GenuineAccepted
  <2> SUFFICES ASSUME NEW e \in Receivers \ Senders, NEW p \in wire,
                      NPaths[e] = NPaths[p.from]
               PROVE  ReceiveVerdict(e, Intact(p), p.seq, p.mid) = "Ok"
                      <=> /\ p.seq \notin DeliveredSeqs(e) \cup LostSeqs(e)
                          /\ WithinReach(e, p.seq)
    BY DEF GenuineAccepted
  <2>1. e \in Ends \ Senders
    BY EndsAssumption
  <2>2. p.seq \in Nat /\ Frontier(e) \in Nat
    BY <1>1, <2>1, DataAssumption DEF IInv, TypeOK, Packet, Frontier
  <2> WithinReach(e, p.seq) <=> ~BeyondWindow(e, p.seq)
    BY <1>1, <2>1, <2>2, WindowIsReach
  <2>3. ReceiveVerdict(e, Intact(p), p.seq, p.mid) = "Ok"
          <=> Step1Verdict(e, p.seq, p.mid) = "Ok"
    <3>1. ASSUME ReceiveVerdict(e, Intact(p), p.seq, p.mid) = "Ok"
          PROVE  Step1Verdict(e, p.seq, p.mid) = "Ok"
      BY <3>1 DEF ReceiveVerdict, AuthVerdict
    <3> QED BY <1>1, <2>1, <3>1, IntactOpens
  <2>4. \A s \in DeliveredSeqs(e) : s < Frontier(e) /\ s \notin DOMAIN skipped_keys[e]
    BY <1>1, <2>1 DEF IInv, DeliveredBehind, DeliveredSeqs
  <2>5. LostSeqs(e) = {s \in 0..(Frontier(e) - 1) :
                         s \notin DeliveredSeqs(e) /\ s \notin DOMAIN skipped_keys[e]}
    BY DEF LostSeqs
  <2>6. CASE IsForward(e, p.seq)
    <3>1. p.seq \notin DeliveredSeqs(e) \cup LostSeqs(e)
      BY <2>2, <2>4, <2>5, <2>6 DEF IsForward
    <3>2. Step1Verdict(e, p.seq, p.mid) = "Ok" <=> ~BeyondWindow(e, p.seq)
      BY <2>6 DEF Step1Verdict
    <3> QED BY <2>3, <3>1, <3>2
  <2>7. CASE ~IsForward(e, p.seq)
    <3>1. p.seq \in 0..(Frontier(e) - 1)
      BY <2>2, <2>7 DEF IsForward
    <3>2. Step1Verdict(e, p.seq, p.mid) = "Ok" <=> p.seq \in DOMAIN skipped_keys[e]
      BY <2>7 DEF Step1Verdict
    <3>3. p.seq \notin DeliveredSeqs(e) \cup LostSeqs(e) <=> p.seq \in DOMAIN skipped_keys[e]
      BY <2>4, <2>5, <3>1
    <3>4. ~BeyondWindow(e, p.seq)
      <4>1. last_seq[e] \in Nat \cup {None}
        BY <1>1, <2>1 DEF IInv, TypeOK
      <4> QED BY <2>2, <3>1, <4>1, LimitAssumption, DataAssumption DEF BeyondWindow, Frontier
    <3> QED BY <2>3, <3>2, <3>3, <3>4
  <2> QED BY <2>6, <2>7
<1>2. Init => FrontierDelivered
  BY DEF Init, FrontierDelivered, Frontier
<1>3. IInv /\ FrontierDelivered /\ [Next]_vars => FrontierDelivered'
  BY NextFrontierDelivered
<1> QED
  BY <1>1, <1>2, <1>3, StaysInStep, PTL DEF Spec
==============================================================================
