--------------------------- MODULE CChannelProofs ---------------------------
(***************************************************************************)
(* Proofs about channels used through the C interface: the calls do to a   *)
(* channel what the Rust calls can do, so that all that is proved of       *)
(* SecureChannel holds of them, and their codes keep a C caller's count    *)
(* right.                                                                  *)
(***************************************************************************)
EXTENDS CChannel, SecureChannelProofs

(* The transport of C callers carries what send has returned. *)
PostedOnWire == \A m \in posted : m.packet \in wire

CountInv ==
    /\ count \in [Ends -> Nat] /\ panics \in [Ends -> Nat]
    /\ CountTracksSends

(* Each call through C is a call of the channel or none at all (ffi.rs:273-408). *)
LEMMA CStepIsChannelStep ==
    ASSUME PostedOnWire, [CNext]_cvars
    PROVE  [Next]_vars
<1>1. CASE UNCHANGED vars
  BY <1>1
<1>2. ASSUME NEW e \in Senders, NEW payload \in Payloads, NEW mid \in MessageIds,
             Send(e, payload, mid) \/ SealPanics(e, payload, mid)
               \/ DecoyPanics(e, payload, mid)
      PROVE  Next
  BY <1>2 DEF Next
<1>3. ASSUME NEW e \in Receivers, NEW m \in posted, NEW seq \in 0..MaxSeq,
             NEW mid \in MessageIds, NEW n \in 0..NPaths[m.packet.from],
             NEW S \in SUBSET (1..n), CArrives(e, m.packet, S, n, seq, mid)
      PROVE  [Next]_vars
  <2>1. m.packet \in wire
    BY DEF PostedOnWire
  <2>2. UNCHANGED vars \/ Arrives(e, m.packet, S, n, seq, mid)
    BY <1>3 DEF CArrives, ReceiveReturns, ReceiveRefused, Arrives
  <2> QED
    BY <2>1, <2>2 DEF Next
<1>4. ASSUME NEW e \in Senders, NEW payload \in Payloads, NEW mid \in MessageIds,
             NEW room, SendReturns(e, payload, mid, room)
      PROVE  Next
  BY <1>2, <1>4 DEF SendReturns, SendOut
<1>5. ASSUME NEW e \in Senders, NEW payload \in Payloads, NEW mid \in MessageIds,
             SendPanics(e, payload, mid)
      PROVE  Next
  BY <1>2, <1>5 DEF SendPanics
<1>6. ASSUME NEW null, NEW payload, NEW mid, SendRefused(null, payload, mid)
      PROVE  UNCHANGED vars
  BY <1>6 DEF SendRefused, cvars
<1>7. ASSUME Tick PROVE Next
  BY <1>7 DEF Next
<1>8. CASE UNCHANGED cvars
  BY <1>1, <1>8 DEF cvars
<1> QED
  BY <1>3, <1>4, <1>5, <1>6, <1>7, <1>8 DEF CNext

(* What is posted is the packet that send has just made, and stays on the wire. *)
LEMMA CStepKeepsPosted ==
    ASSUME PostedOnWire, [CNext]_cvars
    PROVE  PostedOnWire'
<1>1. CASE UNCHANGED <<posted, wire>>
  BY <1>1 DEF PostedOnWire
<1>2. ASSUME NEW e \in Senders, NEW payload \in Payloads, NEW mid \in MessageIds,
             NEW room, SendReturns(e, payload, mid, room)
      PROVE  PostedOnWire'
  <2>1. wire' = wire \cup {NewPacket(e, payload, mid)}
    BY <1>2 DEF SendReturns, SendOut, Send, NewPacket
  <2>2. posted' \subseteq posted \cup {[packet |-> NewPacket(e, payload, mid),
                                        label |-> count[e]]}
    BY <1>2 DEF SendReturns, SendOut
  <2> QED
    BY <2>1, <2>2 DEF PostedOnWire
<1>3. ASSUME NEW e, NEW payload, NEW mid, SendPanics(e, payload, mid)
      PROVE  UNCHANGED <<posted, wire>>
  BY <1>3 DEF SendPanics, SealPanics, DecoyPanics
<1>4. ASSUME NEW e, NEW p, NEW S, NEW n, NEW seq, NEW mid, CArrives(e, p, S, n, seq, mid)
      PROVE  UNCHANGED <<posted, wire>>
  BY <1>4 DEF CArrives, ReceiveReturns, ReceiveRefused, Receive, ReceiveRejected,
              capp, vars
<1>5. CASE Tick /\ UNCHANGED capp
  BY <1>1, <1>5 DEF Tick, capp
<1>6. CASE UNCHANGED cvars
  BY <1>1, <1>6 DEF cvars, vars, capp
<1>7. ASSUME NEW null, NEW payload, NEW mid, SendRefused(null, payload, mid)
      PROVE  UNCHANGED <<posted, wire>>
  BY <1>7 DEF SendRefused, cvars, vars, capp
<1> QED
  BY <1>1, <1>2, <1>3, <1>4, <1>5, <1>6, <1>7 DEF CNext

(* A channel used through C is a SecureChannel: every property of its behaviours
   carries over, with codes, buffers and panics in between. *)
THEOREM CImplementsChannel == CSpec => Spec
<1>1. CInit => Init /\ PostedOnWire
  BY DEF CInit, PostedOnWire
<1>2. PostedOnWire /\ [CNext]_cvars => [Next]_vars /\ PostedOnWire'
  BY CStepIsChannelStep, CStepKeepsPosted
<1> QED
  BY <1>1, <1>2, PTL DEF CSpec, Spec

(* So no sequence number is opened twice, whatever buffers and retries C callers
   use (channel.rs:100-225 under ffi.rs:335-408). *)
THEOREM CDeliversAtMostOnce == CSpec => []AtMostOnce
  BY CImplementsChannel, DeliversAtMostOnce, PTL

------------------------------------------------------------------------------
(* send (channel.rs:78-93) uses one number up when it advances. *)
LEMMA AdvanceCounts ==
    ASSUME TypeOK, NEW e \in Ends, AdvanceSender(e)
    PROVE  /\ NextSendSeq(e)' = NextSendSeq(e) + 1
           /\ \A f \in Ends : f # e => NextSendSeq(f)' = NextSendSeq(f)
  BY DataAssumption DEF AdvanceSender, NextSendSeq, TypeOK

(* Each call keeps the caller's count within the panics it was told of. *)
LEMMA CStepKeepsCount ==
    ASSUME TypeOK, CountInv, [CNext]_cvars
    PROVE  CountInv'
<1>0. \A f \in Ends : NextSendSeq(f) \in Nat
  BY DataAssumption DEF TypeOK, NextSendSeq
<1>1. CASE UNCHANGED <<count, panics, send_seq>>
  BY <1>1 DEF CountInv, CountTracksSends, NextSendSeq
<1>2. ASSUME NEW e \in Senders, NEW payload \in Payloads, NEW mid \in MessageIds,
             NEW room, SendReturns(e, payload, mid, room)
      PROVE  CountInv'
  <2>1. e \in Ends
    BY EndsAssumption
  <2>2. AdvanceSender(e) /\ count' = [count EXCEPT ![e] = @ + 1] /\ panics' = panics
    BY <1>2 DEF SendReturns, SendOut, Send
  <2>3. /\ NextSendSeq(e)' = NextSendSeq(e) + 1
        /\ \A f \in Ends : f # e => NextSendSeq(f)' = NextSendSeq(f)
    BY <2>1, <2>2, AdvanceCounts
  <2>4. count' \in [Ends -> Nat] /\ panics' \in [Ends -> Nat]
    BY <2>1, <2>2 DEF CountInv
  <2>5. ASSUME NEW f \in Ends
        PROVE  NextSendSeq(f)' - count'[f] \in 0..panics'[f]
    BY <1>0, <2>1, <2>2, <2>3 DEF CountInv, CountTracksSends
  <2> QED
    BY <2>4, <2>5 DEF CountInv, CountTracksSends
<1>3. ASSUME NEW e \in Senders, NEW payload \in Payloads, NEW mid \in MessageIds,
             SendPanics(e, payload, mid)
      PROVE  CountInv'
  <2>1. e \in Ends
    BY EndsAssumption
  <2>2. count' = count /\ panics' = [panics EXCEPT ![e] = @ + 1]
    BY <1>3 DEF SendPanics
  <2>3. /\ NextSendSeq(e)' \in {NextSendSeq(e), NextSendSeq(e) + 1}
        /\ \A f \in Ends : f # e => NextSendSeq(f)' = NextSendSeq(f)
    <3>1. CASE SealPanics(e, payload, mid)
      BY <3>1 DEF SealPanics, channel, NextSendSeq
    <3>2. CASE DecoyPanics(e, payload, mid)
      BY <2>1, <3>2, AdvanceCounts DEF DecoyPanics
    <3> QED
      BY <1>3, <3>1, <3>2 DEF SendPanics
  <2>4. count' \in [Ends -> Nat] /\ panics' \in [Ends -> Nat]
    BY <2>1, <2>2 DEF CountInv
  <2>5. ASSUME NEW f \in Ends
        PROVE  NextSendSeq(f)' - count'[f] \in 0..panics'[f]
    BY <1>0, <2>1, <2>2, <2>3 DEF CountInv, CountTracksSends
  <2> QED
    BY <2>4, <2>5 DEF CountInv, CountTracksSends
<1>4. ASSUME NEW e, NEW p, NEW S, NEW n, NEW seq, NEW mid, CArrives(e, p, S, n, seq, mid)
      PROVE  UNCHANGED <<count, panics, send_seq>>
  BY <1>4 DEF CArrives, ReceiveReturns, ReceiveRefused, Receive, ReceiveRejected,
              capp, vars, channel
<1>5. CASE Tick /\ UNCHANGED capp
  BY <1>1, <1>5 DEF Tick, capp, channel
<1>6. CASE UNCHANGED cvars
  BY <1>1, <1>6 DEF cvars, vars, capp, channel
<1>7. ASSUME NEW null, NEW payload, NEW mid, SendRefused(null, payload, mid)
      PROVE  UNCHANGED <<count, panics, send_seq>>
  BY <1>7 DEF SendRefused, cvars, vars, capp, channel
<1> QED
  BY <1>1, <1>2, <1>3, <1>4, <1>5, <1>6, <1>7 DEF CNext

(* A C caller that counts OK and BUFFER_TOO_SMALL knows its next sequence number
   up to the panics it was told of (ffi.rs:304-327). *)
THEOREM CallersCountHolds == CSpec => []CountTracksSends
<1>1. CInit => CountInv
  <2> SUFFICES ASSUME CInit PROVE CountInv
    OBVIOUS
  <2>1. \A e \in Ends : NextSendSeq(e) = 0
    BY DEF CInit, Init, NextSendSeq
  <2> QED
    BY <2>1 DEF CInit, CountInv, CountTracksSends
<1>2. TypeOK /\ CountInv /\ [CNext]_cvars => CountInv'
  BY CStepKeepsCount
<1>3. CSpec => []TypeOK
  BY CImplementsChannel, TypeCorrect, PTL
<1>4. CountInv => CountTracksSends
  BY DEF CountInv
<1> QED
  BY <1>1, <1>2, <1>3, <1>4, PTL DEF CSpec

------------------------------------------------------------------------------
Message == [seq : Nat, mid : MessageIds, payload : Payloads]

(* What the applications have is of what the channels did: everything handed over
   or wiped was delivered, and nothing posted has an id that is refused. *)
AppInv ==
    /\ handed \in [Ends -> Seq(Message)] /\ wiped \in [Ends -> SUBSET Nat]
    /\ \A e \in Ends : \A i \in 1..Len(handed[e]) : handed[e][i].seq \in DeliveredSeqs(e)
    /\ \A e \in Ends : wiped[e] \subseteq DeliveredSeqs(e)
    /\ \A m \in posted : m.packet.mid \notin LongIds

(* Something was delivered to e only if a peer sends on as many paths as e looks
   at (channel.rs:115-117). *)
PathsSuffice ==
    \A e \in Ends : DeliveredSeqs(e) # {} => \E f \in Ends \ {e} : NPaths[f] >= NPaths[e]

(* decoypath_channel_receive with code OK: the packet is another end's, new, and
   what is copied out is what was sealed (ffi.rs:375-402). *)
LEMMA ReturnedIsNew ==
    ASSUME IInv, NEW e \in Receivers, NEW p \in wire, NEW seq \in 0..MaxSeq,
           NEW mid \in MessageIds, NEW n \in 0..NPaths[p.from], NEW S \in SUBSET (1..n),
           NEW room, ReceiveReturns(e, Arrival(p, S, n), seq, mid, room)
    PROVE  /\ e \in Ends /\ seq \in Nat /\ p \in Packet
           /\ p.from # e /\ seq \notin DeliveredSeqs(e)
           /\ NPaths[p.from] >= NPaths[e]
           /\ Decrypted(e, Arrival(p, S, n), seq, mid)
                = [seq |-> seq, mid |-> mid, payload |-> p.payload]
           /\ seq = p.seq /\ mid = p.mid
           /\ DeliveredSeqs(e)' = DeliveredSeqs(e) \cup {seq}
           /\ \A f \in Ends \ {e} : DeliveredSeqs(f)' = DeliveredSeqs(f)
<1> DEFINE envs == Arrival(p, S, n)
<1>1. e \in Ends /\ seq \in Nat /\ p \in Packet
  BY EndsAssumption, LimitAssumption DEF IInv, TypeOK
<1>2. Receive(e, envs, seq, mid) /\ AuthVerdict(e, envs, seq, mid) = "Ok"
  BY DEF ReceiveReturns, Receive, ReceiveVerdict
<1>3. /\ p.from # e /\ \A i \in 1..Len(delivered[e]) : delivered[e][i].seq # seq
  BY <1>1, <1>2, AcceptedIsNew
<1>4. /\ p.seq = seq /\ p.mid = mid
      /\ envs[Slot(e, seq, mid) + 1].payload = p.payload
  BY <1>1, <1>2, AcceptedIsGenuine
<1>5. NPaths[p.from] >= NPaths[e]
  <2>1. NPaths[p.from] \in Nat /\ NPaths[e] \in Nat /\ n \in Nat
    BY <1>1, EndsAssumption DEF Packet
  <2>2. Len(envs) = n
    BY <2>1 DEF Arrival
  <2>3. ~(Len(envs) < NPaths[e])
    BY <1>2 DEF AuthVerdict
  <2> QED BY <2>1, <2>2, <2>3
<1>6. Decrypted(e, envs, seq, mid) = [seq |-> seq, mid |-> mid, payload |-> p.payload]
  BY <1>4 DEF Decrypted
<1>7. /\ DeliveredSeqs(e)' = DeliveredSeqs(e) \cup {seq}
      /\ \A f \in Ends \ {e} : DeliveredSeqs(f)' = DeliveredSeqs(f)
  <2> DEFINE entry == [seq |-> seq, mid |-> mid, key |-> TargetKey(e, seq),
                       payload |-> envs[Slot(e, seq, mid) + 1].payload]
             d == delivered[e]
  <2>1. delivered' = [delivered EXCEPT ![e] = Append(d, entry)]
    BY <1>2 DEF Receive
  <2>2. entry.seq = seq
    OBVIOUS
  <2>3. PICK M : delivered \in [Ends -> Seq(M)]
    BY DEF IInv, TypeOK
  <2> HIDE DEF entry, envs
  <2>4. \A f \in Ends \ {e} : delivered'[f] = delivered[f]
    BY <2>1, <2>3
  <2>5. delivered'[e] = Append(d, entry) /\ d \in Seq(M)
    BY <1>1, <2>1, <2>3
  <2> HIDE DEF d
  <2>6. /\ Len(d) \in Nat /\ Len(delivered'[e]) = Len(d) + 1
        /\ delivered'[e][Len(d) + 1] = entry
        /\ \A i \in 1..Len(d) : delivered'[e][i] = d[i]
    BY <2>5
  <2>7. 1..(Len(d) + 1) = 1..Len(d) \cup {Len(d) + 1}
    BY <2>6
  <2>8. {delivered'[e][i].seq : i \in 1..(Len(d) + 1)} = {d[i].seq : i \in 1..Len(d)} \cup {seq}
    BY <2>2, <2>6, <2>7
  <2>9. DeliveredSeqs(e) = {d[i].seq : i \in 1..Len(d)}
    BY DEF DeliveredSeqs, d
  <2>10. DeliveredSeqs(e)' = {delivered'[e][i].seq : i \in 1..Len(delivered'[e])}
    BY DEF DeliveredSeqs
  <2>11. DeliveredSeqs(e)' = DeliveredSeqs(e) \cup {seq}
    BY <2>6, <2>8, <2>9, <2>10
  <2>12. \A f \in Ends \ {e} : DeliveredSeqs(f)' = DeliveredSeqs(f)
    BY <2>4 DEF DeliveredSeqs
  <2> QED BY <2>11, <2>12
<1> QED
  BY <1>1, <1>3, <1>4, <1>5, <1>6, <1>7 DEF DeliveredSeqs

(* Before the first call nothing is posted, handed over or wiped. *)
LEMMA InitApp == CInit => AppInv /\ PathsSuffice
<1> SUFFICES ASSUME CInit PROVE AppInv /\ PathsSuffice
  OBVIOUS
<1>1. /\ handed = [e \in Ends |-> << >>] /\ wiped = [e \in Ends |-> {}] /\ posted = {}
      /\ delivered = [e \in Ends |-> << >>]
  BY DEF CInit, Init
<1>2. \A e \in Ends : Len(handed[e]) = 0 /\ Len(delivered[e]) = 0
  BY <1>1
<1>3. \A e \in Ends : DeliveredSeqs(e) = {}
  BY <1>2 DEF DeliveredSeqs
<1>4. handed \in [Ends -> Seq(Message)]
  BY <1>1
<1> QED
  BY <1>1, <1>2, <1>3, <1>4 DEF AppInv, PathsSuffice

(* The invariant says nothing of calls that hand over, wipe and post nothing. *)
LEMMA UnchangedKeepsApp ==
    ASSUME AppInv, PathsSuffice, UNCHANGED <<handed, wiped, posted, delivered>>
    PROVE  AppInv' /\ PathsSuffice'
<1>1. \A e \in Ends : DeliveredSeqs(e)' = DeliveredSeqs(e)
  BY DEF DeliveredSeqs
<1> QED
  BY <1>1 DEF AppInv, PathsSuffice

(* decoypath_channel_send posts no id that receive refuses (ffi.rs:284-292). *)
LEMMA SendKeepsApp ==
    ASSUME AppInv, PathsSuffice, NEW e, NEW payload, NEW mid, NEW room,
           SendReturns(e, payload, mid, room)
    PROVE  AppInv' /\ PathsSuffice'
<1>1. UNCHANGED <<handed, wiped, delivered>> /\ mid \notin LongIds
  BY DEF SendReturns, SendOut, Send, SendCode
<1>2. posted' \subseteq posted \cup {[packet |-> NewPacket(e, payload, mid),
                                      label |-> count[e]]}
  BY DEF SendReturns, SendOut
<1>3. \A m \in posted' : m.packet.mid \notin LongIds
  BY <1>1, <1>2 DEF NewPacket, AppInv
<1>4. \A f \in Ends : DeliveredSeqs(f)' = DeliveredSeqs(f)
  BY <1>1 DEF DeliveredSeqs
<1> QED
  BY <1>1, <1>3, <1>4 DEF AppInv, PathsSuffice

(* decoypath_channel_receive hands over or wipes what it has just delivered, of a
   peer that sends on enough paths. *)
LEMMA ReceiveKeepsApp ==
    ASSUME IInv, PostedOnWire, AppInv, PathsSuffice,
           NEW e \in Receivers, NEW m \in posted, NEW seq \in 0..MaxSeq,
           NEW mid \in MessageIds, NEW n \in 0..NPaths[m.packet.from], NEW S \in SUBSET (1..n),
           NEW room, ReceiveReturns(e, Arrival(m.packet, S, n), seq, mid, room)
    PROVE  AppInv' /\ PathsSuffice'
<1> DEFINE msg == [seq |-> seq, mid |-> mid, payload |-> m.packet.payload]
<1>1. /\ e \in Ends /\ seq \in Nat /\ m.packet \in Packet /\ m.packet.from # e
      /\ NPaths[m.packet.from] >= NPaths[e]
      /\ Decrypted(e, Arrival(m.packet, S, n), seq, mid) = msg
      /\ DeliveredSeqs(e)' = DeliveredSeqs(e) \cup {seq}
      /\ \A f \in Ends \ {e} : DeliveredSeqs(f)' = DeliveredSeqs(f)
  <2>1. m.packet \in wire
    BY DEF PostedOnWire
  <2> QED BY <2>1, ReturnedIsNew
<1>2. CopyOut(e, msg, room) /\ posted' = posted
  BY <1>1 DEF ReceiveReturns
<1>3. msg \in Message /\ msg.seq = seq
  BY <1>1 DEF Message, Packet
<1>4. PathsSuffice'
  BY <1>1 DEF PathsSuffice, Packet
<1> HIDE DEF msg
<1>5. \A f \in Ends : DeliveredSeqs(f) \subseteq DeliveredSeqs(f)'
  BY <1>1
<1>6. CASE room
  <2>1. handed' = [handed EXCEPT ![e] = Append(handed[e], msg)] /\ wiped' = wiped
    BY <1>2, <1>6 DEF CopyOut
  <2>2. handed \in [Ends -> Seq(Message)] /\ handed[e] \in Seq(Message)
    BY <1>1 DEF AppInv
  <2>3. /\ handed'[e] = Append(handed[e], msg)
        /\ \A f \in Ends \ {e} : handed'[f] = handed[f]
    BY <1>1, <2>1, <2>2
  <2>4. /\ Len(handed[e]) \in Nat /\ Len(handed'[e]) = Len(handed[e]) + 1
        /\ handed'[e][Len(handed[e]) + 1] = msg
        /\ \A i \in 1..Len(handed[e]) : handed'[e][i] = handed[e][i]
    BY <2>2, <2>3
  <2>5. Append(handed[e], msg) \in Seq(Message)
    BY <1>3, <2>2
  <2>6. handed' \in [Ends -> Seq(Message)]
    BY <1>1, <2>1, <2>2, <2>5
  <2>7. ASSUME NEW i \in 1..Len(handed'[e])
        PROVE  handed'[e][i].seq \in DeliveredSeqs(e)'
    <3>1. i \in 1..Len(handed[e]) \/ i = Len(handed[e]) + 1
      BY <2>4
    <3>2. CASE i \in 1..Len(handed[e])
      BY <1>1, <1>5, <2>4, <3>2 DEF AppInv
    <3>3. CASE i = Len(handed[e]) + 1
      BY <1>1, <1>3, <2>4, <3>3
    <3> QED BY <3>1, <3>2, <3>3
  <2>8. \A f \in Ends : \A i \in 1..Len(handed'[f]) : handed'[f][i].seq \in DeliveredSeqs(f)'
    BY <1>5, <2>3, <2>7 DEF AppInv
  <2>9. \A f \in Ends : wiped'[f] \subseteq DeliveredSeqs(f)'
    BY <1>5, <2>1 DEF AppInv
  <2>10. AppInv'
    BY <1>2, <2>1, <2>6, <2>8, <2>9 DEF AppInv
  <2> QED BY <1>4, <2>10
<1>7. CASE ~room
  <2>1. wiped' = [wiped EXCEPT ![e] = @ \cup {seq}] /\ handed' = handed
    BY <1>2, <1>3, <1>7 DEF CopyOut
  <2>2. wiped' \in [Ends -> SUBSET Nat]
    BY <1>1, <2>1 DEF AppInv
  <2>3. \A f \in Ends : wiped'[f] \subseteq DeliveredSeqs(f)'
    BY <1>1, <1>5, <2>1 DEF AppInv
  <2>4. \A f \in Ends : \A i \in 1..Len(handed'[f]) : handed'[f][i].seq \in DeliveredSeqs(f)'
    BY <1>5, <2>1 DEF AppInv
  <2>5. AppInv'
    BY <1>2, <2>1, <2>2, <2>3, <2>4 DEF AppInv
  <2> QED BY <1>4, <2>5
<1> QED BY <1>6, <1>7

(* Every call of the C interface keeps the applications' invariant. *)
LEMMA CStepKeepsApp ==
    ASSUME IInv, PostedOnWire, AppInv, PathsSuffice, [CNext]_cvars
    PROVE  AppInv' /\ PathsSuffice'
<1>1. ASSUME NEW e, NEW payload, NEW mid, SendPanics(e, payload, mid)
      PROVE  UNCHANGED <<handed, wiped, posted, delivered>>
  BY <1>1 DEF SendPanics, SealPanics, DecoyPanics
<1>2. ASSUME NEW null, NEW payload, NEW mid, SendRefused(null, payload, mid)
      PROVE  UNCHANGED <<handed, wiped, posted, delivered>>
  BY <1>2 DEF SendRefused, cvars, vars, capp
<1>3. ASSUME NEW slip, NEW e, NEW envs, NEW seq, NEW mid,
             ReceiveRefused(slip, e, envs, seq, mid)
      PROVE  UNCHANGED <<handed, wiped, posted, delivered>>
  BY <1>3 DEF ReceiveRefused, ReceiveRejected, capp, vars
<1>4. (Tick /\ UNCHANGED capp) \/ UNCHANGED cvars
        => UNCHANGED <<handed, wiped, posted, delivered>>
  BY DEF Tick, capp, cvars, vars
<1>5. CASE UNCHANGED <<handed, wiped, posted, delivered>>
  BY <1>5, UnchangedKeepsApp
<1>6. ASSUME NEW e \in Receivers, NEW m \in posted, NEW seq \in 0..MaxSeq,
             NEW mid \in MessageIds, NEW n \in 0..NPaths[m.packet.from],
             NEW S \in SUBSET (1..n), CArrives(e, m.packet, S, n, seq, mid)
      PROVE  AppInv' /\ PathsSuffice'
  BY <1>3, <1>5, <1>6, ReceiveKeepsApp DEF CArrives
<1> QED
  BY <1>1, <1>2, <1>4, <1>5, <1>6, SendKeepsApp DEF CNext

(* What the channels and the applications at their ends know, together. *)
CInv == IInv /\ WireNumbered /\ PostedOnWire /\ AppInv /\ PathsSuffice

(* The invariant holds of every behaviour of the C callers. *)
THEOREM CInvariance == CSpec => []CInv
<1>1. CInit => PostedOnWire
  BY DEF CInit, PostedOnWire
<1>2. PostedOnWire /\ [CNext]_cvars => PostedOnWire'
  BY CStepKeepsPosted
<1>3. IInv /\ PostedOnWire /\ AppInv /\ PathsSuffice /\ [CNext]_cvars
        => AppInv' /\ PathsSuffice'
  BY CStepKeepsApp
<1>4. Spec => [](IInv /\ WireNumbered)
  BY Invariance, InitWireNumbered, NextWireNumbered, PTL DEF Spec
<1> QED
  BY <1>1, <1>2, <1>3, <1>4, InitApp, CImplementsChannel, PTL DEF CSpec, CInv

------------------------------------------------------------------------------
(* decoypath_channel_send with room for the envelopes is a send of the contract. *)
LEMMA SendReturnsIsContractSend ==
    ASSUME CInv, NEW e \in Ends, NEW payload \in Payloads, NEW mid \in MessageIds,
           SendReturns(e, payload, mid, TRUE)
    PROVE  CContract!Send(e, mid, payload)
<1> DEFINE item == [packet |-> NewPacket(e, payload, mid), label |-> count[e]]
           msg == [from |-> e, seq |-> NextSendSeq(e), mid |-> mid, payload |-> payload]
<1>1. NextSendSeq(e) \in 0..MaxSeq
  BY DataAssumption, LimitAssumption
     DEF CInv, IInv, TypeOK, NextSendSeq, SendReturns, SendOut, Send
<1>2. \A q \in PostedMessages : q.from = e => q.seq < NextSendSeq(e)
  BY DEF PostedMessages, SentMessage, CInv, WireNumbered, PostedOnWire
<1>3. PostedMessages' = PostedMessages \cup {msg}
  <2>1. posted' = posted \cup {item}
    BY DEF SendReturns, SendOut
  <2>2. SentMessage(item.packet) = msg
    BY DEF SentMessage, NewPacket
  <2> HIDE DEF item, msg
  <2> QED BY <2>1, <2>2 DEF PostedMessages
<1>4. handed' = handed
  BY DEF SendReturns
<1> QED
  BY <1>1, <1>2, <1>3, <1>4 DEF CContract!Send

(* decoypath_channel_receive with room for the payload is a delivery. *)
LEMMA ReceiveReturnsIsContractDeliver ==
    ASSUME CInv, NEW e \in Receivers, NEW m \in posted, NEW seq \in 0..MaxSeq,
           NEW mid \in MessageIds, NEW n \in 0..NPaths[m.packet.from], NEW S \in SUBSET (1..n),
           ReceiveReturns(e, Arrival(m.packet, S, n), seq, mid, TRUE)
    PROVE  e \in Ends /\ \E q \in PostedMessages : CContract!Deliver(e, q)
<1> DEFINE q == SentMessage(m.packet)
           msg == [seq |-> seq, mid |-> mid, payload |-> m.packet.payload]
<1>1. /\ e \in Ends /\ m.packet.from # e /\ seq \notin DeliveredSeqs(e)
      /\ Decrypted(e, Arrival(m.packet, S, n), seq, mid) = msg
      /\ seq = m.packet.seq /\ mid = m.packet.mid
  <2>1. IInv /\ m.packet \in wire
    BY DEF CInv, PostedOnWire
  <2> QED BY <2>1, ReturnedIsNew
<1>2. /\ q.from = m.packet.from /\ q.seq = seq
      /\ [seq |-> q.seq, mid |-> q.mid, payload |-> q.payload] = msg
  BY <1>1 DEF SentMessage
<1>3. q \in PostedMessages /\ PostedMessages' = PostedMessages
  BY DEF PostedMessages, ReceiveReturns
<1>4. \A i \in 1..Len(handed[e]) : handed[e][i].seq # seq
  BY <1>1 DEF CInv, AppInv
<1>5. handed' = [handed EXCEPT ![e] = Append(handed[e], msg)]
  BY <1>1 DEF ReceiveReturns, CopyOut
<1> HIDE DEF q, msg
<1>6. CContract!Deliver(e, q)
  BY <1>1, <1>2, <1>3, <1>4, <1>5 DEF CContract!Deliver
<1> QED
  BY <1>1, <1>3, <1>6

(* Two C applications see at-most-once delivery of what was posted, whole, for all
   that small buffers, panics and wrong labels lose (ffi.rs:273-408). *)
THEOREM CRefinement == CSpec => CImplementsContract
<1>1. CInit => CContract!Init
  BY DEF CInit, CContract!Init, PostedMessages
<1>2. ASSUME CInv, [CNext]_cvars PROVE [CContract!Next]_(CContract!vars)
  <2>1. CASE UNCHANGED <<posted, handed>>
    BY <2>1 DEF CContract!vars, PostedMessages
  <2>2. ASSUME NEW e \in Senders, NEW payload \in Payloads, NEW mid \in MessageIds,
               NEW room \in RoomToSend, SendReturns(e, payload, mid, room)
        PROVE  [CContract!Next]_(CContract!vars)
    <3>1. room = TRUE \/ room = FALSE
      BY CAssumption
    <3>2. CASE room = TRUE
      <4>1. SendReturns(e, payload, mid, TRUE) /\ e \in Ends
        BY <2>2, <3>2, EndsAssumption
      <4>2. CContract!Send(e, mid, payload)
        BY <1>2, <4>1, SendReturnsIsContractSend
      <4> QED BY <4>1, <4>2 DEF CContract!Next
    <3>3. CASE room = FALSE
      BY <2>1, <2>2, <3>3 DEF SendReturns, SendOut
    <3> QED BY <3>1, <3>2, <3>3
  <2>3. ASSUME NEW e \in Receivers, NEW m \in posted, NEW seq \in 0..MaxSeq,
               NEW mid \in MessageIds, NEW n \in 0..NPaths[m.packet.from],
               NEW S \in SUBSET (1..n), NEW room \in RoomToReceive,
               ReceiveReturns(e, Arrival(m.packet, S, n), seq, mid, room)
        PROVE  [CContract!Next]_(CContract!vars)
    <3>1. room = TRUE \/ room = FALSE
      BY CAssumption
    <3>2. CASE room = TRUE
      <4>1. ReceiveReturns(e, Arrival(m.packet, S, n), seq, mid, TRUE)
        BY <2>3, <3>2
      <4>2. e \in Ends /\ \E q \in PostedMessages : CContract!Deliver(e, q)
        BY <1>2, <4>1, ReceiveReturnsIsContractDeliver
      <4> QED BY <4>2 DEF CContract!Next
    <3>3. CASE room = FALSE
      BY <2>1, <2>3, <3>3 DEF ReceiveReturns, CopyOut
    <3> QED BY <3>1, <3>2, <3>3
  <2>4. ASSUME NEW slip, NEW e, NEW envs, NEW seq, NEW mid,
               ReceiveRefused(slip, e, envs, seq, mid)
        PROVE  UNCHANGED <<posted, handed>>
    BY <2>4 DEF ReceiveRefused, capp
  <2>5. ASSUME NEW e, NEW payload, NEW mid, SendPanics(e, payload, mid)
        PROVE  UNCHANGED <<posted, handed>>
    BY <2>5 DEF SendPanics
  <2>6. ASSUME NEW null, NEW payload, NEW mid, SendRefused(null, payload, mid)
        PROVE  UNCHANGED <<posted, handed>>
    BY <2>6 DEF SendRefused, cvars, capp
  <2>7. ASSUME NEW e \in Receivers, NEW m \in posted, NEW seq \in 0..MaxSeq,
               NEW mid \in MessageIds, NEW n \in 0..NPaths[m.packet.from],
               NEW S \in SUBSET (1..n), CArrives(e, m.packet, S, n, seq, mid)
        PROVE  [CContract!Next]_(CContract!vars)
    BY <2>1, <2>3, <2>4, <2>7 DEF CArrives
  <2>8. (Tick /\ UNCHANGED capp) \/ UNCHANGED cvars => UNCHANGED <<posted, handed>>
    BY DEF capp, cvars
  <2> QED
    BY <1>2, <2>1, <2>2, <2>5, <2>6, <2>7, <2>8 DEF CNext
<1> QED
  BY <1>1, <1>2, CInvariance, PTL DEF CSpec, CContract!Spec, CImplementsContract

------------------------------------------------------------------------------
(* A RootKey is shared by two channels: the initiator's and the responder's. *)
TwoEnds == \A e, f, g \in Ends : e = f \/ f = g \/ e = g

(* What CodeOf makes of the two refusals of an old number (ffi.rs:48-75). *)
LEMMA OldNumberCodes ==
    /\ CodeOf("ReplayedSequence") = "REPLAYED_SEQUENCE"
    /\ CodeOf("SkippedKeyExpired") = "SKIPPED_KEY_EXPIRED"
  BY DEF CodeOf

(* The ratchet has neither a way forward nor a skipped key to a number that was
   opened: step 1 refuses it (channel.rs:121-166). *)
LEMMA OpenedIsOld ==
    ASSUME IInv, NEW e \in Ends, NEW seq \in DeliveredSeqs(e), NEW mid
    PROVE  Step1Verdict(e, seq, mid) \in {"ReplayedSequence", "SkippedKeyExpired"}
<1>1. PICK i \in 1..Len(delivered[e]) : delivered[e][i].seq = seq
  BY DEF DeliveredSeqs
<1>2. seq \in Nat /\ seq < Frontier(e) /\ seq \notin DOMAIN skipped_keys[e]
  BY <1>1, UsedKeysAreNat DEF IInv, DeliveredBehind
<1>3. Frontier(e) \in Nat
  BY DataAssumption DEF IInv, TypeOK, Frontier
<1>4. ~IsForward(e, seq)
  BY <1>2, <1>3 DEF IsForward
<1> QED
  BY <1>2, <1>4 DEF Step1Verdict

(* So the packet, given again, is refused with one of the two codes. *)
LEMMA OpenedIsRefused ==
    ASSUME CInv, TwoEnds, NEW e \in Ends, NEW m \in posted, m.packet.from # e,
           m.packet.seq \in DeliveredSeqs(e)
    PROVE  ReceiveCode("none", e, Intact(m.packet), m.packet.seq, m.packet.mid)
             \in {"REPLAYED_SEQUENCE", "SKIPPED_KEY_EXPIRED"}
<1> DEFINE p == m.packet
           envs == Intact(p)
<1>1. p \in Packet /\ p.from \in Ends /\ p.mid \notin LongIds
  BY DEF CInv, PostedOnWire, IInv, TypeOK, Packet, AppInv
<1>2. NPaths[p.from] \in 1..MAX_N_PATHS /\ NPaths[p.from] \in Nat /\ NPaths[e] \in Nat
  BY <1>1, CAssumption, EndsAssumption
<1>3. Len(envs) = NPaths[p.from]
  BY <1>2 DEF Intact, Arrival
<1>4. NPaths[p.from] >= NPaths[e]
  <2>1. PICK f \in Ends \ {e} : NPaths[f] >= NPaths[e]
    BY DEF CInv, PathsSuffice
  <2>2. f = p.from
    BY <1>1, <2>1 DEF TwoEnds
  <2> QED BY <2>1, <2>2
<1> DEFINE v == Step1Verdict(e, p.seq, p.mid)
<1>5. v \in {"ReplayedSequence", "SkippedKeyExpired"}
  BY OpenedIsOld DEF CInv
<1> HIDE DEF v, envs
<1>6. EntryCode("none", envs, p.mid) = "OK"
  <2>1. ~(Len(envs) = 0) /\ ~(Len(envs) > MAX_N_PATHS)
    BY <1>2, <1>3, CAssumption
  <2> QED BY <1>1, <2>1 DEF EntryCode
<1>7. AuthVerdict(e, envs, p.seq, p.mid) = v
  <2>1. ~(Len(envs) < NPaths[e])
    BY <1>2, <1>3, <1>4
  <2>2. v # "Ok"
    BY <1>5
  <2> QED BY <1>1, <2>1, <2>2 DEF AuthVerdict, v
<1>8. ReceiveVerdict(e, envs, p.seq, p.mid) = v
  BY <1>5, <1>7 DEF ReceiveVerdict
<1>9. ReceiveCode("none", e, envs, p.seq, p.mid) = CodeOf(v)
  BY <1>6, <1>8 DEF ReceiveCode
<1> QED
  BY <1>5, <1>9, OldNumberCodes DEF envs

(* A message that was opened once, handed over or wiped, is never opened again,
   nor refused for any reason but its age (ffi.rs:375-402), on the two channels
   of one RootKey. *)
THEOREM OpenedStaysOpened == ASSUME TwoEnds PROVE CSpec => []OpenedNeverReturns
<1>1. CInv => OpenedNeverReturns
  <2> SUFFICES ASSUME CInv, NEW e \in Receivers, NEW m \in posted,
                      m.packet.from # e, m.packet.seq \in HandedSeqs(e) \cup wiped[e]
               PROVE  ReceiveCode("none", e, Intact(m.packet), m.packet.seq, m.packet.mid)
                        \in {"REPLAYED_SEQUENCE", "SKIPPED_KEY_EXPIRED"}
    BY DEF OpenedNeverReturns
  <2>1. e \in Ends
    BY EndsAssumption
  <2>2. m.packet.seq \in DeliveredSeqs(e)
    BY <2>1 DEF CInv, AppInv, HandedSeqs
  <2> QED BY <2>1, <2>2, OpenedIsRefused
<1> QED
  BY <1>1, CInvariance, PTL
==============================================================================
