---------------------------- MODULE SecureChannel ----------------------------
(***************************************************************************)
(* SecureChannel endpoints (src/channel.rs) that share one RootKey, over a *)
(* transport that may lose, repeat, reorder, corrupt and truncate what it  *)
(* carries, and that may attach any sequence number and message id to it.  *)
(*                                                                         *)
(* A RatchetKey is the number of derive_next steps from the RootKey        *)
(* (path_engine.rs): SHA-256 is taken to be one-way and collision free, so *)
(* two keys are equal exactly when they are equally far down the chain,    *)
(* and whoever holds a key can derive the later ones only.  ForeignKey     *)
(* stands for every key off the chain: the random key of a decoy, and the  *)
(* key no ciphertext has once it has been tampered with.                   *)
(*                                                                         *)
(* An envelope is what AEAD lets a receiver learn of it (envelope.rs): it  *)
(* opens under the key and the associated data it was sealed with, and     *)
(* under no other.                                                         *)
(*                                                                         *)
(* A definition named Mut... is the one below it with a slip that its code *)
(* could have had; the properties are checked to notice each of them.      *)
(***************************************************************************)
EXTENDS AntiReplayOps

CONSTANTS
    Ends,              \* the SecureChannel values made from the RootKey
    Senders,           \* the ends whose application calls send
    Receivers,         \* the ends whose application calls receive
    NPaths,            \* n_paths of each end
    MessageIds,        \* message ids in use
    LongIds,           \* those longer than MAX_MESSAGE_ID_LEN
    Payloads,          \* payloads in use
    LargePayloads,     \* those longer than MAX_PAYLOAD_SIZE
    Noise,             \* the random payload of a decoy
    Hmac(_, _),        \* the first 64 bits of HMAC-SHA256(key, message_id)
    EntropyFails,      \* whether OsRng may fail (panic) while send runs
    MAX_SKIP_WINDOW,
    MAX_SKIPPED_KEYS,
    None,              \* Option::None
    MaxSeq,            \* bound: the last sequence number sent or claimed
    MaxClock           \* bound: the last tick of the clock

ASSUME EndsAssumption ==
    /\ Senders \subseteq Ends /\ Receivers \subseteq Ends
    /\ NPaths \in [Ends -> Nat]
ASSUME DataAssumption ==
    /\ LongIds \subseteq MessageIds /\ LargePayloads \subseteq Payloads
    /\ None \notin Int /\ Noise \notin Payloads
    /\ \A k \in 0..(2 * MaxSeq + 2), m \in MessageIds : Hmac(k, m) \in Nat
ASSUME LimitAssumption ==
    /\ MAX_SKIP_WINDOW \in Nat /\ MAX_SKIPPED_KEYS \in Nat
    /\ MaxSeq \in Nat /\ MaxClock \in Nat
    /\ EntropyFails \in BOOLEAN

VARIABLES
    last_seq,          \* highest authenticated sequence number, per end
    send_seq,          \* last sequence number sent, per end
    current_key,       \* the head of the ratchet, per end
    skipped_keys,      \* seq -> key of the messages skipped over, per end
    anti_replay,       \* the AntiReplayStore of each end
    now,               \* Instant::now()
    wire,              \* every packet send has ever returned
    delivered,         \* history: what receive returned Ok for, per end
    ret                \* the result of the latest call

channel == <<last_seq, send_seq, current_key, skipped_keys, anti_replay>>
vars == <<channel, now, wire, delivered, ret>>

ForeignKey == -1

Packet == [from : Ends, seq : Nat, mid : MessageIds, payload : Payloads, key : Nat]
Codes == {"Ok", "InvalidMessageId", "DecoyFailure", "AuthenticationFailed",
          "InvalidSequence", "ReplayedSequence", "SkippedKeyExpired", "Panic"}

(* Every variable has its type.  In particular delivered holds only what
   applications use as payloads: the noise in a decoy (decoy.rs:16-17), which is
   none of them, never gets out. *)
TypeOK ==
    /\ last_seq \in [Ends -> Nat \cup {None}]
    /\ send_seq \in [Ends -> Nat \cup {None}]
    /\ current_key \in [Ends -> Nat]
    /\ \A e \in Ends :
          /\ DOMAIN skipped_keys[e] \subseteq Nat
          /\ \A s \in DOMAIN skipped_keys[e] : skipped_keys[e][s] \in Nat
          /\ DOMAIN anti_replay[e].entries \subseteq Nat \X MessageIds
    /\ skipped_keys = [e \in Ends |-> skipped_keys[e]]
    /\ anti_replay = [e \in Ends |-> anti_replay[e]]
    /\ now \in Nat
    /\ wire \subseteq Packet
    /\ delivered \in [Ends -> Seq([seq : Nat, mid : MessageIds,
                                   payload : Payloads, key : Nat])]
    /\ ret \in [op : {"new", "send", "receive"}, end : Ends, code : Codes]

------------------------------------------------------------------------------
(* The ratchet and the slot selector, path_engine.rs. *)

derive_next(key) == key + 1

(* n applications of derive_next *)
Derive(key, n) == key + n

select_slot(key, mid, n_paths) == Hmac(key, mid) % n_paths

(* Sealing and opening, envelope.rs. *)

Seal(key, payload, aad) == [key |-> key, aad |-> aad, payload |-> payload]

MutOpensUnchecked(key, envelope, aad) == TRUE

MutOpensAnyId(key, envelope, aad) ==
    envelope.key = key /\ envelope.aad[1] = aad[1]

Opens(key, envelope, aad) == envelope.key = key /\ envelope.aad = aad

(* The multi-path slots, decoy.rs; slot i of the code is element i + 1. *)

Decoy(aad) == Seal(ForeignKey, Noise, aad)

MultiPathSlots(real, valid_slot, n_paths, aad) ==
    [i \in 1..n_paths |-> IF i = valid_slot + 1 THEN real ELSE Decoy(aad)]

(* construct_aad: a fixed tag, eight bytes of seq, then the message id. *)
Aad(seq, mid) == <<seq, mid>>

(* The envelopes that send returned for a packet. *)
Envelopes(p) ==
    MultiPathSlots(Seal(p.key, p.payload, Aad(p.seq, p.mid)),
                   select_slot(p.key, p.mid, NPaths[p.from]),
                   NPaths[p.from], Aad(p.seq, p.mid))

------------------------------------------------------------------------------
(* SecureChannel::send *)

NextSendSeq(e) == IF send_seq[e] = None THEN 0 ELSE send_seq[e] + 1

SendVerdict(e, payload, mid) ==
    IF mid \in LongIds THEN "InvalidMessageId"
    ELSE IF NPaths[e] = 0 THEN "DecoyFailure"
    ELSE IF payload \in LargePayloads THEN "AuthenticationFailed"
    ELSE "Ok"

MutAdvanceSender(e) ==
    /\ send_seq' = [send_seq EXCEPT ![e] = NextSendSeq(e)]
    /\ UNCHANGED <<current_key, last_seq, skipped_keys, anti_replay>>

AdvanceSender(e) ==
    /\ current_key' = [current_key EXCEPT ![e] = derive_next(@)]
    /\ send_seq' = [send_seq EXCEPT ![e] = NextSendSeq(e)]
    /\ UNCHANGED <<last_seq, skipped_keys, anti_replay>>

Send(e, payload, mid) ==
    /\ NextSendSeq(e) <= MaxSeq
    /\ SendVerdict(e, payload, mid) = "Ok"
    /\ wire' = wire \cup {[from |-> e, seq |-> NextSendSeq(e), mid |-> mid,
                           payload |-> payload, key |-> current_key[e]]}
    /\ AdvanceSender(e)
    /\ ret' = [op |-> "send", end |-> e, code |-> "Ok"]
    /\ UNCHANGED <<now, delivered>>

SendRejected(e, payload, mid) ==
    /\ SendVerdict(e, payload, mid) # "Ok"
    /\ ret' = [op |-> "send", end |-> e, code |-> SendVerdict(e, payload, mid)]
    /\ UNCHANGED <<channel, now, wire, delivered>>

(* The random generator fails in seal, before anything has changed ... *)
SealPanics(e, payload, mid) ==
    /\ EntropyFails
    /\ SendVerdict(e, payload, mid) = "Ok"
    /\ ret' = [op |-> "send", end |-> e, code |-> "Panic"]
    /\ UNCHANGED <<channel, now, wire, delivered>>

MutDecoyPanics(e, payload, mid) ==
    /\ EntropyFails
    /\ NPaths[e] > 1
    /\ NextSendSeq(e) <= MaxSeq
    /\ SendVerdict(e, payload, mid) = "Ok"
    /\ send_seq' = [send_seq EXCEPT ![e] = NextSendSeq(e)]
    /\ ret' = [op |-> "send", end |-> e, code |-> "Panic"]
    /\ UNCHANGED <<current_key, last_seq, skipped_keys, anti_replay>>
    /\ UNCHANGED <<now, wire, delivered>>

(* ... or while the decoys are made, after the ratchet has moved: the envelopes
   are lost, the sequence number is spent. *)
DecoyPanics(e, payload, mid) ==
    /\ EntropyFails
    /\ NPaths[e] > 1
    /\ NextSendSeq(e) <= MaxSeq
    /\ SendVerdict(e, payload, mid) = "Ok"
    /\ AdvanceSender(e)
    /\ ret' = [op |-> "send", end |-> e, code |-> "Panic"]
    /\ UNCHANGED <<now, wire, delivered>>

------------------------------------------------------------------------------
(* SecureChannel::receive *)

(* Step 1.  The first sequence number the ratchet has not reached. *)
Frontier(e) == IF last_seq[e] = None THEN 0 ELSE last_seq[e] + 1

IsForward(e, seq) == seq >= Frontier(e)

MutBeyondWindow(e, seq) ==
    IF last_seq[e] = None THEN seq > MAX_SKIP_WINDOW
                          ELSE seq - last_seq[e] >= MAX_SKIP_WINDOW

BeyondWindow(e, seq) ==
    IF last_seq[e] = None THEN seq > MAX_SKIP_WINDOW
                          ELSE seq - last_seq[e] > MAX_SKIP_WINDOW

(* local_skipped: the keys the runner passes on its way to seq. *)
LocalSkipped(e, seq) ==
    [s \in Frontier(e)..(seq - 1) |-> Derive(current_key[e], s - Frontier(e))]

TargetKey(e, seq) ==
    IF IsForward(e, seq) THEN Derive(current_key[e], seq - Frontier(e))
                         ELSE skipped_keys[e][seq]

(* What step 1 costs before anything is authenticated: calls of derive_next. *)
DerivationWork(e, seq) ==
    IF IsForward(e, seq) /\ ~BeyondWindow(e, seq)
    THEN (seq - Frontier(e)) + 1 ELSE 0

Step1Verdict(e, seq, mid) ==
    IF IsForward(e, seq)
    THEN IF BeyondWindow(e, seq) THEN "InvalidSequence" ELSE "Ok"
    ELSE IF seq \in DOMAIN skipped_keys[e] THEN "Ok"
    ELSE IF Contains(anti_replay[e], <<seq, mid>>) THEN "ReplayedSequence"
    ELSE "SkippedKeyExpired"

(* Steps 2 and 3 look at one slot only. *)
Slot(e, seq, mid) == select_slot(TargetKey(e, seq), mid, NPaths[e])

(* Everything before step 4, in the order of the early returns. *)
AuthVerdict(e, envs, seq, mid) ==
    IF mid \in LongIds THEN "InvalidMessageId"
    ELSE IF Len(envs) < NPaths[e] THEN "DecoyFailure"
    ELSE IF Step1Verdict(e, seq, mid) # "Ok" THEN Step1Verdict(e, seq, mid)
    ELSE IF NPaths[e] = 0 THEN "DecoyFailure"
    ELSE IF Slot(e, seq, mid) >= Len(envs) THEN "DecoyFailure"
    ELSE IF Opens(TargetKey(e, seq), envs[Slot(e, seq, mid) + 1], Aad(seq, mid))
         THEN "Ok" ELSE "AuthenticationFailed"

(* Step 4. *)
Replay(e, seq, mid) == CheckAndInsert(anti_replay[e], <<seq, mid>>, now)

ReceiveVerdict(e, envs, seq, mid) ==
    IF AuthVerdict(e, envs, seq, mid) # "Ok" THEN AuthVerdict(e, envs, seq, mid)
    ELSE IF Replay(e, seq, mid).fresh THEN "Ok" ELSE "ReplayedSequence"

MutEvictNewest(keys) ==
    [s \in {s \in DOMAIN keys :
              Cardinality({t \in DOMAIN keys : t < s}) < MAX_SKIPPED_KEYS}
       |-> keys[s]]

MutEvictLate(keys) ==
    [s \in {s \in DOMAIN keys :
              Cardinality({t \in DOMAIN keys : t > s}) <= MAX_SKIPPED_KEYS}
       |-> keys[s]]

(* evict_oldest_skipped_keys: pop_first until at most MAX_SKIPPED_KEYS are
   left, that is, keep the entries with fewer than that many above them. *)
EvictOldestSkipped(keys) ==
    [s \in {s \in DOMAIN keys :
              Cardinality({t \in DOMAIN keys : t > s}) < MAX_SKIPPED_KEYS}
       |-> keys[s]]

(* BTreeMap::insert of every new entry into the old map. *)
Merge(new, old) ==
    [s \in DOMAIN new \cup DOMAIN old |->
        IF s \in DOMAIN new THEN new[s] ELSE old[s]]

MutCommitNoAdvance(e, seq) ==
    /\ IsForward(e, seq)
    /\ skipped_keys' = [skipped_keys EXCEPT
                          ![e] = EvictOldestSkipped(Merge(LocalSkipped(e, seq), @))]
    /\ last_seq' = [last_seq EXCEPT ![e] = seq]
    /\ current_key' = [current_key EXCEPT ![e] = TargetKey(e, seq)]

MutCommitDropsSkipped(e, seq) ==
    /\ IsForward(e, seq)
    /\ skipped_keys' = [skipped_keys EXCEPT ![e] = LocalSkipped(e, seq)]
    /\ last_seq' = [last_seq EXCEPT ![e] = seq]
    /\ current_key' = [current_key EXCEPT ![e] = derive_next(TargetKey(e, seq))]

(* Step 5, branch A. *)
CommitForward(e, seq) ==
    /\ IsForward(e, seq)
    /\ skipped_keys' = [skipped_keys EXCEPT
                          ![e] = EvictOldestSkipped(Merge(LocalSkipped(e, seq), @))]
    /\ last_seq' = [last_seq EXCEPT ![e] = seq]
    /\ current_key' = [current_key EXCEPT ![e] = derive_next(TargetKey(e, seq))]

MutCommitKeepsKey(e, seq) ==
    /\ ~IsForward(e, seq)
    /\ UNCHANGED <<skipped_keys, last_seq, current_key>>

(* Step 5, branch B. *)
CommitSkipped(e, seq) ==
    /\ ~IsForward(e, seq)
    /\ skipped_keys' = [skipped_keys EXCEPT
                          ![e] = [s \in DOMAIN @ \ {seq} |-> @[s]]]
    /\ UNCHANGED <<last_seq, current_key>>

Receive(e, envs, seq, mid) ==
    /\ ReceiveVerdict(e, envs, seq, mid) = "Ok"
    /\ anti_replay' = [anti_replay EXCEPT ![e] = Replay(e, seq, mid).store]
    /\ CommitForward(e, seq) \/ CommitSkipped(e, seq)
    /\ delivered' = [delivered EXCEPT ![e] =
           Append(@, [seq |-> seq, mid |-> mid, key |-> TargetKey(e, seq),
                      payload |-> envs[Slot(e, seq, mid) + 1].payload])]
    /\ ret' = [op |-> "receive", end |-> e, code |-> "Ok"]
    /\ UNCHANGED <<send_seq, now, wire>>

MutReceiveRejected(e, envs, seq, mid) ==
    /\ ReceiveVerdict(e, envs, seq, mid) # "Ok"
    /\ last_seq' = IF Step1Verdict(e, seq, mid) = "Ok" /\ IsForward(e, seq)
                   THEN [last_seq EXCEPT ![e] = seq] ELSE last_seq
    /\ ret' = [op |-> "receive", end |-> e,
               code |-> ReceiveVerdict(e, envs, seq, mid)]
    /\ UNCHANGED <<anti_replay, send_seq, current_key, skipped_keys>>
    /\ UNCHANGED <<now, wire, delivered>>

(* Only a refusal by step 4 touches anything: check_and_insert has pruned. *)
ReceiveRejected(e, envs, seq, mid) ==
    /\ ReceiveVerdict(e, envs, seq, mid) # "Ok"
    /\ anti_replay' = [anti_replay EXCEPT ![e] =
           IF AuthVerdict(e, envs, seq, mid) = "Ok"
           THEN Replay(e, seq, mid).store ELSE @]
    /\ ret' = [op |-> "receive", end |-> e,
               code |-> ReceiveVerdict(e, envs, seq, mid)]
    /\ UNCHANGED <<last_seq, send_seq, current_key, skipped_keys>>
    /\ UNCHANGED <<now, wire, delivered>>

------------------------------------------------------------------------------
(* The transport.  It hands over the envelopes of any packet ever sent, even
   back to its sender, those in slots S tampered with, those after the n-th
   cut off.  Envelopes keep their slots and are not mixed with another packet's:
   receive looks at one slot, and finds there what it would find in a mixture. *)
Arrival(p, S, n) ==
    [i \in 1..n |-> IF i \in S THEN [Envelopes(p)[i] EXCEPT !.key = ForeignKey]
                               ELSE Envelopes(p)[i]]

Arrives(e, p, S, n, seq, mid) ==
    \/ Receive(e, Arrival(p, S, n), seq, mid)
    \/ ReceiveRejected(e, Arrival(p, S, n), seq, mid)

Tick ==
    /\ now < MaxClock
    /\ now' = now + 1
    /\ UNCHANGED <<channel, wire, delivered, ret>>

Init ==
    /\ last_seq = [e \in Ends |-> None]
    /\ send_seq = [e \in Ends |-> None]
    /\ current_key = [e \in Ends |-> 0]
    /\ skipped_keys = [e \in Ends |-> [s \in {} |-> 0]]
    /\ anti_replay = [e \in Ends |-> EmptyStore]
    /\ now = 0
    /\ wire = {}
    /\ delivered = [e \in Ends |-> << >>]
    /\ ret \in [op : {"new"}, end : Ends, code : {"Ok"}]

Next ==
    \/ \E e \in Senders, payload \in Payloads, mid \in MessageIds :
          \/ Send(e, payload, mid)
          \/ SendRejected(e, payload, mid)
          \/ SealPanics(e, payload, mid)
          \/ DecoyPanics(e, payload, mid)
    \/ \E e \in Receivers, p \in wire, seq \in 0..MaxSeq, mid \in MessageIds :
          \E n \in 0..NPaths[p.from] : \E S \in SUBSET (1..n) :
             Arrives(e, p, S, n, seq, mid)
    \/ Tick

Spec == Init /\ [][Next]_vars

(* Packet p reaches end e as it was sent. *)
Intact(p) == Arrival(p, {}, NPaths[p.from])

------------------------------------------------------------------------------
(* Properties. *)

DeliveredSeqs(e) == {delivered[e][i].seq : i \in 1..Len(delivered[e])}

SentKeys(e) == {p.key : p \in {q \in wire : q.from = e}}
OpenedKeys(e) == {delivered[e][i].key : i \in 1..Len(delivered[e])}

(* Below the frontier, but neither delivered nor deliverable any more. *)
LostSeqs(e) ==
    (0..(Frontier(e) - 1)) \ (DeliveredSeqs(e) \cup DOMAIN skipped_keys[e])

(* receive (channel.rs:100-225) returns Ok at most once for a sequence number,
   whatever message id is attached and however much the anti-replay store has
   forgotten. *)
AtMostOnce ==
    \A e \in Ends : \A i, j \in 1..Len(delivered[e]) :
        delivered[e][i].seq = delivered[e][j].seq => i = j

(* Forward secrecy: no key that an end has sealed or opened a message with can
   be had from what it still holds, its head key (and all derived from it) and
   its skipped keys (derive_next at channel.rs:92 and 217, remove at 221). *)
UsedKeysForgotten ==
    \A e \in Ends : \A k \in SentKeys(e) \cup OpenedKeys(e) :
        /\ k < current_key[e]
        /\ \A s \in DOMAIN skipped_keys[e] : skipped_keys[e][s] # k

(* skipped_keys never outgrows MAX_SKIPPED_KEYS between two calls
   (evict_oldest_skipped_keys, channel.rs:59-66). *)
SkippedBounded ==
    \A e \in Ends : Cardinality(DOMAIN skipped_keys[e]) <= MAX_SKIPPED_KEYS

(* Messages are given up oldest first: every sequence number that can no longer
   be delivered lies below every one that still can (pop_first, channel.rs:62). *)
OldestGivenUpFirst ==
    \A e \in Ends : \A s \in LostSeqs(e), t \in DOMAIN skipped_keys[e] : s < t

(* Within MAX_SKIP_WINDOW of the newest message delivered, or of number 0 when
   there is none. *)
WithinReach(e, seq) ==
    \E d \in DeliveredSeqs(e) \cup {0} : seq <= d + MAX_SKIP_WINDOW

(* A packet that reaches a pure receiver intact is accepted exactly when it has
   not been delivered, its key has not been evicted, and it is within reach of
   what was delivered (channel.rs:130 and 147): no forged, reordered, repeated or
   refused packet before it, no panic of the sender and no time that has passed
   makes receive refuse it or accept it twice. *)
GenuineAccepted ==
    \A e \in Receivers \ Senders, p \in wire :
        NPaths[e] = NPaths[p.from] =>
            ( ReceiveVerdict(e, Intact(p), p.seq, p.mid) = "Ok"
              <=> /\ p.seq \notin DeliveredSeqs(e) \cup LostSeqs(e)
                  /\ WithinReach(e, p.seq) )

(* Step 4 of receive (channel.rs:202-205) refuses nothing that steps 1-3 let
   through: whatever the store remembers is already out of the ratchet's reach. *)
ReplayStoreRedundant ==
    \A e \in Ends : \A k \in DOMAIN anti_replay[e].entries :
        k[1] < Frontier(e) /\ k[1] \notin DOMAIN skipped_keys[e]

(* A call that returns an error leaves the whole channel as it was, the replay
   store included (the comments at channel.rs:195 and 203). *)
ErrorsMutateNothing ==
    [][ret'.code \notin {"Ok", "Panic"} => UNCHANGED channel]_vars

(* Every packet has a ratchet key of its own (README.md:188-191,
   envelope.rs:34-35). *)
SingleUseKeys == \A p, q \in wire : p.key = q.key => p = q

(* RatchetKey[n] seals and opens "an envelope at sequence n" (README.md:191), at
   every end that works in one direction: number and key are spent together,
   also by a send that panics half-way (channel.rs:92-96), and a jump over lost
   packets, a late arrival or an eviction does not set them apart. *)
KeyOfSequence ==
    /\ \A e \in Ends \ Receivers :
          /\ current_key[e] = NextSendSeq(e)
          /\ \A p \in wire : p.from = e => p.key = p.seq
    /\ \A e \in Ends \ Senders : \A i \in 1..Len(delivered[e]) :
          delivered[e][i].key = delivered[e][i].seq

(* A packet that was delivered and arrives once more as it was sent is refused as
   what it is, with the ReplayedSequence error that README.md:256 promises
   (channel.rs:164-168). *)
ReplaysCalledReplays ==
    \A e \in Receivers, p \in wire :
        p.seq \in DeliveredSeqs(e)
        => ReceiveVerdict(e, Intact(p), p.seq, p.mid) = "ReplayedSequence"

(* An unauthenticated packet costs at most MAX_SKIP_WINDOW derivations
   (the doc comment of SecureChannel, channel.rs:22-23). *)
DerivationWorkBounded ==
    \A e \in Receivers, seq \in 0..MaxSeq : DerivationWork(e, seq) <= MAX_SKIP_WINDOW

(* Of a packet on the wire, and of an entry of delivered, what an application
   sees. *)
SentMessage(p) == [from |-> p.from, seq |-> p.seq, mid |-> p.mid, payload |-> p.payload]
GotMessage(d) == [seq |-> d.seq, mid |-> d.mid, payload |-> d.payload]

SentMessages == {SentMessage(p) : p \in wire}
GotMessages ==
    [e \in Ends |-> [i \in 1..Len(delivered[e]) |-> GotMessage(delivered[e][i])]]

Contract == INSTANCE AtMostOnceDelivery
              WITH SeqNumbers <- 0..MaxSeq, sent <- SentMessages, got <- GotMessages

(* The endpoints implement at-most-once delivery over an unreliable network:
   what an end's application sees of send and receive is what the contract
   allows, for all that the ratchet, the slots and the store do underneath. *)
ImplementsContract == Contract!Spec
==============================================================================
