# A TLA+ model of decoypath (NullPath)

decoypath is a Rust library for secure messaging over several network paths at
once. Two parties agree on a root key in a signed two-pass handshake; each then
runs a `SecureChannel` that ratchets a key per message, seals the message into
one of `n_paths` fixed-size envelopes, fills the other slots with decoys, and on
the other side recomputes the slot, opens the envelope and commits the new state
only if everything succeeded.

This directory holds TLA+ models of that code, TLC configurations that check them
on small instances, and TLAPS proofs that hold for all instances. File names such
as `channel.rs:92` refer to the crate's `src/` directory, `README.md:256` to the
repository's README. `PROJECT.json` maps each definition to the lines it models.

## 1. Inventory

| Component | State | Operations | Interacts with | Hard about it |
|---|---|---|---|---|
| `channel.rs` SecureChannel | `last_seq`, `send_seq`, `current_key`, `skipped_keys`, `anti_replay`, `n_paths` | `new`, `send`, `receive`, (private) `evict_oldest_skipped_keys`, `construct_aad` | everything below; the peer, through the caller's transport | loss, duplication, reordering, forgery; errors half-way; one key shared by both directions; two size limits |
| `anti_replay.rs` AntiReplayStore | map of entries, queue of the same entries | `check_and_insert`, `contains`, (private) `prune`, `evict_oldest` | called by `receive` in steps 1 and 4; the clock | two containers in step; forgetting by time and by capacity |
| `path_engine.rs` | none (RatchetKey is a value) | `derive_next`, `select_slot` | `send`, `receive` | both ends must compute the same slot |
| `envelope.rs` | none | `seal`, `open` | `send`, `receive`, decoys | needs single-use keys from its caller; length boundaries |
| `decoy.rs` | none | `generate_decoy`, `generate_multi_path_slots` | last call of `send`, after its state has changed | may panic there |
| `handshake.rs` | `InitiatorState` (the responder keeps nothing) | `initiate`, `respond`, `finalize` | root key goes into `SecureChannel::new` | parallel sessions, duplicated and recombined payloads, state consumed by move |
| `crypto.rs` | none (EphemeralKeyPair is consumed by its use) | sign/verify of both passes, `diffie_hellman`, `derive_root_key` | the handshake | which fields each signature and the key derivation cover |
| `types.rs` | none | `to_bytes`, `from_bytes` of the payloads | the handshake, the C interface | malformed input |
| `errors.rs`, `lib.rs` | none | none | all | nothing |
| `ffi.rs`, `decoypath.h` | handles owned by C callers | five calls on sessions and channels, two frees, two without state | the handshake and the channel | ownership; errors found after the channel has already changed; panics turned into codes |

What makes each correct:

- **Channel.** A message is delivered at most once, only as it was sent, never to
  its sender; whatever went wrong before, a deliverable packet is accepted; an
  error changes nothing; used keys cannot be recovered; each key seals one
  message; memory stays bounded, and the oldest messages are the ones given up.
- **Store.** Map and queue agree and are in time order; size at most the capacity;
  a key is forgotten only by time or by capacity.
- **Handshake.** Whoever completes agrees with its peer on both identities and on
  the root key; root keys are never repeated; a genuine response is accepted by
  the session it was made for.
- **Handshake and channel together.** What a session gets comes from the other
  half of its own handshake, and from nobody else.
- **Envelope.** `open` returns the bytes given to `seal`; every byte of the envelope
  is authenticated; no length field leads outside the buffer.
- **C interface.** A caller that keeps to the contract never touches a freed
  box, and no box is left without an owner; the return codes are enough to know
  the next sequence number; what small buffers and panics lose is lost whole.

The hazards, each at the line where it bites and with the properties that would
catch it, are listed in `PROJECT.json`.

## 2. Modules

| Module | Models |
|---|---|
| `AntiReplayOps` | the store as a value, its methods as operators from store to store |
| `AntiReplayStore` | a store on its own, offered keys at any time |
| `ReplayWindow` | abstract: a set of remembered keys with a time window and a capacity |
| `SecureChannel` | the ends of a channel and the transport between them; path engine, envelope and decoys are its operators; the store is `AntiReplayOps` |
| `AtMostOnceDelivery` | abstract: what the application is promised |
| `MCSecureChannel` | instances of `SecureChannel` for TLC |
| `SecureChannelProofs` | type correctness, at-most-once, forward secrecy, no trace of errors, refinement of the contract |
| `EvictionProofs` | the bound on skipped keys, that the oldest go first, and what one-way channels promise besides |
| `Handshake` | sessions of the handshake over a hostile network |
| `Sessions`, `MCSessions` | composition: the sessions of `Handshake`, each with a channel on its root key, the channels taken at their contract `AtMostOnceDelivery` |
| `CHandles`, `MCHandles` | the handshake half of the C interface: boxes and handles on top of `Handshake` |
| `CChannel`, `MCChannel` | the messaging half: `send` and `receive` of C applications on top of `SecureChannel` |
| `CHandlesProofs`, `CChannelProofs` | ownership; that sessions and channels used through C are those of `Handshake` and `SecureChannel`; the caller's count; what C applications see |
| `EnvelopeLayout` | the 1024 bytes of an envelope |
| `ReplayStoreProofs`, `HandshakeProofs`, `SessionsProofs`, `EnvelopeProofs` | every safety property of the modules they are named for |

A definition named `Mut...` is the definition after it with a plausible slip. No
specification uses them: they are there to show that each property notices one.

### How the channel corresponds to the code

The variables `last_seq`, `send_seq`, `current_key`, `skipped_keys` and
`anti_replay` are the fields of `SecureChannel`, one per end; `n_paths` is the
constant `NPaths`. `now` is the monotonic clock, `wire` everything `send` ever
returned (an unreliable network never forgets), `ret` the result of the latest
call. `delivered` is a history variable: what `receive` returned `Ok` for.

| Action | Code |
|---|---|
| `Send` | a successful `send`; the envelopes are a function of the packet put on the wire (`Envelopes`) |
| `SendRejected` | each early return of `send` |
| `SealPanics`, `DecoyPanics` | `OsRng` panics in `seal`, before, or in `generate_decoy`, after key and sequence number have advanced (`channel.rs:92-95`); the channel survives where the C interface catches the panic |
| `Receive` | steps 1 to 5, ending in `CommitForward` (branch A with its eviction) or `CommitSkipped` (branch B) |
| `ReceiveRejected` | each early return of `receive`, verdicts in the code's order; a refusal in step 4 leaves the store pruned |
| `Arrives` | the transport calls `receive` with the envelopes of any packet ever sent, some tampered with, some cut off, under any sequence number and message id |
| `Tick` | time passes |

A ratchet key is its distance from the root key, so `derive_next` is `+ 1`. An
envelope is a record of the key and associated data that open it and of the
payload. Decoys and tampered envelopes carry `ForeignKey`, which no end ever
holds. A call runs alone: `&mut self` makes Rust callers take turns.

Bounded loops of the code are closed forms: the runner of step 1 is the function
`LocalSkipped`, the `pop_first` loop keeps the entries with fewer than
`MAX_SKIPPED_KEYS` above them (`EvictOldestSkipped`), and `prune` pops the prefix
before the first live item (`ExpiredPrefix`).

### How the handshake corresponds to the code

`initiator` and `responder` map session numbers to sessions. A session's number
is also its ephemeral key and its nonce, since `generate` and `generate_nonce` never
repeat (`Fresh`). `inits` and `resps` are the payloads sent. `initiate`,
`respond` and `finalize` are the functions of that name with the preceding
`from_bytes`; `RespondRejected` and `FinalizeRejected` are their error returns.
A failed `finalize` has consumed the state, a payload refused by `from_bytes` has
not (that is the Rust interface; in the C interface it has). The network hands
over any combination of fields that were ever sent, and garbled ones (`Carried`).

### How the composition corresponds to the code

In `Sessions` every session with a root key (`Open`) has made a `SecureChannel`
from it. Channels are not spelt out: `AtMostOnceDelivery`, which `Refinement`
proves of any set of ends with one root key, says what they do. A message can be
delivered only between sessions whose root keys are equal, as any ratchet key
comes from its root; that these are the right two sessions is for the handshake
to ensure. Each message carries its sender's session number.

### How the C interface corresponds to the code

`CHandles`: `heap` is what `Box::into_raw` has let go and `Box::from_raw` has not
taken back; `held` is what the contract lets the caller pass on. Both change
together (`Owned`) on every path but one: the null check of
`decoypath_initiator_finalize`, which leaves the box and takes the handle
(`FinalizeNull`, with the history variable `nulled`). `InitiateCode`, `RespondCode`
and `FinalizeCode` are the checks of each call in their order. A session whose
state was dropped counts as `failed`, which is how the calls implement `Handshake`.

`CChannel`: `SendCode`, `EntryCode` and `ReceiveCode` are the checks and the
translation of errors. `SendReturns` is a call that returns `OK` or
`BUFFER_TOO_SMALL` after `send` has advanced, `SendPanics` one that panicked before
or after that, `ReceiveReturns` one whose message is committed and then copied or
wiped (`CopyOut`); the refusals leave the channel to `ReceiveRejected` or do not
reach it. `count` is the caller's own count, `posted` the packets it got with the
count as label, `handed` and `wiped` what became of opened messages. Channels made
through C have between 1 and `MAX_N_PATHS` paths (`CAssumption`, from
`ffi.rs:168` and `243`), so that `send` refuses nothing that passed the entry checks.

### How the envelope corresponds to the code

`EnvelopeLayout` has the real sizes. Bytes are numbers; those whose value does not
matter (payload, padding, nonce, tag, a byte changed on the way) are marks outside
0..255 that tell them apart. `seal` builds header, payload and padding and
assembles nonce, ciphertext and tag; `open` cuts them apart again (`NonceBytes`,
`CiphertextBytes`, `TagBytes`), checks version and length and slices. The AEAD takes
exactly the triple it produced. `ForeignSeal` is a peer with the key whose header
says anything.

## 3. Runs

| Run | Shows |
|---|---|
| `simplex` (10920 states) | One sender, one receiver, equal paths. `GenuineAccepted`: an intact packet is accepted exactly when it is undelivered, unevicted and within `MAX_SKIP_WINDOW` of the newest delivered message, whatever came before; the property measures the window on what was delivered, not with the code's own check, so a boundary that is off by one violates it. `KeyOfSequence`: key and number are spent together, also by a send that panics after the ratchet has moved. Also `ErrorsMutateNothing`, `SingleUseKeys`, `SkippedBounded`, `OldestGivenUpFirst`, `TypeOK`. |
| `relabelled` (6229) | Two ids and every sequence number attached to every packet, while the store (capacity 1) forgets at once; one receiver has the sender's number of paths, the other fewer, so that it may look into a decoy or at the wrong slot: `AtMostOnce`, `UsedKeysForgotten`, `ReplayStoreRedundant`, `ImplementsContract`, and where the paths agree `GenuineAccepted`. |
| `duplex` (9976) | Both ends send and receive: `AtMostOnce`, `UsedKeysForgotten`, `ImplementsContract`, reflected packets included. |
| `replay_store` (31776) | The store against `ReplayWindow`, and its representation invariants. |
| `sessions` (20183, up to symmetry) | Of the handshake: `InitiatorAgrees`, `ResponderAgrees`, `RootKeysNeverRepeat`, `GenuineResponseCompletes`. Of handshake and channels together: `ConversationsArePairs`, messages stay between the two halves of one handshake. |
| `c_handles` (1739, up to symmetry) | `HeldIsLive`, `LeaksOnlyOnNull`, and that the calls implement `Handshake`. |
| `c_channel` (5308) | With small buffers, panics, null pointers, damaged and relabelled packets: `CountTracksSends`, `OpenedNeverReturns`, `CImplementsContract`; and under fair delivery `PostedArrives`: gaps from sends that found no room or panicked do not keep the rest from arriving. |
| `envelope` (129151) | `RoundTrip`, `EveryByteCounts`, `OpenStaysInside`. |
| `duplex_keys`, `bootstrap_work`, `replay_diagnosis`, `c_leak` | violations, see below |

`SingleUseKeys` and `UsedKeysForgotten` speak of packets on the wire and of
messages delivered. The envelope of a send that panicked never leaves `send`, so
they do not see its key; `KeyOfSequence` does, through the head of the ratchet.

Four runs find the code at odds with its documentation:

1. **`duplex_keys`.** `send` and `receive` move the same `current_key`. When both
   ends send, message 0 of each is sealed under the same key, against
   `README.md:191` ("Used exactly **once** to seal/open an envelope at sequence
   `n`") and `envelope.rs:34-35`. The same cause makes such messages
   undeliverable; `duplex` shows that nothing worse is delivered. A channel is
   therefore good for one direction, and the promises hold for one
   (`simplex`).
2. **`bootstrap_work`.** The first packet may cost `MAX_SKIP_WINDOW + 1`
   derivations, against "1,000 SHA-256 steps" (`channel.rs:22-23`,
   `README.md:257`).
3. **`replay_diagnosis`.** Step 1 asks the replay store whether a number without a
   key is a replay or too old, and the store forgets. A replay after that is
   refused as `SkippedKeyExpired`, against `README.md:256` ("`AntiReplayStore`
   detects duplicate → `ReplayedSequence` error"). The run gets there with a
   store that has room for everything, by time alone. The replay is refused all
   the same: `AtMostOnce`, and for C callers `OpenedNeverReturns`, which allows both
   codes.
4. **`c_leak`.** `decoypath_initiator_finalize` with a null `resp_payload` or
   `out_channel` returns before it takes the state (`ffi.rs:232`), against
   `decoypath.h:63` ("ALWAYS consumes and frees state handle on success or
   failure"). Since the caller must not free the state after the call
   (`ffi.rs:221-222`), it leaks. `LeaksOnlyOnNull` shows that this is the only way.

### Bounds, and why they are enough

- `MAX_SKIP_WINDOW = 2`, `MAX_SKIPPED_KEYS = 1` and sequence numbers up to
  `MaxSeq = 4` in `simplex` (2 in `relabelled` and `duplex`, where ids, receivers or
  senders multiply the states, and the window is not exceeded): a packet inside, at and beyond the window, before and after the
  first message; a jump that fills the table, and another that evicts. `c_channel`
  has room for two skipped keys, as many as can arise, so that nothing is evicted
  and `PostedArrives` has no exceptions.
- `Capacity = 1`, `TimeWindow = 0`, `MaxClock = 1`: a store that forgets by
  capacity and by time between any two calls; by capacity only in `relabelled` and
  `duplex` (`MaxClock = 0`), by time only in `replay_diagnosis` (`Capacity = 4`).
- The third end in `relabelled` is what an application gets that makes one more
  channel from the bytes of its `RootKey`, which are public (`types.rs:14`). Nobody
  panics there: to a receiver, a number spent by a panic is a packet that is lost.
- Two ids and two payloads, one of them too long where that matters; two paths,
  with a slot function that moves with the key and with the id.
- `replay_store`: three keys for two places, a window of 2 in a clock of 5, six
  insertions, so that entries expire singly and together, are evicted, and come
  back.
- `sessions`: four ephemeral keys, hence for instance two sessions in parallel,
  or one initiation answered three times, in all roles of two identities; two
  conversations run side by side, with one message from each session. Refused
  initiations, which change nothing, are not steps of it.
- `c_handles`: three sessions (an initiation answered twice, or two initiators and
  a response), `MAX_N_PATHS = 1` with `n_paths` of 0, 1 and 2. A call has one slip
  at most: what two slips change is the code, not the effect.
- `c_channel`: three sequence numbers, of which any may be lost to a small buffer
  on either side or to one panic, within a window of 2; a store as above. No gap
  is wider than that window, so `PostedArrives` does not meet packets beyond it;
  those are `simplex`'s, with five numbers.
- `envelope`: real sizes; lengths on both sides of 0, 256, 992 and 996; each of the
  1024 bytes damaged in turn; length fields at and around 992, 996 and 65535.

Deadlock is checked in all runs but those that a bound stops: `replay_store`,
`sessions` (all sessions used up, all messages exchanged) and `envelope` (opened
once).

### Fairness

`CFairSpec` asks that a packet which `receive` would accept from now on, under the
label it was posted with, does arrive intact some time (weak fairness of
`CGenuine`). The library has no threads or timers of its own, so this is an
assumption on the transport and on whoever resends through it, which the library
leaves to its caller. No fairness is asked of `send`, of forged packets, of the
clock, or of the size of buffers: a packet may meet a small one and be wiped.

## 4. Proofs

Every invariant, action property and refinement that a passing run checks is also
a theorem, for every value of the constants that satisfies the named assumptions.
Those are types (lengths and limits are natural numbers, bytes are in 0..255),
that the sizes of an envelope add up (`LayoutAssumption`, the constants of
`envelope.rs:9-18`), and that the marks `None`, `Noise`, `Garbled` are not also
something else: `DataAssumption` says that the noise of a decoy is nobody's payload,
`IdentityAssumption` says that garbled bytes are no `Signature` and `None` no
`RootKey`. Three theorems have a further hypothesis, written out below.

### Channel: `SecureChannelProofs`, `EvictionProofs`

For any set of ends, any split into senders and receivers (both included), any
`NPaths`, limits, bounds and slot function. `SecureChannelProofs` rests on the
invariant `IInv`:

- `KeyPosition`: the head of the ratchet stands at the number of sequence numbers
  passed in both directions together;
- `SkippedBehind`: skipped keys lie behind the head, one per sequence number;
- `DeliveredBehind`: what was delivered is behind the frontier, and its key gone;
- `TypeOK`, `UsedKeysForgotten`, `ReplayStoreRedundant`, `AtMostOnce`.

`AtMostOnce` alone is not inductive, since nothing in it speaks of the key that a
second delivery would need; `DeliveredBehind` says that there is none, and
`KeyPosition` and `SkippedBehind` are what lets a forward jump keep it. The proof
of the step has a lemma each for `AdvanceSender`, `Receive` and the refusals.

| Theorem | States |
|---|---|
| `TypeCorrect` | `Spec => []TypeOK`; the noise of a decoy is never delivered (that what is delivered was sent is `Refinement`'s) |
| `DeliversAtMostOnce` | `Spec => []AtMostOnce` |
| `ForwardSecrecy` | `Spec => []UsedKeysForgotten` |
| `KeysSupersedeReplayStore` | `Spec => []ReplayStoreRedundant`: step 4 of `receive` never refuses |
| `FailedCallsLeaveNoTrace` | `Spec => ErrorsMutateNothing`; needs the previous one, since a refusal in step 4 would leave the store pruned |
| `Refinement` | `Spec => ImplementsContract` |
| `SkippedKeysBounded` | `Spec => []SkippedBounded` |
| `GivesUpOldestFirst` | `Spec => []OldestGivenUpFirst` |
| `KeysFollowSequence` | `Spec => []KeyOfSequence`: at ends that work in one direction, whatever the others do |
| `OneWayKeysSingleUse` | `Spec => []SingleUseKeys`, if no end both sends and receives (`OneWay`) and one end sends (`SingleSender`) |
| `OneWayGenuineAccepted` | `Spec => []GenuineAccepted`, if `OneWay` |

The last five are in `EvictionProofs`: the bound and the order from an invariant
on top of `IInv` (`EvictionInv`) whose lemmas say what `evict_oldest_skipped_keys`
keeps, the one-way results from `KeysInStep`: at an end of one direction all keys,
on the wire, skipped or of delivered messages, are as far down the chain as their
sequence numbers say. `GenuineAccepted` also needs `FrontierDelivered`: the
frontier is one past the newest delivered message, so that the check against
`last_seq` is the distance from it (`WindowIsReach`). The hypotheses of the last two
are those of the `simplex` run, and necessary: without `OneWay` the head also
counts what the end has sent itself, which is how `duplex_keys` violates
`SingleUseKeys`; two senders number their packets alike.

### Store: `ReplayStoreProofs`

For any keys, capacity, window, clock and number of insertions. `StoreInv` says that map
and queue hold the same keys with the same times, that the queue is in time order
and not longer than the capacity (1 where that is 0). `HistoryInv` is needed for `ReplayNeedsForgetting`, which
speaks of the past: the queue is the latest part of all insertions ever made, and
what lies before it has expired or is `Capacity` insertions back. The lemmas say
what `prune` and `evict_oldest` cut off: since the queue is sorted, exactly the
expired items; since it matches the map, exactly one item.

| Theorem | States |
|---|---|
| `StoreTyped`, `QueueAndMapAgree`, `QueueSorted`, `StoreStaysBounded` | `Spec => []TypeOK`, `[]QueueMatchesEntries`, `[]QueueInTimeOrder`, `[]StoreBounded` |
| `NoEarlyReplay` | `Spec => []ReplayNeedsForgetting` |
| `StoreImplementsWindow` | `Spec => ImplementsWindow` |

### Handshake and sessions: `HandshakeProofs`, `SessionsProofs`

For any identities, any number of sessions and any recombination of payloads.
`HInv` has four parts: sessions are `Numbered` in order and `Shaped`; all payloads
were `SentBySessions`; and every key is `Paired`, the key of an initiator and a
responder session meant for each other. The step that matters is a lemma each for
`respond` and `finalize` (`InitiationIsGenuine`, `ResponseIsGenuine`): a signature that
verifies was made by a session, whose number stands in what was signed, and the
tags at the start keep the two kinds apart.

| Theorem | States |
|---|---|
| `HandshakeTyped` | `Spec => []TypeOK` |
| `InitiatorAuthentication`, `ResponderAuthentication` | `Spec => []InitiatorAgrees`, `Spec => []ResponderAgrees` |
| `FreshRootKeys` | `Spec => []RootKeysNeverRepeat` |
| `GenuineResponses` | `Spec => []GenuineResponseCompletes` |
| `PrivateConversations` | `SSpec => []ConversationsArePairs`, from `HInv` and that all exchange is between open sessions of one root key (`Exchange`) |
| `HandshakeUnderTraffic` | the five above under `SSpec` |

### Envelope: `EnvelopeProofs`

For any sizes that add up, any payload length and any byte. `EInv`: the envelope is
what the AEAD produced from a plaintext, or that with one byte changed, and once
opened it stays. The lemmas are the layout: slices of what was assembled are its
parts (`TakenApart`), the slices together leave out no byte (`PutTogether`), a
header says the length it was made for (`HeaderIs`).

| Theorem | States |
|---|---|
| `SealedComesBack` | `Spec => []RoundTrip` |
| `AlteredIsRefused` | `Spec => []EveryByteCounts` |
| `NeverPastBuffer` | `Spec => []OpenStaysInside` |

### C interface: `CHandlesProofs`, `CChannelProofs`

`HeldIsLive` and `LeaksOnlyOnNull` are inductive together, since `Owned` changes both
sides alike and `FinalizeNull` writes down what it leaves. That the calls implement
the handshake needs `HInv` (what the network hands over are payloads that
`Handshake` can carry) and `HeldIsWaiting`: a state the caller may still use is of a
session that waits, so that dropping it is a rejected `finalize`.

Every channel call through C is a step of `SecureChannel` or none, given that what
is posted is on the wire (`PostedOnWire`), so all theorems about channels hold
through C. `CInv` adds to `IInv` what the applications know: whatever was handed over
or wiped was delivered (`AppInv`).

| Theorem | States |
|---|---|
| `NoUseAfterFree`, `OnlyNullLeaks` | `CSpec => []HeldIsLive`, `CSpec => []LeaksOnlyOnNull` |
| `CImplementsHandshake`, `CHandshakeAuthenticates` | `CSpec => ImplementsHandshake`, hence authentication and fresh keys for C callers |
| `CImplementsChannel`, `CDeliversAtMostOnce` | `CSpec => Spec`, hence `CSpec => []AtMostOnce` |
| `CallersCountHolds` | `CSpec => []CountTracksSends` |
| `CRefinement` | `CSpec => CImplementsContract` |
| `OpenedStaysOpened` | `CSpec => []OpenedNeverReturns`, if there are two ends (`TwoEnds`) |

`TwoEnds` is what a root key is for: one initiator and one responder
(`RootKeysNeverRepeat`). With a third end of fewer paths, the packet of one
peer may carry a number opened from another, and is refused for having too few
envelopes before its number is looked at.

### Only model-checked

The liveness property `PostedArrives` (liveness under fairness is out of the
prover's reach), and the four violations, which are about instances.

## 5. Not modelled

- **Calls without state**: `decoypath_abi_version`,
  `decoypath_generate_identity_keypair` (identities are a constant set),
  `last_seq`, `len`, `is_empty`, `ct_eq`, the texts of errors.
- **C callers that break the contract** (a handle used after it was given up, wild
  pointers, two threads on one handle): undefined behaviour from there on. The
  header does not speak of threads.
- **Dishonest identities**: every identity of `Handshake` follows the protocol, and
  only its sessions sign with its key; the network is hostile, the participants
  are not. What a peer that holds a valid identity but deviates from the protocol
  could do to its own sessions is not covered.
- **Mixed packets**: the transport cuts and tampers with the envelopes of one packet
  and leaves them in their slots. `receive` reads one slot, so a mixture of packets
  shows it nothing that one of them under the same label would not.
- **Offsets in the handshake payloads** (four fields of fixed size at fixed
  places, the same in `to_bytes` and `from_bytes`), indistinguishability of decoys,
  timing, zeroization of memory: not visible in this state space.
- **Cryptographic strength**: signatures, AEAD, hashes and HKDF are perfect. In
  particular a low-order X25519 point, which the code does not reject, is not
  distinguished.
- **Overflow** of the 64-bit sequence number, out of reach of any run of the
  program.

## 6. Plan

Done: 1. `AntiReplayOps`, `AntiReplayStore`, `ReplayWindow`; 2. `SecureChannel`
with `AtMostOnceDelivery`; 3. the proofs about it; 4. `Handshake` and its
composition with channels in `Sessions`; 5. the C interface, `CHandles` and
`CChannel`; 6. `EnvelopeLayout`; 7. proofs of one-way channels, of the store and its
refinement, of the handshake and its sessions, of the envelope, and of what C
applications see.

Left:

8. the safety half of `PostedArrives` as a theorem: under `CSpec` a posted packet that
   was neither opened nor evicted nor left behind the window stays acceptable, so
   that fairness alone decides the rest;
9. `SingleUseKeys` from `CSpec` and from `SSpec`, for callers that use one direction.
