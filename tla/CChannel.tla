------------------------------ MODULE CChannel -------------------------------
(***************************************************************************)
(* decoypath_channel_send and decoypath_channel_receive (src/ffi.rs) and   *)
(* the C applications at the two ends.                                     *)
(*                                                                         *)
(* send gives envelopes to a buffer of the caller's and no sequence        *)
(* number, and receive must be told one: the application keeps a count of  *)
(* its own, of the calls that it knows to have used up a number, and posts *)
(* each packet under it.  A panic of the random generator is caught and    *)
(* returned as a code that does not say whether a number is gone.          *)
(*                                                                         *)
(* A definition named Mut... is the one below it with a slip that its code *)
(* could have had; the properties are checked to notice each of them.      *)
(***************************************************************************)
EXTENDS SecureChannel

CONSTANTS
    MAX_N_PATHS,
    Truncated,         \* a payload of which only the first bytes were copied
    RoomToSend,        \* whether out_envelopes is large enough: the answers that occur
    RoomToReceive,     \* the same for out_payload
    MaxPanics          \* bound: calls of send that panic, per end

(* decoypath_responder_respond and decoypath_initiator_finalize make channels
   with these values of n_paths only. *)
ASSUME CAssumption ==
    /\ \A e \in Ends : NPaths[e] \in 1..MAX_N_PATHS
    /\ MAX_N_PATHS \in Nat /\ MaxPanics \in Nat
    /\ RoomToSend \subseteq BOOLEAN /\ RoomToReceive \subseteq BOOLEAN

VARIABLES
    count,             \* calls of send that have used up a number, as the caller counts
    panics,            \* calls of send that returned PANIC, per end
    posted,            \* packets the caller has got, with the count as their label
    handed,            \* what receive has copied to the caller, per end
    wiped              \* numbers of messages receive has opened and wiped, per end

capp == <<count, panics, posted, handed, wiped>>
cvars == <<vars, capp>>

(* What decoypath_channel_receive makes of the result of receive. *)
CodeOf(verdict) ==
    [Ok |-> "OK", ReplayedSequence |-> "REPLAYED_SEQUENCE",
     SkippedKeyExpired |-> "SKIPPED_KEY_EXPIRED", InvalidSequence |-> "INVALID_SEQUENCE",
     InvalidMessageId |-> "INVALID_MESSAGE_ID",
     AuthenticationFailed |-> "AUTHENTICATION_FAILED",
     DecoyFailure |-> "CRYPTO_FAILURE"][verdict]

------------------------------------------------------------------------------
(* decoypath_channel_send.  What passes the entry checks, send does not refuse:
   it checks the message id and the payload again, and n_paths is not zero. *)

SendCode(null, payload, mid) ==
    IF null THEN "NULL_POINTER"
    ELSE IF payload \in LargePayloads THEN "INVALID_PAYLOAD"
    ELSE IF mid \in LongIds THEN "INVALID_MESSAGE_ID"
    ELSE "OK"

NewPacket(e, payload, mid) ==
    [from |-> e, seq |-> NextSendSeq(e), mid |-> mid, payload |-> payload,
     key |-> current_key[e]]

MutSendOut(e, payload, mid, room) ==
    /\ IF room THEN Send(e, payload, mid) ELSE UNCHANGED vars
    /\ posted' = IF room
                 THEN posted \cup {[packet |-> NewPacket(e, payload, mid),
                                    label |-> count[e]]}
                 ELSE posted

(* The buffer is looked at when send has returned: with no room the envelopes
   are dropped. *)
SendOut(e, payload, mid, room) ==
    /\ Send(e, payload, mid)
    /\ posted' = IF room
                 THEN posted \cup {[packet |-> NewPacket(e, payload, mid),
                                    label |-> count[e]]}
                 ELSE posted

(* OK or BUFFER_TOO_SMALL: either way the caller knows that a number is gone. *)
SendReturns(e, payload, mid, room) ==
    /\ SendCode(FALSE, payload, mid) = "OK"
    /\ SendOut(e, payload, mid, room)
    /\ count' = [count EXCEPT ![e] = @ + 1]
    /\ UNCHANGED <<panics, handed, wiped>>

(* catch_unwind and unwrap_or: PANIC, with the channel as the panic left it. *)
SendPanics(e, payload, mid) ==
    /\ panics[e] < MaxPanics
    /\ SendCode(FALSE, payload, mid) = "OK"
    /\ SealPanics(e, payload, mid) \/ DecoyPanics(e, payload, mid)
    /\ panics' = [panics EXCEPT ![e] = @ + 1]
    /\ UNCHANGED <<count, posted, handed, wiped>>

SendRefused(null, payload, mid) ==
    /\ SendCode(null, payload, mid) # "OK"
    /\ UNCHANGED cvars

------------------------------------------------------------------------------
(* decoypath_channel_receive.  A call has one slip at most: a null pointer, or
   an envelopes_len that is no multiple of ENVELOPE_TOTAL_LEN. *)

Slips == {"none", "null", "ragged"}

EntryCode(slip, envs, mid) ==
    IF slip = "null" THEN "NULL_POINTER"
    ELSE IF mid \in LongIds THEN "INVALID_MESSAGE_ID"
    ELSE IF Len(envs) = 0 \/ slip = "ragged" \/ Len(envs) > MAX_N_PATHS
         THEN "INVALID_PAYLOAD"
    ELSE "OK"

(* The code as far as the size of out_payload does not matter. *)
ReceiveCode(slip, e, envs, seq, mid) ==
    IF EntryCode(slip, envs, mid) # "OK" THEN EntryCode(slip, envs, mid)
    ELSE CodeOf(ReceiveVerdict(e, envs, seq, mid))

Decrypted(e, envs, seq, mid) ==
    [seq |-> seq, mid |-> mid, payload |-> envs[Slot(e, seq, mid) + 1].payload]

MutCopyOut(e, msg, room) ==
    /\ handed' = [handed EXCEPT ![e] =
                    Append(@, IF room THEN msg ELSE [msg EXCEPT !.payload = Truncated])]
    /\ UNCHANGED wiped

(* The message is committed by now.  OK copies it, BUFFER_TOO_SMALL wipes it. *)
CopyOut(e, msg, room) ==
    IF room THEN /\ handed' = [handed EXCEPT ![e] = Append(@, msg)]
                 /\ UNCHANGED wiped
            ELSE /\ wiped' = [wiped EXCEPT ![e] = @ \cup {msg.seq}]
                 /\ UNCHANGED handed

ReceiveReturns(e, envs, seq, mid, room) ==
    /\ ReceiveCode("none", e, envs, seq, mid) = "OK"
    /\ Receive(e, envs, seq, mid)
    /\ CopyOut(e, Decrypted(e, envs, seq, mid), room)
    /\ UNCHANGED <<count, panics, posted>>

ReceiveRefused(slip, e, envs, seq, mid) ==
    /\ ReceiveCode(slip, e, envs, seq, mid) # "OK"
    /\ IF EntryCode(slip, envs, mid) # "OK" THEN UNCHANGED vars
       ELSE ReceiveRejected(e, envs, seq, mid)
    /\ UNCHANGED capp

CArrives(e, p, S, n, seq, mid) ==
    \/ \E room \in RoomToReceive : ReceiveReturns(e, Arrival(p, S, n), seq, mid, room)
    \/ \E slip \in Slips : ReceiveRefused(slip, e, Arrival(p, S, n), seq, mid)

------------------------------------------------------------------------------
CInit ==
    /\ Init
    /\ count = [e \in Ends |-> 0]
    /\ panics = [e \in Ends |-> 0]
    /\ posted = {}
    /\ handed = [e \in Ends |-> << >>]
    /\ wiped = [e \in Ends |-> {}]

CNext ==
    \/ \E e \in Senders, payload \in Payloads, mid \in MessageIds :
          \/ \E room \in RoomToSend : SendReturns(e, payload, mid, room)
          \/ SendPanics(e, payload, mid)
    \/ \E null \in BOOLEAN, payload \in Payloads, mid \in MessageIds :
          SendRefused(null, payload, mid)
    \/ \E e \in Receivers, m \in posted, seq \in 0..MaxSeq, mid \in MessageIds :
          \E n \in 0..NPaths[m.packet.from] : \E S \in SUBSET (1..n) :
             CArrives(e, m.packet, S, n, seq, mid)
    \/ Tick /\ UNCHANGED capp

CSpec == CInit /\ [][CNext]_cvars

(* A packet reaches the other end intact, under the label it was posted with. *)
CGenuine(e, label) ==
    \E m \in posted, room \in RoomToReceive :
        /\ m.packet.from # e /\ m.label = label
        /\ ReceiveReturns(e, Intact(m.packet), m.label, m.packet.mid, room)

(* The transport, or whoever resends through it, keeps trying: a packet that
   receive would accept from now on does arrive intact some time. *)
CFairSpec ==
    /\ CSpec
    /\ \A e \in Receivers, label \in 0..MaxSeq : WF_cvars(CGenuine(e, label))

------------------------------------------------------------------------------
(* Properties. *)

HandedSeqs(e) == {handed[e][i].seq : i \in 1..Len(handed[e])}

(* The return codes of decoypath_channel_send tell the caller the number of its
   next packet: counting OK and BUFFER_TOO_SMALL (ffi.rs:304-322), it is never
   ahead of the channel, and behind by no more than the panics it was told of. *)
CountTracksSends ==
    \A e \in Ends : NextSendSeq(e) - count[e] \in 0..panics[e]

(* A message that decoypath_channel_receive has opened is gone, whether it was
   handed over or wiped for a buffer too small (ffi.rs:390-402): the same packet,
   given again with any buffer and however much later, is refused, as a replay
   or, when the replay store has forgotten it, as too old (which of the two is
   ReplaysCalledReplays' question). *)
OpenedNeverReturns ==
    \A e \in Receivers : \A m \in posted :
        (m.packet.from # e /\ m.packet.seq \in HandedSeqs(e) \cup wiped[e])
        => ReceiveCode("none", e, Intact(m.packet), m.packet.seq, m.packet.mid)
             \in {"REPLAYED_SEQUENCE", "SKIPPED_KEY_EXPIRED"}

PostedMessages == {SentMessage(m.packet) : m \in posted}

CContract == INSTANCE AtMostOnceDelivery
               WITH SeqNumbers <- 0..MaxSeq, sent <- PostedMessages, got <- handed

(* What two C applications see of each other is at-most-once delivery of what
   was posted, whole: whichever envelopes and plaintexts were lost to small
   buffers, panics and wrong labels, nothing comes twice, cut short or from a
   packet that never left. *)
CImplementsContract == CContract!Spec

(* Numbers lost to small buffers and panics cost those packets only: what is
   posted under its own number gets into the receiver's hands in the end, or into
   a buffer too small for it, whatever else arrives before it and in whatever
   order, as long as no key is evicted and no gap is wider than the window. *)
PostedArrives ==
    \A e \in Receivers, seq \in 0..MaxSeq :
        (\E m \in posted : m.packet.from # e /\ m.packet.seq = seq /\ m.label = seq)
        ~> (seq \in HandedSeqs(e) \cup wiped[e])
==============================================================================
