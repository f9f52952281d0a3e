--------------------------- MODULE EnvelopeLayout ----------------------------
(***************************************************************************)
(* The bytes of an envelope (src/envelope.rs): how seal lays them out and  *)
(* how open finds its way back, for an envelope damaged in transit and for *)
(* one that a peer with the key has filled differently.                    *)
(*                                                                         *)
(* Bytes whose value does not matter are numbers that no byte has: byte i  *)
(* of a payload, a nonce and a tag is i more than PayloadMark, NonceMark   *)
(* and TagMark, random padding is Padding, a byte changed on the way is    *)
(* Altered.  The stream cipher shifts each byte where it stands, and the   *)
(* AEAD takes nothing but what it has produced.                            *)
(*                                                                         *)
(* A definition named Mut... is the one below it with a slip that its code *)
(* could have had; the properties are checked to notice each of them.      *)
(***************************************************************************)
EXTENDS Integers, Sequences

CONSTANTS
    NONCE_LEN, CIPHERTEXT_LEN, TAG_LEN, ENVELOPE_TOTAL_LEN,
    PLAINTEXT_LEN, MAX_PAYLOAD_SIZE,
    Lengths,           \* lengths of the payloads given to seal
    Versions,          \* version bytes that a peer may write
    HighBytes,         \* bytes of the length field that a peer may write, the
    LowBytes           \* first and the second

(* Lengths are usize values, and the length of a payload fits two bytes. *)
ASSUME LayoutAssumption ==
    /\ {NONCE_LEN, TAG_LEN, PLAINTEXT_LEN, MAX_PAYLOAD_SIZE} \subseteq Nat
    /\ Lengths \subseteq Nat /\ MAX_PAYLOAD_SIZE < 256 * 256
    /\ Versions \cup HighBytes \cup LowBytes \subseteq 0..255
    /\ NONCE_LEN + CIPHERTEXT_LEN + TAG_LEN = ENVELOPE_TOTAL_LEN
    /\ CIPHERTEXT_LEN = PLAINTEXT_LEN /\ MAX_PAYLOAD_SIZE + 4 <= PLAINTEXT_LEN

VARIABLES
    length,            \* of the payload given to seal
    produced,          \* what the AEAD has encrypted: nonce, ciphertext, tag
    envelope,          \* as it stands
    altered,           \* whether the transport has changed a byte of it
    opened             \* what open made of it

vars == <<length, produced, envelope, altered, opened>>

Padding == -1
Altered == -2
PayloadMark == 1000
NonceMark == 3000
TagMark == 4000
KeyStream == 10000

None == [code |-> "None", payload |-> << >>]
Marks(mark, n) == [i \in 1..n |-> mark + i]

------------------------------------------------------------------------------
MutHeader(version, n) == <<version, 0, n % 256, n \div 256>>

(* Version, flags, and the length as two bytes, big end first. *)
Header(version, n) == <<version, 0, n \div 256, n % 256>>

(* The buffer seal fills: header, payload, random padding. *)
Plaintext(n) ==
    Header(1, n) \o Marks(PayloadMark, n) \o [i \in 1..(PLAINTEXT_LEN - (4 + n)) |-> Padding]

(* encrypt_in_place_detached and decrypt_in_place_detached. *)
Encrypt(plaintext) ==
    [nonce |-> Marks(NonceMark, NONCE_LEN),
     ciphertext |-> [i \in 1..Len(plaintext) |-> plaintext[i] + KeyStream],
     tag |-> Marks(TagMark, TAG_LEN)]

Authentic(nonce, ciphertext, tag) ==
    produced = [nonce |-> nonce, ciphertext |-> ciphertext, tag |-> tag]

Decrypt(ciphertext) == [i \in 1..Len(ciphertext) |-> ciphertext[i] - KeyStream]

(* The three parts of an envelope, put together and taken apart. *)
Assemble(c) == c.nonce \o c.ciphertext \o c.tag

MutNonceBytes(env) == Marks(NonceMark, NONCE_LEN)

NonceBytes(env) == SubSeq(env, 1, NONCE_LEN)
CiphertextBytes(env) == SubSeq(env, NONCE_LEN + 1, NONCE_LEN + CIPHERTEXT_LEN)
TagBytes(env) == SubSeq(env, NONCE_LEN + CIPHERTEXT_LEN + 1, ENVELOPE_TOTAL_LEN)

MutTooLong(n) == n > PLAINTEXT_LEN
TooLong(n) == n > MAX_PAYLOAD_SIZE

(* open; a slice that ends past the buffer would panic. *)
Open(env) ==
    LET buffer == Decrypt(CiphertextBytes(env))
        payload_len == buffer[3] * 256 + buffer[4]
        Fails(code) == [code |-> code, payload |-> << >>]
    IN IF ~Authentic(NonceBytes(env), CiphertextBytes(env), TagBytes(env))
       THEN Fails("DecryptionFailure")
       ELSE IF buffer[1] # 1 \/ TooLong(payload_len) THEN Fails("InvalidFormat")
       ELSE IF 4 + payload_len > Len(buffer) THEN Fails("Panic")
       ELSE [code |-> "Ok", payload |-> SubSeq(buffer, 5, 4 + payload_len)]

------------------------------------------------------------------------------
Encrypted(plaintext) ==
    /\ produced' = Encrypt(plaintext)
    /\ envelope' = Assemble(Encrypt(plaintext))
    /\ UNCHANGED <<altered, opened>>

seal(n) ==
    /\ envelope = << >>
    /\ n <= MAX_PAYLOAD_SIZE
    /\ Encrypted(Plaintext(n))
    /\ length' = n

(* PayloadTooLarge. *)
SealRefused(n) == envelope = << >> /\ n > MAX_PAYLOAD_SIZE /\ UNCHANGED vars

(* A peer that has the key and other ideas of a header. *)
ForeignSeal(version, high, low) ==
    /\ envelope = << >>
    /\ Encrypted(Header(version, 256 * high + low)
                 \o [i \in 1..(PLAINTEXT_LEN - 4) |-> Padding])
    /\ length' = -1

(* The transport changes a byte. *)
Damage(i) ==
    /\ ~altered /\ opened = None
    /\ envelope' = [envelope EXCEPT ![i] = Altered]
    /\ altered' = TRUE
    /\ UNCHANGED <<length, produced, opened>>

open ==
    /\ envelope # << >> /\ opened = None
    /\ opened' = Open(envelope)
    /\ UNCHANGED <<length, produced, envelope, altered>>

Init ==
    /\ length = -1 /\ envelope = << >> /\ altered = FALSE /\ opened = None
    /\ produced = Encrypt(<< >>)

Next ==
    \/ \E n \in Lengths : seal(n) \/ SealRefused(n)
    \/ \E version \in Versions, high \in HighBytes, low \in LowBytes :
          ForeignSeal(version, high, low)
    \/ \E i \in 1..Len(envelope) : Damage(i)
    \/ open

Spec == Init /\ [][Next]_vars

------------------------------------------------------------------------------
(* open (envelope.rs:82-119) gives back exactly the bytes that were given to seal
   (envelope.rs:36-79), for every length up to the limit: none of the padding and
   none missing, on either side of the byte boundary of the length field. *)
RoundTrip ==
    (length >= 0 /\ ~altered /\ opened # None)
        => opened = [code |-> "Ok", payload |-> Marks(PayloadMark, length)]

(* All 1024 bytes are authenticated: an envelope with any one of them changed is
   refused (envelope.rs:87-101). *)
EveryByteCounts == (altered /\ opened # None) => opened.code = "DecryptionFailure"

(* No header makes open reach past its buffer, even one that authenticates
   (envelope.rs:102-113), and it takes no payload that seal would not. *)
OpenStaysInside == Len(opened.payload) <= MAX_PAYLOAD_SIZE /\ opened.code # "Panic"
==============================================================================
