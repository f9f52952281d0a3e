------------------------------ MODULE Handshake ------------------------------
(***************************************************************************)
(* The two-pass handshake (src/handshake.rs, with the signatures and the   *)
(* key derivation of src/crypto.rs and the payloads of src/types.rs).      *)
(*                                                                         *)
(* Any identity may initiate and respond, in any number of sessions at the *)
(* same time.  The network loses, repeats, reorders and misdelivers the    *)
(* payloads, garbles their fields, and puts payloads together from fields  *)
(* of different ones.                                                      *)
(*                                                                         *)
(* Signatures are unforgeable and verify for one signer and one message    *)
(* only.  Ephemeral keys and nonces are numbers that generate never gives  *)
(* out twice; the Diffie-Hellman secret of two ephemeral keys is the set   *)
(* of the two.  Hkdf is injective: a RootKey is the record of what it was  *)
(* derived from.                                                           *)
(*                                                                         *)
(* A definition named Mut... is the one below it with a slip that its code *)
(* could have had; the properties are checked to notice each of them.      *)
(***************************************************************************)
EXTENDS Integers, FiniteSets, Sequences

CONSTANTS
    Identities,        \* Ed25519 identities
    Garbled,           \* a field damaged in transit; as an identity, no point
    None,              \* Option::None
    MaxFresh           \* bound: how many ephemeral key pairs are generated

(* Whatever sign and derive_root_key may return. *)
Signature ==
    [by : Identities, msg : Seq({"init-sig", "resp-sig"} \cup Identities \cup Int \cup {Garbled})]
RootKey ==
    [dh : SUBSET Int, ids : Identities \X Identities, ephs : Int \X Int, nonces : Int \X Int]

(* Garbled bytes are nobody's signature, and None is not Some. *)
ASSUME IdentityAssumption ==
    /\ Garbled \notin Identities \cup Int \cup Signature
    /\ None \notin Identities \cup RootKey \cup {Garbled}
    /\ MaxFresh \in Nat

VARIABLES
    initiator,         \* session number -> InitiatorState and what came of it
    responder,         \* session number -> what respond returned Ok for
    inits,             \* HandshakeInitPayloads sent
    resps              \* HandshakeResponsePayloads sent

vars == <<initiator, responder, inits, resps>>

MutFresh == 1 + Cardinality(DOMAIN initiator)

(* EphemeralKeyPair::generate and generate_nonce: the number of the next
   session, and of its ephemeral key and its nonce. *)
Fresh == 1 + Cardinality(DOMAIN initiator) + Cardinality(DOMAIN responder)

------------------------------------------------------------------------------
(* crypto.rs *)

sign(identity, msg) == [by |-> identity, msg |-> msg]
verify(identity, msg, signature) == signature = sign(identity, msg)

MutInitMessage(initiator_id, responder_id, eph, nonce) ==
    <<"init-sig", initiator_id, eph, nonce>>

(* What sign_initiation signs and verify_initiation verifies. *)
InitMessage(initiator_id, responder_id, eph, nonce) ==
    <<"init-sig", initiator_id, responder_id, eph, nonce>>

MutRespMessage(responder_id, initiator_id, resp_eph, init_eph, resp_nonce, init_nonce) ==
    <<"resp-sig", responder_id, initiator_id, resp_eph, resp_nonce>>

(* What sign_response signs and verify_response verifies. *)
RespMessage(responder_id, initiator_id, resp_eph, init_eph, resp_nonce, init_nonce) ==
    <<"resp-sig", responder_id, initiator_id, resp_eph, init_eph, resp_nonce, init_nonce>>

diffie_hellman(own_eph, peer_eph) == {own_eph, peer_eph}

MutDeriveOwnOnly(dh, initiator_id, responder_id, init_eph, resp_eph, init_nonce, resp_nonce) ==
    [dh |-> {init_eph}, ids |-> <<initiator_id, responder_id>>,
     ephs |-> <<init_eph, init_eph>>, nonces |-> <<init_nonce, init_nonce>>]

derive_root_key(dh, initiator_id, responder_id, init_eph, resp_eph, init_nonce, resp_nonce) ==
    [dh |-> dh, ids |-> <<initiator_id, responder_id>>,
     ephs |-> <<init_eph, resp_eph>>, nonces |-> <<init_nonce, resp_nonce>>]

------------------------------------------------------------------------------
(* InitiatorState::initiate *)
initiate(self, expected) ==
    LET n == Fresh
        signature == sign(self, InitMessage(self, expected, n, n))
    IN /\ n <= MaxFresh
       /\ inits' = inits \cup {[id |-> self, eph |-> n, nonce |-> n, sig |-> signature]}
       /\ initiator' = [s \in DOMAIN initiator \cup {n} |->
            IF s = n THEN [self |-> self, expected |-> expected,
                           status |-> "waiting", root |-> None]
                     ELSE initiator[s]]
       /\ UNCHANGED <<responder, resps>>

(* HandshakeInitPayload and HandshakeResponsePayload: from_bytes inverts
   to_bytes, unless the length is wrong or the identity is no curve point. *)
InitFromBytes(p) == p.id # Garbled
RespFromBytes(p) == p.id # Garbled

(* from_bytes, then ResponderState::respond up to the first thing it makes. *)
RespondVerdict(self, expected, p) ==
    IF ~InitFromBytes(p) THEN "InvalidPayloadFormat"
    ELSE IF expected # None /\ p.id # expected THEN "PeerIdentityMismatch"
    ELSE IF ~verify(p.id, InitMessage(p.id, self, p.eph, p.nonce), p.sig)
         THEN "InvalidSignature"
    ELSE "Ok"

respond(self, expected, p) ==
    LET n == Fresh
        signature == sign(self, RespMessage(self, p.id, n, p.eph, n, p.nonce))
    IN /\ n <= MaxFresh
       /\ RespondVerdict(self, expected, p) = "Ok"
       /\ resps' = resps \cup {[id |-> self, eph |-> n, nonce |-> n, sig |-> signature]}
       /\ responder' = [s \in DOMAIN responder \cup {n} |->
            IF s = n
            THEN [self |-> self, peer |-> p.id,
                  root |-> derive_root_key(diffie_hellman(n, p.eph), p.id, self,
                                           p.eph, n, p.nonce, n)]
            ELSE responder[s]]
       /\ UNCHANGED <<initiator, inits>>

(* Every early return comes before anything is made or kept. *)
RespondRejected(self, expected, p) ==
    /\ RespondVerdict(self, expected, p) # "Ok"
    /\ UNCHANGED vars

MutFinalizeVerdict(n, p) ==
    IF ~RespFromBytes(p) THEN "InvalidPayloadFormat"
    ELSE IF p.id # initiator[n].expected THEN "PeerIdentityMismatch"
    ELSE IF ~verify(initiator[n].expected,
                    RespMessage(initiator[n].expected, initiator[n].self,
                                n, p.eph, n, p.nonce), p.sig)
         THEN "InvalidSignature"
    ELSE "Ok"

(* from_bytes, then InitiatorState::finalize. *)
FinalizeVerdict(n, p) ==
    IF ~RespFromBytes(p) THEN "InvalidPayloadFormat"
    ELSE IF p.id # initiator[n].expected THEN "PeerIdentityMismatch"
    ELSE IF ~verify(initiator[n].expected,
                    RespMessage(initiator[n].expected, initiator[n].self,
                                p.eph, n, p.nonce, n), p.sig)
         THEN "InvalidSignature"
    ELSE "Ok"

(* The state is moved into finalize: it is gone afterwards, whatever the
   result.  A payload that from_bytes refuses never gets that far. *)
finalize(n, p) ==
    /\ initiator[n].status = "waiting"
    /\ FinalizeVerdict(n, p) = "Ok"
    /\ initiator' = [initiator EXCEPT ![n].status = "done",
            ![n].root = derive_root_key(diffie_hellman(n, p.eph), initiator[n].self,
                                        initiator[n].expected, n, p.eph, n, p.nonce)]
    /\ UNCHANGED <<responder, inits, resps>>

FinalizeRejected(n, p) ==
    /\ initiator[n].status = "waiting"
    /\ FinalizeVerdict(n, p) # "Ok"
    /\ initiator' = IF FinalizeVerdict(n, p) = "InvalidPayloadFormat" THEN initiator
                    ELSE [initiator EXCEPT ![n].status = "failed"]
    /\ UNCHANGED <<responder, inits, resps>>

(* A call of finalize: either of the two. *)
Finish(n, p) == finalize(n, p) \/ FinalizeRejected(n, p)

------------------------------------------------------------------------------
(* The network: any payload made of fields that were sent, or garbled. *)
Carried(sent) ==
    [id : Identities \cup {Garbled},
     eph : {p.eph : p \in sent} \cup {Garbled},
     nonce : {p.nonce : p \in sent} \cup {Garbled},
     sig : {p.sig : p \in sent} \cup {Garbled}]

Init ==
    /\ initiator = [s \in {} |-> None]
    /\ responder = [s \in {} |-> None]
    /\ inits = {} /\ resps = {}

Next ==
    \/ \E self \in Identities, expected \in Identities : initiate(self, expected)
    \/ \E self \in Identities, expected \in Identities \cup {None},
          p \in Carried(inits \cup resps) :
          respond(self, expected, p) \/ RespondRejected(self, expected, p)
    \/ \E n \in DOMAIN initiator, p \in Carried(inits \cup resps) : Finish(n, p)

Spec == Init /\ [][Next]_vars

------------------------------------------------------------------------------
(* Every session has a number, ephemeral key and nonce of its own, given out in
   order, and knows the identities it is about. *)
TypeOK ==
    /\ DOMAIN initiator \cap DOMAIN responder = {}
    /\ DOMAIN initiator \cup DOMAIN responder = 1..(Fresh - 1)
    /\ \A n \in DOMAIN initiator :
          /\ initiator[n].self \in Identities /\ initiator[n].expected \in Identities
          /\ initiator[n].status \in {"waiting", "done", "failed"}
    /\ \A r \in DOMAIN responder :
          responder[r].self \in Identities /\ responder[r].peer \in Identities
    /\ \A p \in inits \cup resps : p.id \in Identities /\ p.eph \in 1..MaxFresh

(* When finalize (handshake.rs:53-86) returns a RootKey, the responder it
   expected has derived that very key, for this initiator, in one session. *)
InitiatorAgrees ==
    \A n \in DOMAIN initiator : initiator[n].status = "done" =>
        \E r \in DOMAIN responder :
            /\ responder[r].self = initiator[n].expected
            /\ responder[r].peer = initiator[n].self
            /\ responder[r].root = initiator[n].root

(* When respond (handshake.rs:95-155) returns a RootKey, the peer it names did
   initiate a session with this responder, and that session's ephemeral key and
   nonce went into the key. *)
ResponderAgrees ==
    \A r \in DOMAIN responder :
        \E n \in DOMAIN initiator :
            /\ initiator[n].self = responder[r].peer
            /\ initiator[n].expected = responder[r].self
            /\ responder[r].root.ephs[1] = n /\ responder[r].root.nonces[1] = n

(* No RootKey is derived twice on the same side, however often an initiation is
   delivered: a key is shared by one initiator and one responder session at most
   (derive_root_key, crypto.rs:144-168). *)
RootKeysNeverRepeat ==
    /\ \A m, n \in DOMAIN initiator :
          (initiator[m].status = "done" /\ initiator[m].root = initiator[n].root) => m = n
    /\ \A q, r \in DOMAIN responder : responder[q].root = responder[r].root => q = r

(* A response made for a session that is still waiting completes it: no other
   session and no duplicate response of the same peer makes finalize refuse it. *)
GenuineResponseCompletes ==
    \A n \in DOMAIN initiator, r \in DOMAIN responder :
        ( /\ initiator[n].status = "waiting"
          /\ responder[r].root.ephs[1] = n )
        => \E p \in resps : p.eph = r /\ FinalizeVerdict(n, p) = "Ok"
==============================================================================
