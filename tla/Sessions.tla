------------------------------ MODULE Sessions -------------------------------
(***************************************************************************)
(* From handshake to conversation: every session that has derived a        *)
(* RootKey makes a SecureChannel from it and exchanges messages.           *)
(*                                                                         *)
(* The sessions are those of Handshake.  The channels are taken at their   *)
(* contract, AtMostOnceDelivery, which the endpoints of one root key are   *)
(* shown to implement (SecureChannel!ImplementsContract); channels of      *)
(* different root keys open nothing of each other's, since every key of a  *)
(* ratchet comes from its root.  How many sessions share a root key, and   *)
(* which, is up to the handshake.                                          *)
(*                                                                         *)
(* A session's messages carry its number, so that what arrives tells where *)
(* it comes from.                                                          *)
(***************************************************************************)
EXTENDS Handshake

CONSTANTS
    MessageIds,        \* message ids in use
    SeqNumbers         \* bound: sequence numbers of a session's messages

VARIABLES sent, got

svars == <<vars, sent, got>>

Channels == INSTANCE AtMostOnceDelivery
              WITH Ends <- 1..MaxFresh, Payloads <- 1..MaxFresh

(* The sessions with a SecureChannel: respond and finalize have returned Ok. *)
Open == DOMAIN responder \cup {n \in DOMAIN initiator : initiator[n].status = "done"}

Initiates(s) == s \in DOMAIN initiator
RootKeyOf(s) == IF Initiates(s) THEN initiator[s].root ELSE responder[s].root
Self(s) == IF Initiates(s) THEN initiator[s].self ELSE responder[s].self
Peer(s) == IF Initiates(s) THEN initiator[s].expected ELSE responder[s].peer

(* SecureChannel::new on the RootKey, then send ... *)
SessionSends(s, mid) ==
    /\ s \in Open
    /\ Channels!Send(s, mid, s)
    /\ UNCHANGED vars

(* ... and receive, of a packet whose key is of the same root. *)
SessionGets(s, m) ==
    /\ s \in Open
    /\ RootKeyOf(m.from) = RootKeyOf(s)
    /\ Channels!Deliver(s, m)
    /\ UNCHANGED vars

(* The steps of the handshake that change anything: an initiation refused is a
   step of nobody's. *)
HandshakeStep ==
    /\ \/ \E self \in Identities, expected \in Identities : initiate(self, expected)
       \/ \E self \in Identities, expected \in Identities \cup {None},
             p \in Carried(inits \cup resps) : respond(self, expected, p)
       \/ \E n \in DOMAIN initiator, p \in Carried(inits \cup resps) : Finish(n, p)
    /\ UNCHANGED <<sent, got>>

SInit == Init /\ Channels!Init

SNext ==
    \/ HandshakeStep
    \/ \E s \in Open, mid \in MessageIds : SessionSends(s, mid)
    \/ \E s \in Open, m \in sent : SessionGets(s, m)

SSpec == SInit /\ [][SNext]_svars

------------------------------------------------------------------------------
(* A conversation has two parties, and they are the ones each believes in: all
   that a session gets comes from one other session, the other half of its own
   handshake, of the identity it takes its peer for and that takes it for its
   peer; and nobody else gets any of it.  However initiations and responses were
   repeated, crossed and recombined (handshake.rs:53-155, crypto.rs:144-168). *)
ConversationsArePairs ==
    \A s \in Open : \A i \in 1..Len(got[s]) :
        LET t == got[s][i].payload IN
        /\ Initiates(s) # Initiates(t)
        /\ Self(s) = Peer(t) /\ Peer(s) = Self(t)
        /\ \A u \in Open : \A j \in 1..Len(got[u]) :
              (got[u][j].payload = t) <=> (u = s)
==============================================================================
