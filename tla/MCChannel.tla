------------------------------ MODULE MCChannel ------------------------------
(* Bounded instances of two C applications, at A and at B. *)
EXTENDS CChannel

CONSTANTS A, B

BothEnds == {A, B}
OneSender == {A}
OneReceiver == {B}

TwoPaths == [e \in BothEnds |-> 2]

(* As in MCSecureChannel: the slot moves with the key and with the id. *)
MCHmac(key, mid) == (key * mid) \div 2
==============================================================================
