--------------------------- MODULE MCSecureChannel ---------------------------
(* Bounded instances of secure channels: a pair, A and B, and with C a second
   receiver on the same root key, which was set up with fewer paths. *)
EXTENDS SecureChannel

CONSTANTS A, B, C

BothEnds == {A, B}
OneSender == {A}
OneReceiver == {B}
TwoPaths == [e \in BothEnds |-> 2]
OnePath == [e \in BothEnds |-> 1]

ThreeEnds == {A, B, C}
TwoReceivers == {B, C}
FewerAtC == [e \in ThreeEnds |-> IF e = C THEN 1 ELSE 2]

(* Message ids are small numbers.  The slot moves with the key and with the id,
   and two ids share it under some keys (0 and 3) and not under others. *)
MCHmac(key, mid) == (key * mid) \div 2
==============================================================================
