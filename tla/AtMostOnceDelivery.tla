------------------------- MODULE AtMostOnceDelivery --------------------------
(***************************************************************************)
(* What a SecureChannel promises its application, without keys, slots or   *)
(* envelopes: each end numbers what it sends in increasing order, and each *)
(* end gets, in any order, messages that another end sent, no sequence     *)
(* number twice.                                                           *)
(***************************************************************************)
EXTENDS Integers, Sequences

CONSTANTS Ends, MessageIds, Payloads, SeqNumbers

VARIABLES sent, got

vars == <<sent, got>>

Init == sent = {} /\ got = [e \in Ends |-> << >>]

(* A sequence number is used once, and after all the smaller ones in use. *)
Send(e, mid, payload) ==
    \E seq \in SeqNumbers :
        /\ \A m \in sent : m.from = e => m.seq < seq
        /\ sent' = sent \cup {[from |-> e, seq |-> seq, mid |-> mid,
                               payload |-> payload]}
        /\ UNCHANGED got

Deliver(e, m) ==
    /\ m.from # e
    /\ \A i \in 1..Len(got[e]) : got[e][i].seq # m.seq
    /\ got' = [got EXCEPT ![e] =
                 Append(@, [seq |-> m.seq, mid |-> m.mid, payload |-> m.payload])]
    /\ UNCHANGED sent

Next ==
    \/ \E e \in Ends, mid \in MessageIds, payload \in Payloads : Send(e, mid, payload)
    \/ \E e \in Ends : \E m \in sent : Deliver(e, m)

Spec == Init /\ [][Next]_vars
==============================================================================
