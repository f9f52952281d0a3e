------------------------------ MODULE CHandles -------------------------------
(***************************************************************************)
(* The handshake calls of the C interface (src/ffi.rs) and the handles     *)
(* they give out: boxes on the Rust heap, of which the C caller has        *)
(* nothing but the raw pointer.                                            *)
(*                                                                         *)
(* The caller keeps to the contract: it passes only handles it still       *)
(* holds, frees each at most once, and considers a state gone once it was  *)
(* given to decoypath_initiator_finalize, whatever came back (ffi.rs:      *)
(* 219-222).  For the rest it does as it likes: null pointers in any       *)
(* argument, buffers too small, payloads of the wrong length, any n_paths, *)
(* keys that are no keys, in any number of sessions at once.               *)
(*                                                                         *)
(* A definition named Mut... is the one below it with a slip that its code *)
(* could have had; the properties are checked to notice each of them.      *)
(***************************************************************************)
EXTENDS Handshake

CONSTANTS
    MAX_N_PATHS,
    PathCounts         \* values of n_paths that callers pass

ASSUME PathAssumption == MAX_N_PATHS \in Nat /\ PathCounts \subseteq Nat

VARIABLES
    heap,              \* the boxes that exist
    held,              \* the handles that the contract lets the caller use
    nulled             \* history: states passed to finalize beside a null pointer

handles == <<heap, held, nulled>>
cvars == <<vars, handles>>

(* DecoypathInitiatorState and DecoypathChannel, by the session they are of. *)
State(n) == <<"state", n>>
Channel(n) == <<"channel", n>>

BadPaths(c) == c.n_paths = 0 \/ c.n_paths > MAX_N_PATHS

(* What else a call is given: whether a required pointer is null, whether the
   payload has its length and the output buffer room, and n_paths.  At most one
   of them is wrong in a call: the codes of two slips differ, the effects do not. *)
Args ==
    {c \in [null : BOOLEAN, len : BOOLEAN, room : BOOLEAN, n_paths : PathCounts] :
       Cardinality({i \in 1..4 : <<c.null, ~c.len, ~c.room, BadPaths(c)>>[i]}) <= 1}

(* Box::from_raw of what is freed, Box::into_raw of what is made; the caller
   loses the one and gets the other. *)
Owned(freed, made) ==
    /\ heap' = (heap \ freed) \cup made
    /\ held' = (held \ freed) \cup made
    /\ UNCHANGED nulled

------------------------------------------------------------------------------
(* decoypath_initiator_initiate.  The length of the buffer comes before the key,
   and both before the random generator, whose failure is a panic. *)
InitiateCode(c, expected) ==
    IF c.null THEN "NULL_POINTER"
    ELSE IF ~c.room THEN "BUFFER_TOO_SMALL"
    ELSE IF expected = Garbled THEN "INVALID_PAYLOAD"
    ELSE "OK"

decoypath_initiator_initiate(c, self, expected) ==
    /\ InitiateCode(c, expected) = "OK"
    /\ initiate(self, expected)
    /\ Owned({}, {State(Fresh)})

(* decoypath_responder_respond. *)
RespondCode(c, self, expected, p) ==
    IF c.null THEN "NULL_POINTER"
    ELSE IF ~c.len THEN "INVALID_PAYLOAD"
    ELSE IF ~c.room THEN "BUFFER_TOO_SMALL"
    ELSE IF BadPaths(c) \/ expected = Garbled \/ ~InitFromBytes(p)
         THEN "INVALID_PAYLOAD"
    ELSE IF RespondVerdict(self, expected, p) # "Ok" THEN "AUTHENTICATION_FAILED"
    ELSE "OK"

decoypath_responder_respond(c, self, expected, p) ==
    /\ RespondCode(c, self, expected, p) = "OK"
    /\ respond(self, expected, p)
    /\ Owned({}, {Channel(Fresh)})

(* An error of either makes no box and moves nothing; nor does a panic. *)
NothingMade(code) == code # "OK" /\ UNCHANGED cvars

------------------------------------------------------------------------------
(* decoypath_initiator_finalize, with a state that is not null. *)

FinalizeCode(c, n, p) ==
    IF c.null THEN "NULL_POINTER"
    ELSE IF ~c.len \/ BadPaths(c) \/ ~RespFromBytes(p) THEN "INVALID_PAYLOAD"
    ELSE IF FinalizeVerdict(n, p) # "Ok" THEN "AUTHENTICATION_FAILED"
    ELSE "OK"

(* The early return before Box::from_raw: the box stays, and the caller has
   given it away. *)
FinalizeNull(c, n, p) ==
    /\ FinalizeCode(c, n, p) = "NULL_POINTER"
    /\ held' = held \ {State(n)}
    /\ nulled' = nulled \cup {State(n)}
    /\ UNCHANGED <<vars, heap>>

(* The box is dropped with its InitiatorState: nobody can finish the session. *)
Abandon(n) ==
    /\ initiator' = [initiator EXCEPT ![n].status = "failed"]
    /\ UNCHANGED <<responder, inits, resps>>

MutFinalizeFails(c, n, p) ==
    /\ FinalizeCode(c, n, p) \in {"INVALID_PAYLOAD", "AUTHENTICATION_FAILED"}
    /\ IF c.len THEN Abandon(n) ELSE UNCHANGED vars
    /\ heap' = IF c.len THEN heap \ {State(n)} ELSE heap
    /\ held' = held \ {State(n)}
    /\ UNCHANGED nulled

FinalizeFails(c, n, p) ==
    /\ FinalizeCode(c, n, p) \in {"INVALID_PAYLOAD", "AUTHENTICATION_FAILED"}
    /\ Abandon(n)
    /\ Owned({State(n)}, {})

MutFinalizeDangling(c, n, p) ==
    /\ FinalizeCode(c, n, p) = "OK"
    /\ finalize(n, p)
    /\ heap' = heap \ {State(n)}
    /\ held' = (held \ {State(n)}) \cup {Channel(n)}
    /\ UNCHANGED nulled

MutFinalizeBorrows(c, n, p) ==
    /\ FinalizeCode(c, n, p) = "OK"
    /\ initiator' = [initiator EXCEPT ![n].status = "done",
            ![n].root = derive_root_key(diffie_hellman(n, p.eph), initiator[n].self,
                                        initiator[n].expected, n, p.eph, n, p.nonce)]
    /\ UNCHANGED <<responder, inits, resps>>
    /\ Owned({}, {Channel(n)})

FinalizeOk(c, n, p) ==
    /\ FinalizeCode(c, n, p) = "OK"
    /\ finalize(n, p)
    /\ Owned({State(n)}, {Channel(n)})

decoypath_initiator_finalize(c, n, p) ==
    /\ State(n) \in held
    /\ FinalizeNull(c, n, p) \/ FinalizeFails(c, n, p) \/ FinalizeOk(c, n, p)

(* Both frees ignore null. *)
decoypath_initiator_state_free(n) ==
    /\ State(n) \in held
    /\ Abandon(n)
    /\ Owned({State(n)}, {})

decoypath_channel_free(n) ==
    /\ Channel(n) \in held
    /\ Owned({Channel(n)}, {})
    /\ UNCHANGED vars

------------------------------------------------------------------------------
(* The network loses, repeats and misdelivers payloads and garbles fields. *)
Incoming ==
    LET sent == inits \cup resps IN
    sent \cup {[p EXCEPT !.id = Garbled] : p \in sent}
         \cup {[p EXCEPT !.sig = Garbled] : p \in sent}

CInit == Init /\ heap = {} /\ held = {} /\ nulled = {}

CNext ==
    \/ \E c \in Args, self \in Identities, expected \in Identities \cup {Garbled} :
          \/ decoypath_initiator_initiate(c, self, expected)
          \/ NothingMade(InitiateCode(c, expected))
    \/ \E c \in Args, self \in Identities,
          expected \in Identities \cup {Garbled, None}, p \in Incoming :
          \/ decoypath_responder_respond(c, self, expected, p)
          \/ NothingMade(RespondCode(c, self, expected, p))
    \/ \E c \in Args, n \in DOMAIN initiator, p \in Incoming :
          decoypath_initiator_finalize(c, n, p)
    \/ \E n \in DOMAIN initiator : decoypath_initiator_state_free(n)
    \/ \E n \in 1..MaxFresh : decoypath_channel_free(n)

CSpec == CInit /\ [][CNext]_cvars

------------------------------------------------------------------------------
(* A caller that keeps to the contract never reaches a box that is gone: no use
   after free and no double free, across all the early returns of finalize
   (ffi.rs:231-263) and both frees. *)
HeldIsLive == held \subseteq heap

(* The only box that can be left behind, owned by nobody, is a state that was
   passed to finalize beside a null pointer (ffi.rs:232-234). *)
LeaksOnlyOnNull == heap \ held \subseteq nulled

(* A state gives at most one root key and a channel stands for one completed
   session: what the C calls do to the sessions is what the handshake allows,
   FinalizeRejected standing for every way to lose a state. *)
ImplementsHandshake == Spec

(* finalize "ALWAYS consumes and frees state handle on success or failure"
   (decoypath.h:63), so nothing outlives what the caller holds. *)
NothingLeaks == heap \subseteq held
==============================================================================
