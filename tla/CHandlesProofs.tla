--------------------------- MODULE CHandlesProofs ---------------------------
(***************************************************************************)
(* Proofs about the handles of the C interface, for any number of          *)
(* sessions and identities and any arguments of the calls.                 *)
(***************************************************************************)
EXTENDS CHandles, HandshakeProofs

(* What the handle properties rest on; it is inductive as it stands. *)
HandlesInv == HeldIsLive /\ LeaksOnlyOnNull

(* Freeing what is held and making what is new keeps every held box live, and
   loses no box. *)
LEMMA OwnedKeeps ==
    ASSUME NEW freed, NEW made, HandlesInv, Owned(freed, made)
    PROVE  HandlesInv'
BY DEF HandlesInv, HeldIsLive, LeaksOnlyOnNull, Owned

(* Every call of the C interface keeps to it (ffi.rs:82-266, 415-434). *)
LEMMA HandlesStep == HandlesInv /\ [CNext]_cvars => HandlesInv'
<1> SUFFICES ASSUME HandlesInv, [CNext]_cvars PROVE HandlesInv'
  OBVIOUS
<1>1. CASE UNCHANGED handles
  BY <1>1 DEF HandlesInv, HeldIsLive, LeaksOnlyOnNull, handles
<1>2. ASSUME NEW c \in Args, NEW self \in Identities, NEW expected,
             decoypath_initiator_initiate(c, self, expected)
      PROVE  HandlesInv'
  BY <1>2, OwnedKeeps DEF decoypath_initiator_initiate
<1>3. ASSUME NEW c \in Args, NEW self \in Identities, NEW expected, NEW p,
             decoypath_responder_respond(c, self, expected, p)
      PROVE  HandlesInv'
  BY <1>3, OwnedKeeps DEF decoypath_responder_respond
<1>4. ASSUME NEW c \in Args, NEW n, NEW p, decoypath_initiator_finalize(c, n, p)
      PROVE  HandlesInv'
  <2>1. CASE FinalizeNull(c, n, p)
    BY <2>1 DEF FinalizeNull, HandlesInv, HeldIsLive, LeaksOnlyOnNull
  <2>2. CASE FinalizeFails(c, n, p)
    BY <2>2, OwnedKeeps DEF FinalizeFails
  <2>3. CASE FinalizeOk(c, n, p)
    BY <2>3, OwnedKeeps DEF FinalizeOk
  <2> QED
    BY <1>4, <2>1, <2>2, <2>3 DEF decoypath_initiator_finalize
<1>5. ASSUME NEW n, decoypath_initiator_state_free(n) PROVE HandlesInv'
  BY <1>5, OwnedKeeps DEF decoypath_initiator_state_free
<1>6. ASSUME NEW n, decoypath_channel_free(n) PROVE HandlesInv'
  BY <1>6, OwnedKeeps DEF decoypath_channel_free
<1>7. ASSUME NEW code, NothingMade(code) PROVE HandlesInv'
  BY <1>1, <1>7 DEF NothingMade, cvars, handles
<1> QED
  BY <1>1, <1>2, <1>3, <1>4, <1>5, <1>6, <1>7 DEF CNext, cvars, handles

(* It holds of the empty heap, and hence always. *)
LEMMA HandlesInvariant == CSpec => []HandlesInv
<1>1. CInit => HandlesInv
  BY DEF CInit, HandlesInv, HeldIsLive, LeaksOnlyOnNull
<1> QED
  BY <1>1, HandlesStep, PTL DEF CSpec

(* A C caller that keeps to the contract never uses or frees a box that is gone. *)
THEOREM NoUseAfterFree == CSpec => []HeldIsLive
BY HandlesInvariant, PTL DEF HandlesInv

(* Only a state passed to finalize beside a null pointer is ever left behind. *)
THEOREM OnlyNullLeaks == CSpec => []LeaksOnlyOnNull
BY HandlesInvariant, PTL DEF HandlesInv

------------------------------------------------------------------------------
(* A state that the caller may still use is of a session that is waiting: no call
   leaves the caller with a state that has given its root key. *)
HeldIsWaiting ==
    \A n : State(n) \in held
             => n \in DOMAIN initiator /\ initiator[n].status = "waiting"

(* State handles tell their sessions apart, and are no channels. *)
LEMMA HandlesDiffer == \A m, n : (State(m) = State(n) => m = n) /\ State(m) # Channel(n)
  BY DEF State, Channel

(* What was sent is a payload the network can carry, and stays one with its
   identity or its signature garbled. *)
LEMMA IncomingIsCarried ==
    ASSUME HInv, NEW p \in Incoming
    PROVE  p \in Carried(inits \cup resps)
<1>1. PICK q \in inits \cup resps :
         p \in {q, [q EXCEPT !.id = Garbled], [q EXCEPT !.sig = Garbled]}
  BY DEF Incoming
<1>2. q.id \in Identities
  BY HandshakeTypeOK DEF TypeOK
<1>3. q = [id |-> q.id, eph |-> q.eph, nonce |-> q.nonce, sig |-> q.sig]
  BY DEF HInv, SentBySessions, InitPayload, RespPayload
<1>4. q \in Carried(inits \cup resps)
  BY <1>2, <1>3 DEF Carried
<1>5. [q EXCEPT !.id = Garbled] \in Carried(inits \cup resps)
  BY <1>4 DEF Carried
<1>6. [q EXCEPT !.sig = Garbled] \in Carried(inits \cup resps)
  BY <1>4 DEF Carried
<1> QED
  BY <1>1, <1>4, <1>5, <1>6

(* Dropping a state, for whatever reason (ffi.rs:236-258, 415-422), is what a
   response with a garbled signature does to its session. *)
LEMMA AbandonIsRejection ==
    ASSUME HInv, NEW n \in DOMAIN initiator, initiator[n].status = "waiting", Abandon(n)
    PROVE  Next
<1> DEFINE id == initiator[n].expected
           p == [id |-> id, eph |-> Garbled, nonce |-> Garbled, sig |-> Garbled]
           msg == RespMessage(id, initiator[n].self, Garbled, n, Garbled, n)
<1>1. id \in Identities /\ initiator[n].self \in Identities /\ n \in Int
  BY HandshakeTypeOK, FreshIsNew DEF TypeOK, HInv
<1>2. p \in Carried(inits \cup resps)
  BY <1>1 DEF Carried
<1>3. sign(id, msg) \in Signature
  <2>1. msg \in Seq({"init-sig", "resp-sig"} \cup Identities \cup Int \cup {Garbled})
    BY <1>1 DEF RespMessage
  <2> HIDE DEF msg
  <2> QED BY <1>1, <2>1 DEF sign, Signature
<1>4. ~verify(id, msg, Garbled)
  BY <1>3, IdentityAssumption DEF verify
<1>5. id # Garbled
  BY <1>1, IdentityAssumption
<1>6. FinalizeVerdict(n, p) = "InvalidSignature"
  BY <1>4, <1>5 DEF FinalizeVerdict, RespFromBytes
<1> HIDE DEF p
<1>7. FinalizeRejected(n, p)
  BY <1>6 DEF FinalizeRejected, Abandon
<1> QED
  BY <1>2, <1>7 DEF Next, Finish

(* Each handshake call through C (ffi.rs:82-266, 415-434) is a step of the
   handshake, or none. *)
LEMMA CHandlesStepIsHandshakeStep ==
    ASSUME HInv, HeldIsWaiting, [CNext]_cvars
    PROVE  [Next]_vars
<1>1. ASSUME NEW c \in Args, NEW self \in Identities,
             NEW expected \in Identities \cup {Garbled},
             decoypath_initiator_initiate(c, self, expected)
      PROVE  Next
  <2>1. expected \in Identities /\ initiate(self, expected)
    BY <1>1 DEF decoypath_initiator_initiate, InitiateCode
  <2> QED BY <2>1 DEF Next
<1>2. ASSUME NEW c \in Args, NEW self \in Identities,
             NEW expected \in Identities \cup {Garbled, None}, NEW p \in Incoming,
             decoypath_responder_respond(c, self, expected, p)
      PROVE  Next
  <2>1. expected \in Identities \cup {None} /\ respond(self, expected, p)
    BY <1>2 DEF decoypath_responder_respond, RespondCode
  <2>2. p \in Carried(inits \cup resps)
    BY IncomingIsCarried
  <2> QED BY <2>1, <2>2 DEF Next
<1>3. ASSUME NEW c \in Args, NEW n \in DOMAIN initiator, NEW p \in Incoming,
             decoypath_initiator_finalize(c, n, p)
      PROVE  [Next]_vars
  <2>1. initiator[n].status = "waiting"
    BY <1>3 DEF decoypath_initiator_finalize, HeldIsWaiting
  <2>2. CASE FinalizeNull(c, n, p)
    BY <2>2 DEF FinalizeNull
  <2>3. CASE FinalizeFails(c, n, p)
    BY <2>1, <2>3, AbandonIsRejection DEF FinalizeFails
  <2>4. CASE FinalizeOk(c, n, p)
    <3>1. finalize(n, p)
      BY <2>4 DEF FinalizeOk
    <3>2. p \in Carried(inits \cup resps)
      BY IncomingIsCarried
    <3> QED BY <3>1, <3>2 DEF Next, Finish
  <2> QED
    BY <1>3, <2>2, <2>3, <2>4 DEF decoypath_initiator_finalize
<1>4. ASSUME NEW n \in DOMAIN initiator, decoypath_initiator_state_free(n)
      PROVE  Next
  BY <1>4, AbandonIsRejection DEF decoypath_initiator_state_free, HeldIsWaiting
<1>5. ASSUME NEW n, decoypath_channel_free(n) PROVE UNCHANGED vars
  BY <1>5 DEF decoypath_channel_free
<1>6. ASSUME NEW code, NothingMade(code) PROVE UNCHANGED vars
  BY <1>6 DEF NothingMade, cvars
<1>7. CASE UNCHANGED cvars
  BY <1>7 DEF cvars
<1> QED
  BY <1>1, <1>2, <1>3, <1>4, <1>5, <1>6, <1>7 DEF CNext

(* A state handle goes as soon as its session stops waiting. *)
LEMMA CStepKeepsWaiting ==
    ASSUME HInv, HeldIsWaiting, [CNext]_cvars
    PROVE  HeldIsWaiting'
<1>1. ASSUME NEW c, NEW self, NEW expected, decoypath_initiator_initiate(c, self, expected)
      PROVE  HeldIsWaiting'
  <2>1. PICK m : m = Fresh
    OBVIOUS
  <2>2. m \notin DOMAIN initiator
    BY <2>1, FreshIsNew DEF HInv
  <2>3. initiator' = [s \in DOMAIN initiator \cup {m} |->
            IF s = m THEN [self |-> self, expected |-> expected,
                           status |-> "waiting", root |-> None]
                     ELSE initiator[s]]
    BY <1>1, <2>1 DEF decoypath_initiator_initiate, initiate
  <2>4. held' = held \cup {State(m)}
    BY <1>1, <2>1 DEF decoypath_initiator_initiate, Owned
  <2> QED
    BY <2>2, <2>3, <2>4, HandlesDiffer DEF HeldIsWaiting
<1>2. ASSUME NEW c, NEW self, NEW expected, NEW p,
             decoypath_responder_respond(c, self, expected, p)
      PROVE  HeldIsWaiting'
  <2>1. initiator' = initiator /\ \E m : held' = held \cup {Channel(m)}
    BY <1>2 DEF decoypath_responder_respond, respond, Owned
  <2> QED BY <2>1, HandlesDiffer DEF HeldIsWaiting
<1>3. ASSUME NEW n \in DOMAIN initiator,
             \A m : State(m) \in held' => State(m) \in held /\ m # n,
             DOMAIN initiator' = DOMAIN initiator,
             \A m \in DOMAIN initiator \ {n} : initiator'[m] = initiator[m]
      PROVE  HeldIsWaiting'
  BY <1>3, HandlesDiffer DEF HeldIsWaiting
<1>4. ASSUME NEW n \in DOMAIN initiator, Abandon(n), Owned({State(n)}, {})
      PROVE  HeldIsWaiting'
  <2>1. /\ held' = (held \ {State(n)}) \cup {}
        /\ DOMAIN initiator' = DOMAIN initiator
        /\ \A m \in DOMAIN initiator \ {n} : initiator'[m] = initiator[m]
    BY <1>4 DEF Abandon, Owned, HInv, Shaped
  <2>2. \A m : State(m) \in held' => State(m) \in held /\ m # n
    BY <2>1
  <2> QED BY <1>3, <2>1, <2>2
<1>5. ASSUME NEW c, NEW n \in DOMAIN initiator, NEW p, decoypath_initiator_finalize(c, n, p)
      PROVE  HeldIsWaiting'
  <2>1. CASE FinalizeNull(c, n, p)
    BY <2>1 DEF FinalizeNull, vars, HeldIsWaiting
  <2>2. CASE FinalizeFails(c, n, p)
    BY <1>4, <2>2 DEF FinalizeFails
  <2>3. CASE FinalizeOk(c, n, p)
    <3>1. /\ held' = (held \ {State(n)}) \cup {Channel(n)}
          /\ DOMAIN initiator' = DOMAIN initiator
          /\ \A m \in DOMAIN initiator \ {n} : initiator'[m] = initiator[m]
      BY <2>3 DEF FinalizeOk, finalize, Owned, HInv, Shaped
    <3>2. \A m : State(m) \in held' => State(m) \in held /\ m # n
      BY <3>1, HandlesDiffer
    <3> QED BY <1>3, <3>1, <3>2
  <2> QED
    BY <1>5, <2>1, <2>2, <2>3 DEF decoypath_initiator_finalize
<1>6. ASSUME NEW n \in DOMAIN initiator, decoypath_initiator_state_free(n)
      PROVE  HeldIsWaiting'
  BY <1>4, <1>6 DEF decoypath_initiator_state_free
<1>7. ASSUME NEW n, decoypath_channel_free(n) PROVE HeldIsWaiting'
  BY <1>7 DEF decoypath_channel_free, Owned, vars, HeldIsWaiting
<1>8. CASE UNCHANGED cvars
  BY <1>8 DEF cvars, vars, handles, HeldIsWaiting
<1>9. ASSUME NEW code, NothingMade(code) PROVE HeldIsWaiting'
  BY <1>8, <1>9 DEF NothingMade
<1> QED
  BY <1>1, <1>2, <1>5, <1>6, <1>7, <1>8, <1>9 DEF CNext

(* The sessions behind the handles are sessions of the handshake, whatever slips
   the C caller makes and whatever it frees when (ffi.rs:82-266, 415-434). *)
THEOREM CImplementsHandshake == CSpec => ImplementsHandshake
<1>1. CInit => Init /\ HInv /\ HeldIsWaiting
  BY InitHandshake DEF CInit, HeldIsWaiting
<1>2. HInv /\ HeldIsWaiting /\ [CNext]_cvars => [Next]_vars /\ HInv' /\ HeldIsWaiting'
  BY CHandlesStepIsHandshakeStep, CStepKeepsWaiting, NextKeepsHInv
<1> QED
  BY <1>1, <1>2, PTL DEF CSpec, ImplementsHandshake, Spec

(* So authentication and fresh root keys hold of C callers too. *)
THEOREM CHandshakeAuthenticates ==
    CSpec => [](InitiatorAgrees /\ ResponderAgrees /\ RootKeysNeverRepeat)
  BY CImplementsHandshake, HandshakeInvariant, Agreement, KeysDiffer, PTL
     DEF ImplementsHandshake
==============================================================================
