--------------------------- MODULE HandshakeProofs ---------------------------
(***************************************************************************)
(* Proofs about the handshake (src/handshake.rs), for any identities and   *)
(* any number of sessions.                                                 *)
(*                                                                         *)
(* The network can put any payload together, but every signature in it was *)
(* made by a session, and says which: its number is in the signed message, *)
(* as ephemeral key and as nonce.  Reading the session off the signature   *)
(* that verify accepted is the whole argument.                             *)
(***************************************************************************)
EXTENDS Handshake, FiniteSetTheorems, TLAPS

(* InitiatorState, and what respond keeps. *)
InitiatorSession ==
    [self : Identities, expected : Identities,
     status : {"waiting", "done", "failed"}, root : RootKey \cup {None}]
ResponderSession == [self : Identities, peer : Identities, root : RootKey]

(* The payload that initiator session n sent, and that responder session r did. *)
InitPayload(n) ==
    [id |-> initiator[n].self, eph |-> n, nonce |-> n,
     sig |-> sign(initiator[n].self,
                  InitMessage(initiator[n].self, initiator[n].expected, n, n))]
RespPayload(r) ==
    [id |-> responder[r].self, eph |-> r, nonce |-> r,
     sig |-> sign(responder[r].self,
                  RespMessage(responder[r].self, responder[r].peer,
                              r, responder[r].root.ephs[1],
                              r, responder[r].root.nonces[1]))]

(* The key of initiator session n and responder session r. *)
SharedKey(n, r) ==
    derive_root_key({n, r}, initiator[n].self, initiator[n].expected, n, r, n, r)

(* Sessions r and n were meant for each other. *)
Halves(n, r) ==
    /\ responder[r].self = initiator[n].expected
    /\ responder[r].peer = initiator[n].self
    /\ responder[r].root = SharedKey(n, r)

------------------------------------------------------------------------------
(* The inductive invariant, in four parts.  Sessions are numbered in order. *)
Numbered ==
    /\ IsFiniteSet(DOMAIN initiator) /\ IsFiniteSet(DOMAIN responder)
    /\ DOMAIN initiator \cap DOMAIN responder = {}
    /\ DOMAIN initiator \cup DOMAIN responder = 1..(Fresh - 1)
    /\ Fresh - 1 <= MaxFresh

Shaped ==
    /\ initiator \in [DOMAIN initiator -> InitiatorSession]
    /\ responder \in [DOMAIN responder -> ResponderSession]

(* What is on the network was sent by a session, and a response stays there. *)
SentBySessions ==
    /\ \A p \in inits : \E n \in DOMAIN initiator : p = InitPayload(n)
    /\ \A p \in resps : \E r \in DOMAIN responder : p = RespPayload(r)
    /\ \A r \in DOMAIN responder : RespPayload(r) \in resps

(* Every key is the key of two halves. *)
Paired ==
    /\ \A r \in DOMAIN responder : \E n \in DOMAIN initiator : Halves(n, r)
    /\ \A n \in DOMAIN initiator :
          IF initiator[n].status = "done"
          THEN \E r \in DOMAIN responder : Halves(n, r) /\ initiator[n].root = SharedKey(n, r)
          ELSE initiator[n].root = None

HInv == Numbered /\ Shaped /\ SentBySessions /\ Paired

(* The next number has not been given out. *)
LEMMA FreshIsNew ==
    ASSUME Numbered
    PROVE  /\ Fresh \in Nat \ {0}
           /\ Fresh \notin DOMAIN initiator \cup DOMAIN responder
           /\ \A s \in DOMAIN initiator \cup DOMAIN responder : s \in Nat /\ s # Fresh
<1>1. Cardinality(DOMAIN initiator) \in Nat /\ Cardinality(DOMAIN responder) \in Nat
  BY FS_CardinalityType DEF Numbered
<1>2. Fresh \in Nat \ {0}
  BY <1>1 DEF Fresh
<1>3. DOMAIN initiator \cup DOMAIN responder = 1..(Fresh - 1)
  BY DEF Numbered
<1>4. \A s \in 1..(Fresh - 1) : s \in Nat /\ s # Fresh
  BY <1>2
<1> QED
  BY <1>2, <1>3, <1>4

(* A new session, on either side, takes the next number. *)
LEMMA NumberTaken ==
    ASSUME Numbered, Fresh <= MaxFresh,
           \/ /\ DOMAIN initiator' = DOMAIN initiator \cup {Fresh}
              /\ DOMAIN responder' = DOMAIN responder
           \/ /\ DOMAIN initiator' = DOMAIN initiator
              /\ DOMAIN responder' = DOMAIN responder \cup {Fresh}
    PROVE  Numbered'
<1> DEFINE I == DOMAIN initiator
           R == DOMAIN responder
           n == Fresh
<1>1. /\ n \in Nat \ {0} /\ n \notin I /\ n \notin R
  BY FreshIsNew
<1>2. /\ IsFiniteSet(I) /\ IsFiniteSet(R) /\ I \cap R = {} /\ I \cup R = 1..(n - 1)
      /\ n = 1 + Cardinality(I) + Cardinality(R)
      /\ Cardinality(I) \in Nat /\ Cardinality(R) \in Nat
  BY FS_CardinalityType DEF Numbered, Fresh
<1>3. /\ IsFiniteSet(I \cup {n}) /\ Cardinality(I \cup {n}) = Cardinality(I) + 1
      /\ IsFiniteSet(R \cup {n}) /\ Cardinality(R \cup {n}) = Cardinality(R) + 1
  <2> HIDE DEF I, R, n
  <2> QED BY <1>1, <1>2, FS_AddElement
<1>4. 1..n = 1..(n - 1) \cup {n}
  <2> HIDE DEF n
  <2> QED BY <1>1
<1>5. /\ IsFiniteSet(I') /\ IsFiniteSet(R') /\ I' \cap R' = {} /\ I' \cup R' = 1..n
  BY <1>1, <1>2, <1>3, <1>4
<1>6. Fresh' = n + 1
  <2>1. Fresh' = 1 + Cardinality(I') + Cardinality(R')
    BY DEF Fresh
  <2>2. \/ I' = I \cup {n} /\ R' = R
        \/ I' = I /\ R' = R \cup {n}
    OBVIOUS
  <2> HIDE DEF I, R, n
  <2>3. \/ Cardinality(I') = Cardinality(I) + 1 /\ Cardinality(R') = Cardinality(R)
        \/ Cardinality(I') = Cardinality(I) /\ Cardinality(R') = Cardinality(R) + 1
    BY <2>2, <1>3
  <2> QED BY <2>1, <2>3, <1>2
<1>7. Fresh' - 1 = n /\ Fresh' - 1 <= MaxFresh
  <2>1. n <= MaxFresh
    OBVIOUS
  <2> HIDE DEF n
  <2> QED BY <2>1, <1>1, <1>6
<1> QED
  BY <1>5, <1>7 DEF Numbered

(* Before the first session there is nothing to say. *)
LEMMA InitHandshake == Init => HInv
<1> SUFFICES ASSUME Init PROVE HInv
  OBVIOUS
<1>1. /\ DOMAIN initiator = {} /\ DOMAIN responder = {} /\ inits = {} /\ resps = {}
      /\ initiator \in [{} -> InitiatorSession] /\ responder \in [{} -> ResponderSession]
  BY DEF Init
<1>2. Fresh = 1 /\ IsFiniteSet({})
  BY <1>1, FS_EmptySet DEF Fresh
<1>3. Numbered
  BY <1>1, <1>2, IdentityAssumption DEF Numbered
<1> QED
  BY <1>1, <1>3 DEF HInv, Shaped, SentBySessions, Paired

(* initiate (handshake.rs:30-51) adds a session and its payload. *)
LEMMA InitiateKeeps ==
    ASSUME HInv, NEW self \in Identities, NEW expected \in Identities,
           initiate(self, expected)
    PROVE  HInv'
<1>0. PICK n : n = Fresh
  OBVIOUS
<1> DEFINE new == [self |-> self, expected |-> expected, status |-> "waiting", root |-> None]
<1>1. /\ n \in Nat \ {0} /\ n \notin DOMAIN initiator /\ n \notin DOMAIN responder
  BY <1>0, FreshIsNew DEF HInv
<1>2. /\ n <= MaxFresh
      /\ responder' = responder /\ resps' = resps
      /\ initiator' = [s \in DOMAIN initiator \cup {n} |-> IF s = n THEN new ELSE initiator[s]]
      /\ inits' = inits \cup {[id |-> self, eph |-> n, nonce |-> n,
                               sig |-> sign(self, InitMessage(self, expected, n, n))]}
  BY <1>0 DEF initiate
<1>3. /\ DOMAIN initiator' = DOMAIN initiator \cup {n} /\ initiator'[n] = new
      /\ \A s \in DOMAIN initiator : initiator'[s] = initiator[s]
  BY <1>1, <1>2
<1>4. Numbered'
  BY <1>2, <1>3, <1>0, NumberTaken DEF HInv
<1>5. Shaped'
  <2>1. new \in InitiatorSession
    BY DEF InitiatorSession
  <2> HIDE DEF new
  <2>2. \A s \in DOMAIN initiator \cup {n} : initiator'[s] \in InitiatorSession
    BY <1>3, <2>1 DEF HInv, Shaped
  <2>3. initiator' \in [DOMAIN initiator' -> InitiatorSession]
    BY <1>2, <1>3, <2>2
  <2> QED BY <1>2, <2>3 DEF HInv, Shaped
<1>6. SentBySessions'
  <2>1. \A s \in DOMAIN initiator : InitPayload(s)' = InitPayload(s)
    BY <1>3 DEF InitPayload
  <2>2. InitPayload(n)' = [id |-> self, eph |-> n, nonce |-> n,
                           sig |-> sign(self, InitMessage(self, expected, n, n))]
    BY <1>3 DEF InitPayload
  <2>3. \A r \in DOMAIN responder : RespPayload(r)' = RespPayload(r)
    BY <1>2 DEF RespPayload
  <2>4. \A p \in inits' : \E s \in DOMAIN initiator' : p = InitPayload(s)'
    BY <1>2, <1>3, <2>1, <2>2 DEF HInv, SentBySessions
  <2>5. \A p \in resps' : \E r \in DOMAIN responder' : p = RespPayload(r)'
    BY <1>2, <2>3 DEF HInv, SentBySessions
  <2>6. \A r \in DOMAIN responder' : RespPayload(r)' \in resps'
    BY <1>2, <2>3 DEF HInv, SentBySessions
  <2> QED BY <2>4, <2>5, <2>6 DEF SentBySessions
<1>7. Paired'
  <2>1. \A s \in DOMAIN initiator, r \in DOMAIN responder :
           /\ SharedKey(s, r)' = SharedKey(s, r)
           /\ Halves(s, r)' = Halves(s, r)
    BY <1>2, <1>3 DEF SharedKey, Halves
  <2>2. \A r \in DOMAIN responder' : \E s \in DOMAIN initiator' : Halves(s, r)'
    BY <1>2, <1>3, <2>1 DEF HInv, Paired
  <2>3. ASSUME NEW s \in DOMAIN initiator'
        PROVE  IF initiator'[s].status = "done"
               THEN \E r \in DOMAIN responder' :
                       Halves(s, r)' /\ initiator'[s].root = SharedKey(s, r)'
               ELSE initiator'[s].root = None
    <3>1. CASE s = n
      BY <1>3, <3>1
    <3>2. CASE s \in DOMAIN initiator
      BY <1>2, <1>3, <2>1, <3>2 DEF HInv, Paired
    <3> QED BY <1>3, <3>1, <3>2
  <2> QED BY <2>2, <2>3 DEF Paired
<1> QED
  BY <1>4, <1>5, <1>6, <1>7 DEF HInv

(* What a payload off the network is made of. *)
LEMMA CarriedFields ==
    ASSUME HInv, NEW p \in Carried(inits \cup resps)
    PROVE  /\ p.id \in Identities \cup {Garbled}
           /\ p.eph \in Nat \cup {Garbled} /\ p.nonce \in Nat \cup {Garbled}
           /\ p.sig # Garbled => \/ \E n \in DOMAIN initiator : p.sig = InitPayload(n).sig
                                 \/ \E r \in DOMAIN responder : p.sig = RespPayload(r).sig
<1> DEFINE sent == inits \cup resps
<1>1. /\ p.id \in Identities \cup {Garbled}
      /\ p.eph \in {q.eph : q \in sent} \cup {Garbled}
      /\ p.nonce \in {q.nonce : q \in sent} \cup {Garbled}
      /\ p.sig \in {q.sig : q \in sent} \cup {Garbled}
  BY DEF Carried
<1>2. \A q \in sent : \/ \E n \in DOMAIN initiator : q = InitPayload(n)
                      \/ \E r \in DOMAIN responder : q = RespPayload(r)
  BY DEF HInv, SentBySessions
<1>3. \A s \in DOMAIN initiator \cup DOMAIN responder : s \in Nat
  BY FreshIsNew DEF HInv
<1>4. \A q \in sent : q.eph \in Nat /\ q.nonce \in Nat
  BY <1>2, <1>3 DEF InitPayload, RespPayload
<1> QED
  BY <1>1, <1>2, <1>4

(* A signature on an initiation tells the session that made it. *)
LEMMA InitiationIsGenuine ==
    ASSUME HInv, NEW p \in Carried(inits \cup resps), NEW self \in Identities,
           InitFromBytes(p),
           verify(p.id, InitMessage(p.id, self, p.eph, p.nonce), p.sig)
    PROVE  \E n \in DOMAIN initiator :
              /\ initiator[n].self = p.id /\ initiator[n].expected = self
              /\ p.eph = n /\ p.nonce = n
<1> DEFINE msg == <<"init-sig", p.id, self, p.eph, p.nonce>>
<1>1. p.id \in Identities /\ p.eph \in Nat \cup {Garbled} /\ p.nonce \in Nat \cup {Garbled}
  BY CarriedFields DEF InitFromBytes
<1>2. p.sig = [by |-> p.id, msg |-> msg]
  BY DEF verify, sign, InitMessage
<1>3. p.sig # Garbled
  <2>1. msg \in Seq({"init-sig", "resp-sig"} \cup Identities \cup Int \cup {Garbled})
    BY <1>1
  <2> HIDE DEF msg
  <2>2. [by |-> p.id, msg |-> msg] \in Signature
    BY <1>1, <2>1 DEF Signature
  <2> QED BY <1>2, <2>2, IdentityAssumption
<1>4. CASE \E n \in DOMAIN initiator : p.sig = InitPayload(n).sig
  <2>1. PICK n \in DOMAIN initiator : p.sig = InitPayload(n).sig
    BY <1>4
  <2>2. InitPayload(n).sig = [by |-> initiator[n].self,
           msg |-> <<"init-sig", initiator[n].self, initiator[n].expected, n, n>>]
    BY DEF InitPayload, sign, InitMessage
  <2>3. msg = <<"init-sig", initiator[n].self, initiator[n].expected, n, n>>
    <3> HIDE DEF msg
    <3> QED BY <1>2, <2>1, <2>2
  <2> QED BY <2>3
<1>5. CASE \E r \in DOMAIN responder : p.sig = RespPayload(r).sig
  <2>1. PICK r \in DOMAIN responder : p.sig = RespPayload(r).sig
    BY <1>5
  <2> DEFINE other == RespMessage(responder[r].self, responder[r].peer,
                                  r, responder[r].root.ephs[1],
                                  r, responder[r].root.nonces[1])
  <2>2. RespPayload(r).sig = [by |-> responder[r].self, msg |-> other]
    BY DEF RespPayload, sign
  <2>3. msg[1] = "init-sig" /\ other[1] = "resp-sig"
    BY DEF RespMessage
  <2> HIDE DEF msg, other
  <2>4. msg = other
    BY <1>2, <2>1, <2>2
  <2> QED BY <2>3, <2>4
<1> QED
  BY <1>3, <1>4, <1>5, CarriedFields

(* A signature on a response tells the session that made it, and which session
   it was made for. *)
LEMMA ResponseIsGenuine ==
    ASSUME HInv, NEW p \in Carried(inits \cup resps), NEW n \in DOMAIN initiator,
           FinalizeVerdict(n, p) = "Ok"
    PROVE  \E r \in DOMAIN responder : Halves(n, r) /\ p.eph = r /\ p.nonce = r
<1> DEFINE self == initiator[n].self
           expected == initiator[n].expected
           msg == <<"resp-sig", expected, self, p.eph, n, p.nonce, n>>
<1>1. /\ p.id # Garbled /\ p.id = expected
      /\ verify(expected, RespMessage(expected, self, p.eph, n, p.nonce, n), p.sig)
  BY DEF FinalizeVerdict, RespFromBytes
<1>2. self \in Identities /\ expected \in Identities /\ n \in Nat
  BY FreshIsNew DEF HInv, Shaped, InitiatorSession
<1>3. p.eph \in Nat \cup {Garbled} /\ p.nonce \in Nat \cup {Garbled}
  BY CarriedFields
<1>4. p.sig = [by |-> expected, msg |-> msg]
  BY <1>1 DEF verify, sign, RespMessage
<1> HIDE DEF self, expected
<1>5. p.sig # Garbled
  <2>1. msg \in Seq({"init-sig", "resp-sig"} \cup Identities \cup Int \cup {Garbled})
    BY <1>2, <1>3
  <2> HIDE DEF msg
  <2>2. [by |-> expected, msg |-> msg] \in Signature
    BY <1>2, <2>1 DEF Signature
  <2> QED BY <1>4, <2>2, IdentityAssumption
<1>6. CASE \E m \in DOMAIN initiator : p.sig = InitPayload(m).sig
  <2>1. PICK m \in DOMAIN initiator : p.sig = InitPayload(m).sig
    BY <1>6
  <2> DEFINE other == InitMessage(initiator[m].self, initiator[m].expected, m, m)
  <2>2. InitPayload(m).sig = [by |-> initiator[m].self, msg |-> other]
    BY DEF InitPayload, sign
  <2>3. msg[1] = "resp-sig" /\ other[1] = "init-sig"
    BY DEF InitMessage
  <2> HIDE DEF msg, other
  <2>4. msg = other
    BY <1>4, <2>1, <2>2
  <2> QED BY <2>3, <2>4
<1>7. CASE \E r \in DOMAIN responder : p.sig = RespPayload(r).sig
  <2>1. PICK r \in DOMAIN responder : p.sig = RespPayload(r).sig
    BY <1>7
  <2> DEFINE other == <<"resp-sig", responder[r].self, responder[r].peer,
                        r, responder[r].root.ephs[1], r, responder[r].root.nonces[1]>>
  <2>2. RespPayload(r).sig = [by |-> responder[r].self, msg |-> other]
    BY DEF RespPayload, sign, RespMessage
  <2>3. msg = other
    <3> HIDE DEF msg, other
    <3> QED BY <1>4, <2>1, <2>2
  <2>4. /\ responder[r].self = expected /\ responder[r].peer = self
        /\ p.eph = r /\ p.nonce = r /\ responder[r].root.ephs[1] = n
    BY <2>3
  <2>5. PICK m \in DOMAIN initiator : Halves(m, r)
    BY DEF HInv, Paired
  <2>6. responder[r].root.ephs[1] = m
    BY <2>5 DEF Halves, SharedKey, derive_root_key
  <2> QED BY <2>4, <2>5, <2>6
<1> QED
  BY <1>5, <1>6, <1>7, CarriedFields

(* respond (handshake.rs:95-155) adds a session whose other half it has read off
   the initiation. *)
LEMMA RespondKeeps ==
    ASSUME HInv, NEW self \in Identities, NEW expected,
           NEW p \in Carried(inits \cup resps), respond(self, expected, p)
    PROVE  HInv'
<1>0. PICK n : n = Fresh
  OBVIOUS
<1> DEFINE root == derive_root_key(diffie_hellman(n, p.eph), p.id, self,
                                   p.eph, n, p.nonce, n)
           new == [self |-> self, peer |-> p.id, root |-> root]
           payload == [id |-> self, eph |-> n, nonce |-> n,
                       sig |-> sign(self, RespMessage(self, p.id, n, p.eph, n, p.nonce))]
<1>1. /\ n \in Nat \ {0} /\ n \notin DOMAIN initiator /\ n \notin DOMAIN responder
  BY <1>0, FreshIsNew DEF HInv
<1>2. /\ n <= MaxFresh /\ RespondVerdict(self, expected, p) = "Ok"
      /\ initiator' = initiator /\ inits' = inits
      /\ responder' = [s \in DOMAIN responder \cup {n} |-> IF s = n THEN new ELSE responder[s]]
      /\ resps' = resps \cup {payload}
  BY <1>0 DEF respond
<1>3. /\ InitFromBytes(p)
      /\ verify(p.id, InitMessage(p.id, self, p.eph, p.nonce), p.sig)
  BY <1>2 DEF RespondVerdict
<1>4. PICK m \in DOMAIN initiator :
         /\ initiator[m].self = p.id /\ initiator[m].expected = self
         /\ p.eph = m /\ p.nonce = m
  BY <1>3, InitiationIsGenuine
<1>5. m \in Nat /\ p.id \in Identities
  BY <1>4, FreshIsNew DEF HInv, Shaped, InitiatorSession
<1>6. root = [dh |-> {n, m}, ids |-> <<p.id, self>>, ephs |-> <<m, n>>, nonces |-> <<m, n>>]
  BY <1>4 DEF derive_root_key, diffie_hellman
<1>7. /\ root \in RootKey /\ root.ephs[1] = m /\ root.nonces[1] = m
  BY <1>1, <1>5, <1>6 DEF RootKey
<1> HIDE DEF root
<1>8. new.self = self /\ new.peer = p.id /\ new.root = root /\ new \in ResponderSession
  BY <1>5, <1>7 DEF ResponderSession
<1> HIDE DEF new
<1>9. /\ DOMAIN responder' = DOMAIN responder \cup {n} /\ responder'[n] = new
      /\ \A s \in DOMAIN responder : responder'[s] = responder[s]
  BY <1>1, <1>2
<1>10. Numbered'
  BY <1>0, <1>2, <1>9, NumberTaken DEF HInv
<1>11. Shaped'
  <2>1. \A s \in DOMAIN responder \cup {n} : responder'[s] \in ResponderSession
    BY <1>8, <1>9 DEF HInv, Shaped
  <2>2. responder' \in [DOMAIN responder' -> ResponderSession]
    BY <1>2, <1>9, <2>1
  <2> QED BY <1>2, <2>2 DEF HInv, Shaped
<1>12. SentBySessions'
  <2>1. \A s \in DOMAIN initiator : InitPayload(s)' = InitPayload(s)
    BY <1>2 DEF InitPayload
  <2>2. \A r \in DOMAIN responder : RespPayload(r)' = RespPayload(r)
    BY <1>9 DEF RespPayload
  <2>3. RespPayload(n)' = payload
    BY <1>4, <1>7, <1>8, <1>9 DEF RespPayload
  <2> HIDE DEF payload
  <2>4. \A q \in inits' : \E s \in DOMAIN initiator' : q = InitPayload(s)'
    BY <1>2, <2>1 DEF HInv, SentBySessions
  <2>5. \A q \in resps' : \E r \in DOMAIN responder' : q = RespPayload(r)'
    BY <1>2, <1>9, <2>2, <2>3 DEF HInv, SentBySessions
  <2>6. \A r \in DOMAIN responder' : RespPayload(r)' \in resps'
    BY <1>2, <1>9, <2>2, <2>3 DEF HInv, SentBySessions
  <2> QED BY <2>4, <2>5, <2>6 DEF SentBySessions
<1>13. Paired'
  <2>1. \A s \in DOMAIN initiator, r \in DOMAIN responder :
           /\ SharedKey(s, r)' = SharedKey(s, r)
           /\ Halves(s, r)' = Halves(s, r)
    BY <1>2, <1>9 DEF SharedKey, Halves
  <2>2. Halves(m, n)'
    <3>1. SharedKey(m, n)' = [dh |-> {m, n}, ids |-> <<p.id, self>>,
                              ephs |-> <<m, n>>, nonces |-> <<m, n>>]
      BY <1>2, <1>4 DEF SharedKey, derive_root_key
    <3>2. {m, n} = {n, m}
      OBVIOUS
    <3> QED BY <1>2, <1>4, <1>6, <1>8, <1>9, <3>1, <3>2 DEF Halves
  <2>3. \A r \in DOMAIN responder' : \E s \in DOMAIN initiator' : Halves(s, r)'
    BY <1>2, <1>9, <2>1, <2>2 DEF HInv, Paired
  <2>4. ASSUME NEW s \in DOMAIN initiator'
        PROVE  IF initiator'[s].status = "done"
               THEN \E r \in DOMAIN responder' :
                       Halves(s, r)' /\ initiator'[s].root = SharedKey(s, r)'
               ELSE initiator'[s].root = None
    BY <1>2, <1>9, <2>1 DEF HInv, Paired
  <2> QED BY <2>3, <2>4 DEF Paired
<1> QED
  BY <1>10, <1>11, <1>12, <1>13 DEF HInv

(* A waiting session ends in one of two ways, and nothing else changes. *)
LEMMA EndKeeps ==
    ASSUME HInv, NEW n \in DOMAIN initiator, initiator[n].status = "waiting",
           NEW status, NEW root,
           initiator' = [initiator EXCEPT ![n].status = status, ![n].root = root],
           UNCHANGED <<responder, inits, resps>>,
           \/ status = "failed" /\ root = None
           \/ status = "done" /\ \E r \in DOMAIN responder : Halves(n, r) /\ root = SharedKey(n, r)
    PROVE  HInv'
<1>1. initiator \in [DOMAIN initiator -> InitiatorSession] /\ initiator[n] \in InitiatorSession
  BY DEF HInv, Shaped
<1>2. /\ DOMAIN initiator' = DOMAIN initiator
      /\ \A s \in DOMAIN initiator : s # n => initiator'[s] = initiator[s]
      /\ initiator'[n] = [initiator[n] EXCEPT !.status = status, !.root = root]
      /\ initiator' = [s \in DOMAIN initiator |-> initiator'[s]]
  BY <1>1
<1>3. /\ initiator'[n].self = initiator[n].self
      /\ initiator'[n].expected = initiator[n].expected
      /\ initiator'[n].status = status /\ initiator'[n].root = root
  BY <1>1, <1>2 DEF InitiatorSession
<1>4. \A s \in DOMAIN initiator : /\ initiator'[s].self = initiator[s].self
                                  /\ initiator'[s].expected = initiator[s].expected
  BY <1>2, <1>3
<1>5. responder' = responder /\ inits' = inits /\ resps' = resps
  OBVIOUS
<1>6. Numbered'
  <2>1. Fresh' = Fresh
    BY <1>2, <1>5 DEF Fresh
  <2> QED BY <1>2, <1>5, <2>1 DEF HInv, Numbered
<1>7. Shaped'
  <2>1. root \in RootKey \cup {None}
    BY DEF HInv, Shaped, ResponderSession, Halves
  <2>2. initiator'[n] \in InitiatorSession
    BY <1>1, <1>2, <2>1 DEF InitiatorSession
  <2>3. \A s \in DOMAIN initiator : initiator'[s] \in InitiatorSession
    BY <1>1, <1>2, <2>2
  <2> QED BY <1>2, <1>5, <2>3 DEF HInv, Shaped
<1>8. SentBySessions'
  <2>1. \A s \in DOMAIN initiator : InitPayload(s)' = InitPayload(s)
    BY <1>4 DEF InitPayload
  <2>2. \A r \in DOMAIN responder : RespPayload(r)' = RespPayload(r)
    BY <1>5 DEF RespPayload
  <2> QED BY <1>2, <1>5, <2>1, <2>2 DEF HInv, SentBySessions
<1>9. Paired'
  <2>1. \A s \in DOMAIN initiator, r \in DOMAIN responder :
           /\ SharedKey(s, r)' = SharedKey(s, r)
           /\ Halves(s, r)' = Halves(s, r)
    BY <1>4, <1>5 DEF SharedKey, Halves
  <2>2. \A r \in DOMAIN responder' : \E s \in DOMAIN initiator' : Halves(s, r)'
    BY <1>2, <1>5, <2>1 DEF HInv, Paired
  <2>3. ASSUME NEW s \in DOMAIN initiator'
        PROVE  IF initiator'[s].status = "done"
               THEN \E r \in DOMAIN responder' :
                       Halves(s, r)' /\ initiator'[s].root = SharedKey(s, r)'
               ELSE initiator'[s].root = None
    <3>1. CASE s = n
      BY <1>3, <1>5, <2>1, <3>1
    <3>2. CASE s # n
      BY <1>2, <1>5, <2>1, <3>2 DEF HInv, Paired
    <3> QED BY <3>1, <3>2
  <2> QED BY <2>2, <2>3 DEF Paired
<1> QED
  BY <1>6, <1>7, <1>8, <1>9 DEF HInv

(* Dropping a waiting session. *)
LEMMA FailKeeps ==
    ASSUME HInv, NEW n \in DOMAIN initiator, initiator[n].status = "waiting",
           initiator' = [initiator EXCEPT ![n].status = "failed"],
           UNCHANGED <<responder, inits, resps>>
    PROVE  HInv'
<1>1. initiator \in [DOMAIN initiator -> InitiatorSession]
  BY DEF HInv, Shaped
<1>2. initiator[n].root = None
  BY DEF HInv, Paired
<1>3. initiator' = [initiator EXCEPT ![n].status = "failed", ![n].root = None]
  BY <1>1, <1>2 DEF InitiatorSession
<1> QED
  BY <1>3, EndKeeps

(* A call that returns an error early changes nothing (handshake.rs:95-116). *)
LEMMA StutterKeeps == HInv /\ UNCHANGED vars => HInv'
<1> SUFFICES ASSUME HInv, UNCHANGED vars PROVE HInv'
  OBVIOUS
<1>1. initiator' = initiator /\ responder' = responder /\ inits' = inits /\ resps' = resps
  BY DEF vars
<1>2. Numbered'
  BY <1>1 DEF HInv, Numbered, Fresh
<1>3. Shaped'
  BY <1>1 DEF HInv, Shaped
<1>4. SentBySessions'
  BY <1>1 DEF HInv, SentBySessions, InitPayload, RespPayload
<1>5. Paired'
  BY <1>1 DEF HInv, Paired, Halves, SharedKey
<1> QED
  BY <1>2, <1>3, <1>4, <1>5 DEF HInv

(* finalize (handshake.rs:53-86), with either result. *)
LEMMA FinishKeeps ==
    ASSUME HInv, NEW n \in DOMAIN initiator, NEW p \in Carried(inits \cup resps),
           Finish(n, p)
    PROVE  HInv'
<1>1. CASE finalize(n, p)
  <2>1. PICK r \in DOMAIN responder : Halves(n, r) /\ p.eph = r /\ p.nonce = r
    BY <1>1, ResponseIsGenuine DEF finalize
  <2> DEFINE root == derive_root_key(diffie_hellman(n, p.eph), initiator[n].self,
                                     initiator[n].expected, n, p.eph, n, p.nonce)
  <2>2. root = SharedKey(n, r)
    BY <2>1 DEF SharedKey, diffie_hellman
  <2>3. /\ initiator[n].status = "waiting"
        /\ initiator' = [initiator EXCEPT ![n].status = "done", ![n].root = root]
        /\ UNCHANGED <<responder, inits, resps>>
    BY <1>1 DEF finalize
  <2> HIDE DEF root
  <2> QED BY <2>1, <2>2, <2>3, EndKeeps
<1>2. CASE FinalizeRejected(n, p)
  <2>1. CASE initiator' = initiator
    <3>1. UNCHANGED vars
      BY <1>2, <2>1 DEF FinalizeRejected, vars
    <3> QED BY <3>1, StutterKeeps
  <2>2. CASE initiator' = [initiator EXCEPT ![n].status = "failed"]
    BY <1>2, <2>2, FailKeeps DEF FinalizeRejected
  <2> QED BY <1>2, <2>1, <2>2 DEF FinalizeRejected
<1> QED
  BY <1>1, <1>2 DEF Finish

(* Every step of a handshake keeps the invariant. *)
LEMMA NextKeepsHInv == HInv /\ [Next]_vars => HInv'
<1> SUFFICES ASSUME HInv, [Next]_vars PROVE HInv'
  OBVIOUS
<1>1. ASSUME NEW self \in Identities, NEW expected \in Identities, initiate(self, expected)
      PROVE  HInv'
  BY <1>1, InitiateKeeps
<1>2. ASSUME NEW self \in Identities, NEW expected \in Identities \cup {None},
             NEW p \in Carried(inits \cup resps), respond(self, expected, p)
      PROVE  HInv'
  BY <1>2, RespondKeeps
<1>3. ASSUME NEW self \in Identities, NEW expected \in Identities \cup {None},
             NEW p \in Carried(inits \cup resps), RespondRejected(self, expected, p)
      PROVE  HInv'
  BY <1>3, StutterKeeps DEF RespondRejected
<1>4. ASSUME NEW n \in DOMAIN initiator, NEW p \in Carried(inits \cup resps), Finish(n, p)
      PROVE  HInv'
  BY <1>4, FinishKeeps
<1>5. CASE UNCHANGED vars
  BY <1>5, StutterKeeps
<1> QED BY <1>1, <1>2, <1>3, <1>4, <1>5 DEF Next

(* So it always holds. *)
LEMMA HandshakeInvariant == Spec => []HInv
  BY InitHandshake, NextKeepsHInv, PTL DEF Spec

------------------------------------------------------------------------------
(* The properties follow from the invariant, whatever keeps it. *)
LEMMA HandshakeTypeOK == HInv => TypeOK
<1> SUFFICES ASSUME HInv PROVE TypeOK
  OBVIOUS
<1>1. /\ DOMAIN initiator \cap DOMAIN responder = {}
      /\ DOMAIN initiator \cup DOMAIN responder = 1..(Fresh - 1)
  BY DEF HInv, Numbered
<1>2. \A n \in DOMAIN initiator :
         /\ initiator[n].self \in Identities /\ initiator[n].expected \in Identities
         /\ initiator[n].status \in {"waiting", "done", "failed"}
  BY DEF HInv, Shaped, InitiatorSession
<1>3. \A r \in DOMAIN responder :
         responder[r].self \in Identities /\ responder[r].peer \in Identities
  BY DEF HInv, Shaped, ResponderSession
<1>4. \A s \in DOMAIN initiator \cup DOMAIN responder : s \in 1..MaxFresh
  <2>1. Fresh \in Nat /\ Fresh - 1 <= MaxFresh
    BY FreshIsNew DEF HInv, Numbered
  <2>2. \A s \in 1..(Fresh - 1) : s \in 1..MaxFresh
    BY <2>1, IdentityAssumption
  <2> QED BY <1>1, <2>2
<1>5. \A p \in inits \cup resps : p.id \in Identities /\ p.eph \in 1..MaxFresh
  BY <1>2, <1>3, <1>4 DEF HInv, SentBySessions, InitPayload, RespPayload
<1> QED
  BY <1>1, <1>2, <1>3, <1>5 DEF TypeOK

(* The halves of a key name each other. *)
LEMMA Agreement == HInv => InitiatorAgrees /\ ResponderAgrees
<1> SUFFICES ASSUME HInv PROVE InitiatorAgrees /\ ResponderAgrees
  OBVIOUS
<1>1. InitiatorAgrees
  BY DEF HInv, Paired, Halves, InitiatorAgrees
<1>2. \A n, r : SharedKey(n, r).ephs[1] = n /\ SharedKey(n, r).nonces[1] = n
  BY DEF SharedKey, derive_root_key
<1>3. ResponderAgrees
  BY <1>2 DEF HInv, Paired, Halves, ResponderAgrees
<1> QED
  BY <1>1, <1>3

(* A key names both its sessions (crypto.rs:144-168). *)
LEMMA KeysDiffer == HInv => RootKeysNeverRepeat
<1> SUFFICES ASSUME HInv PROVE RootKeysNeverRepeat
  OBVIOUS
<1>1. \A n, r : SharedKey(n, r).ephs[1] = n /\ SharedKey(n, r).ephs[2] = r
  BY DEF SharedKey, derive_root_key
<1>2. ASSUME NEW m \in DOMAIN initiator, NEW n \in DOMAIN initiator,
             initiator[m].status = "done", initiator[m].root = initiator[n].root
      PROVE  m = n
  <2>1. PICK r \in DOMAIN responder : Halves(m, r) /\ initiator[m].root = SharedKey(m, r)
    BY <1>2 DEF HInv, Paired
  <2>2. SharedKey(m, r) \in RootKey
    BY <2>1 DEF Halves, HInv, Shaped, ResponderSession
  <2>3. initiator[n].root # None
    BY <1>2, <2>1, <2>2, IdentityAssumption
  <2>4. PICK q \in DOMAIN responder : initiator[n].root = SharedKey(n, q)
    BY <2>3 DEF HInv, Paired
  <2>5. SharedKey(m, r) = SharedKey(n, q)
    BY <1>2, <2>1, <2>4
  <2>6. SharedKey(m, r).ephs[1] = m /\ SharedKey(n, q).ephs[1] = n
    BY <1>1
  <2> QED BY <2>5, <2>6
<1>3. ASSUME NEW q \in DOMAIN responder, NEW r \in DOMAIN responder,
             responder[q].root = responder[r].root
      PROVE  q = r
  BY <1>1, <1>3 DEF HInv, Paired, Halves
<1> QED
  BY <1>2, <1>3 DEF RootKeysNeverRepeat

(* The response of a session's other half is what finalize verifies. *)
LEMMA ResponseCompletes == HInv => GenuineResponseCompletes
<1> SUFFICES ASSUME HInv, NEW n \in DOMAIN initiator, NEW r \in DOMAIN responder,
                    initiator[n].status = "waiting", responder[r].root.ephs[1] = n
             PROVE  \E p \in resps : p.eph = r /\ FinalizeVerdict(n, p) = "Ok"
  BY DEF GenuineResponseCompletes
<1>1. PICK m \in DOMAIN initiator : Halves(m, r)
  BY DEF HInv, Paired
<1>2. responder[r].root.ephs[1] = m /\ responder[r].root.nonces[1] = m
  BY <1>1 DEF Halves, SharedKey, derive_root_key
<1>3. /\ responder[r].self = initiator[n].expected /\ responder[r].peer = initiator[n].self
      /\ responder[r].root.ephs[1] = n /\ responder[r].root.nonces[1] = n
  BY <1>1, <1>2 DEF Halves
<1>4. responder[r].self # Garbled
  BY IdentityAssumption DEF HInv, Shaped, ResponderSession
<1> DEFINE p == RespPayload(r)
<1>5. /\ p.id = initiator[n].expected /\ p.eph = r /\ p.nonce = r
      /\ p.sig = sign(initiator[n].expected,
                      RespMessage(initiator[n].expected, initiator[n].self, r, n, r, n))
  BY <1>3 DEF RespPayload
<1>6. p \in resps
  BY DEF HInv, SentBySessions
<1> HIDE DEF p
<1>7. FinalizeVerdict(n, p) = "Ok"
  BY <1>3, <1>4, <1>5 DEF FinalizeVerdict, RespFromBytes, verify
<1> QED
  BY <1>5, <1>6, <1>7

(* Sessions are numbered in order and keep to their types, with any number of
   them and any mixture of payloads (handshake.rs). *)
THEOREM HandshakeTyped == Spec => []TypeOK
  BY HandshakeInvariant, HandshakeTypeOK, PTL

(* Authentication of the responder: finalize (handshake.rs:53-86) returns a
   RootKey only if the peer it expected holds that key for it. *)
THEOREM InitiatorAuthentication == Spec => []InitiatorAgrees
  BY HandshakeInvariant, Agreement, PTL

(* Authentication of the initiator: respond (handshake.rs:95-155) returns a
   RootKey only for a session the named peer has initiated with this responder. *)
THEOREM ResponderAuthentication == Spec => []ResponderAgrees
  BY HandshakeInvariant, Agreement, PTL

(* No repetition of an initiation or a response makes the same RootKey twice
   (crypto.rs:144-168). *)
THEOREM FreshRootKeys == Spec => []RootKeysNeverRepeat
  BY HandshakeInvariant, KeysDiffer, PTL

(* finalize (handshake.rs:53-86) never refuses the response that was made for
   its session. *)
THEOREM GenuineResponses == Spec => []GenuineResponseCompletes
  BY HandshakeInvariant, ResponseCompletes, PTL
==============================================================================
