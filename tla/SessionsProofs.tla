---------------------------- MODULE SessionsProofs ---------------------------
(***************************************************************************)
(* Proofs about handshake and channels together, for any identities, any   *)
(* number of sessions and any messages.                                    *)
(*                                                                         *)
(* A message reaches whoever has its root key.  By the invariant of the    *)
(* handshake these are the two halves of one handshake and nobody else;    *)
(* root keys and open sessions never change afterwards, so that what holds *)
(* when a message arrives holds for good.                                  *)
(***************************************************************************)
EXTENDS Sessions, HandshakeProofs

Delivered == [seq : SeqNumbers, mid : MessageIds, payload : 1..MaxFresh]

(* Everything sent and got was between open sessions of one root key. *)
Exchange ==
    /\ \A m \in sent : /\ m.from \in Open /\ m.payload = m.from
                       /\ m.seq \in SeqNumbers /\ m.mid \in MessageIds
    /\ got \in [1..MaxFresh -> Seq(Delivered)]
    /\ \A s \in 1..MaxFresh : \A i \in 1..Len(got[s]) :
          /\ s \in Open /\ got[s][i].payload \in Open /\ got[s][i].payload # s
          /\ RootKeyOf(got[s][i].payload) = RootKeyOf(s)

SInv == HInv /\ Exchange

------------------------------------------------------------------------------
(* Of two open sessions with the same root key one initiated and the other
   responded, to each other. *)
LEMMA SharedRoot ==
    ASSUME HInv, NEW s \in Open, NEW t \in Open, s # t, RootKeyOf(s) = RootKeyOf(t)
    PROVE  \/ s \in DOMAIN initiator /\ t \in DOMAIN responder /\ Halves(s, t)
           \/ t \in DOMAIN initiator /\ s \in DOMAIN responder /\ Halves(t, s)
<1>1. /\ \A m, n \in DOMAIN initiator :
            (initiator[m].status = "done" /\ initiator[m].root = initiator[n].root) => m = n
      /\ \A q, r \in DOMAIN responder : responder[q].root = responder[r].root => q = r
  BY KeysDiffer DEF RootKeysNeverRepeat
<1>2. \A u \in Open : \/ /\ u \in DOMAIN initiator /\ initiator[u].status = "done"
                         /\ RootKeyOf(u) = initiator[u].root
                      \/ /\ u \in DOMAIN responder /\ u \notin DOMAIN initiator
                         /\ RootKeyOf(u) = responder[u].root
  BY DEF Open, RootKeyOf, Initiates, HInv, Numbered
<1>3. ASSUME NEW u \in DOMAIN initiator, NEW v \in DOMAIN responder,
             initiator[u].status = "done", initiator[u].root = responder[v].root
      PROVE  Halves(u, v)
  <2>1. PICK r \in DOMAIN responder : Halves(u, r) /\ initiator[u].root = SharedKey(u, r)
    BY <1>3 DEF HInv, Paired
  <2>2. responder[r].root = responder[v].root
    BY <1>3, <2>1 DEF Halves
  <2> QED BY <1>1, <2>1, <2>2
<1> QED
  BY <1>1, <1>2, <1>3

(* A step of the handshake leaves the open sessions open and their keys as they
   are: respond and initiate take a new number, and finalize a session that is
   still waiting (handshake.rs:53-155). *)
LEMMA KeysStay ==
    ASSUME HInv, HInv', HandshakeStep
    PROVE  \A s \in Open : s \in Open' /\ RootKeyOf(s)' = RootKeyOf(s)
<1> SUFFICES /\ DOMAIN initiator \subseteq DOMAIN initiator'
             /\ DOMAIN responder \subseteq DOMAIN responder'
             /\ \A r \in DOMAIN responder : responder'[r] = responder[r]
             /\ \A n \in DOMAIN initiator :
                   initiator[n].status = "done" => initiator'[n] = initiator[n]
  <2>1. DOMAIN initiator \cap DOMAIN responder = {} /\ (DOMAIN initiator \cap DOMAIN responder = {})'
    BY DEF HInv, Numbered
  <2>2. ASSUME NEW s \in DOMAIN responder PROVE s \in Open' /\ RootKeyOf(s)' = RootKeyOf(s)
    BY <2>1 DEF Open, RootKeyOf, Initiates
  <2>3. ASSUME NEW s \in DOMAIN initiator, initiator[s].status = "done"
        PROVE  s \in Open' /\ RootKeyOf(s)' = RootKeyOf(s)
    BY <2>3 DEF Open, RootKeyOf, Initiates
  <2> QED BY <2>2, <2>3 DEF Open
<1>1. Fresh \notin DOMAIN initiator \cup DOMAIN responder
  BY FreshIsNew DEF HInv
<1>2. initiator \in [DOMAIN initiator -> InitiatorSession]
  BY DEF HInv, Shaped
<1>3. CASE \E self \in Identities, expected \in Identities : initiate(self, expected)
  BY <1>1, <1>3 DEF initiate
<1>4. CASE \E self \in Identities, expected \in Identities \cup {None},
              p \in Carried(inits \cup resps) : respond(self, expected, p)
  BY <1>1, <1>4 DEF respond
<1>5. ASSUME NEW n \in DOMAIN initiator, NEW p, Finish(n, p)
      PROVE  /\ responder' = responder /\ DOMAIN initiator' = DOMAIN initiator
             /\ \A m \in DOMAIN initiator :
                   initiator[m].status = "done" => initiator'[m] = initiator[m]
  <2>1. initiator[n].status = "waiting" /\ responder' = responder
    BY <1>5 DEF Finish, finalize, FinalizeRejected
  <2>2. DOMAIN initiator' = DOMAIN initiator
    BY <1>2, <1>5 DEF Finish, finalize, FinalizeRejected
  <2>3. \A m \in DOMAIN initiator : m # n => initiator'[m] = initiator[m]
    BY <1>2, <1>5 DEF Finish, finalize, FinalizeRejected
  <2> QED BY <2>1, <2>2, <2>3
<1> QED
  BY <1>3, <1>4, <1>5 DEF HandshakeStep

(* No handshake, no channel, no message. *)
LEMMA SessionsInit == SInit => SInv
<1> SUFFICES ASSUME SInit PROVE SInv
  OBVIOUS
<1>1. HInv
  BY InitHandshake DEF SInit
<1>2. sent = {} /\ got = [e \in 1..MaxFresh |-> << >>]
  BY DEF SInit, Channels!Init
<1>3. \A s \in 1..MaxFresh : got[s] = << >> /\ Len(got[s]) = 0
  BY <1>2
<1>4. got \in [1..MaxFresh -> Seq(Delivered)]
  BY <1>2
<1>5. Exchange
  BY <1>2, <1>3, <1>4 DEF Exchange
<1> QED
  BY <1>1, <1>5 DEF SInv

(* Handshake steps make channels from fresh keys; traffic keeps within them. *)
LEMMA SessionsStep == SInv /\ [SNext]_svars => SInv'
<1> SUFFICES ASSUME SInv, [SNext]_svars PROVE SInv'
  OBVIOUS
<1>1. HInv /\ Exchange
  BY DEF SInv
<1>2. ASSUME UNCHANGED vars
      PROVE  HInv' /\ Open' = Open /\ \A s : RootKeyOf(s)' = RootKeyOf(s)
  BY <1>1, <1>2, StutterKeeps DEF vars, Open, RootKeyOf, Initiates
<1>3. \A s \in Open : s \in 1..MaxFresh
  <2>1. Open \subseteq DOMAIN initiator \cup DOMAIN responder
    BY DEF Open
  <2>2. Fresh \in Nat /\ Fresh - 1 <= MaxFresh
    BY <1>1, FreshIsNew DEF HInv, Numbered
  <2>3. \A s \in 1..(Fresh - 1) : s \in 1..MaxFresh
    BY <2>2, IdentityAssumption
  <2> QED BY <1>1, <2>1, <2>3 DEF HInv, Numbered
<1>4. CASE HandshakeStep
  <2>1. HInv'
    BY <1>1, <1>4, InitiateKeeps, RespondKeeps, FinishKeeps DEF HandshakeStep
  <2>2. \A s \in Open : s \in Open' /\ RootKeyOf(s)' = RootKeyOf(s)
    BY <1>1, <1>4, <2>1, KeysStay
  <2>3. sent' = sent /\ got' = got
    BY <1>4 DEF HandshakeStep
  <2>4. Exchange'
    BY <1>1, <2>2, <2>3 DEF Exchange
  <2> QED BY <2>1, <2>4 DEF SInv
<1>5. ASSUME NEW s \in Open, NEW mid \in MessageIds, SessionSends(s, mid) PROVE SInv'
  <2>1. UNCHANGED vars
    BY <1>5 DEF SessionSends
  <2>2. PICK seq \in SeqNumbers :
           /\ sent' = sent \cup {[from |-> s, seq |-> seq, mid |-> mid, payload |-> s]}
           /\ got' = got
    BY <1>5 DEF SessionSends, Channels!Send
  <2>3. Exchange'
    BY <1>1, <1>2, <2>1, <2>2 DEF Exchange
  <2> QED BY <1>2, <2>1, <2>3 DEF SInv
<1>6. ASSUME NEW s \in Open, NEW m \in sent, SessionGets(s, m) PROVE SInv'
  <2> DEFINE new == [seq |-> m.seq, mid |-> m.mid, payload |-> m.payload]
  <2>1. UNCHANGED vars /\ RootKeyOf(m.from) = RootKeyOf(s) /\ m.from # s
    BY <1>6 DEF SessionGets, Channels!Deliver
  <2>2. sent' = sent /\ got' = [got EXCEPT ![s] = Append(@, new)]
    BY <1>6 DEF SessionGets, Channels!Deliver
  <2>3. /\ m.from \in Open /\ m.payload = m.from /\ m.from \in 1..MaxFresh
        /\ m.seq \in SeqNumbers /\ m.mid \in MessageIds
    BY <1>1, <1>3 DEF Exchange
  <2>4. new \in Delivered /\ new.payload = m.from
    BY <2>3 DEF Delivered
  <2> HIDE DEF new
  <2>5. s \in 1..MaxFresh /\ got \in [1..MaxFresh -> Seq(Delivered)] /\ got[s] \in Seq(Delivered)
    BY <1>1, <1>3 DEF Exchange
  <2>6. /\ got' \in [1..MaxFresh -> Seq(Delivered)]
        /\ got'[s] = Append(got[s], new)
        /\ \A u \in 1..MaxFresh : u # s => got'[u] = got[u]
    BY <2>2, <2>4, <2>5
  <2>7. ASSUME NEW u \in 1..MaxFresh, NEW i \in 1..Len(got'[u])
        PROVE  /\ u \in Open /\ got'[u][i].payload \in Open /\ got'[u][i].payload # u
               /\ RootKeyOf(got'[u][i].payload) = RootKeyOf(u)
    <3>1. CASE u # s
      BY <1>1, <2>6, <3>1 DEF Exchange
    <3>2. CASE u = s /\ i \in 1..Len(got[s])
      <4>1. got'[u][i] = got[s][i]
        BY <2>4, <2>5, <2>6, <3>2
      <4> QED BY <1>1, <2>5, <3>2, <4>1 DEF Exchange
    <3>3. CASE u = s /\ i \notin 1..Len(got[s])
      <4>1. got'[u][i] = new
        BY <2>4, <2>5, <2>6, <3>3
      <4> QED BY <2>1, <2>3, <2>4, <3>3, <4>1
    <3> QED BY <3>1, <3>2, <3>3
  <2>8. Exchange'
    BY <1>1, <1>2, <2>1, <2>2, <2>6, <2>7 DEF Exchange
  <2> QED BY <1>2, <2>1, <2>8 DEF SInv
<1>7. CASE UNCHANGED svars
  <2>1. UNCHANGED vars /\ sent' = sent /\ got' = got
    BY <1>7 DEF svars
  <2>2. Exchange'
    BY <1>1, <1>2, <2>1 DEF Exchange
  <2> QED BY <1>2, <2>1, <2>2 DEF SInv
<1> QED
  BY <1>4, <1>5, <1>6, <1>7 DEF SNext

(* So it always holds. *)
LEMMA SessionsInvariant == SSpec => []SInv
  BY SessionsInit, SessionsStep, PTL DEF SSpec

(* The two ends of a conversation are the two halves of its key. *)
LEMMA Pairs == SInv => ConversationsArePairs
<1> SUFFICES ASSUME SInv, NEW s \in Open, NEW i \in 1..Len(got[s])
             PROVE  LET t == got[s][i].payload IN
                    /\ Initiates(s) # Initiates(t)
                    /\ Self(s) = Peer(t) /\ Peer(s) = Self(t)
                    /\ \A u \in Open : \A j \in 1..Len(got[u]) :
                          (got[u][j].payload = t) <=> (u = s)
  BY DEF ConversationsArePairs
<1> DEFINE t == got[s][i].payload
<1>1. HInv /\ DOMAIN initiator \cap DOMAIN responder = {}
  BY DEF SInv, HInv, Numbered
<1>2. \A u \in Open : u \in 1..MaxFresh
  <2>1. Open \subseteq DOMAIN initiator \cup DOMAIN responder
    BY DEF Open
  <2>2. Fresh \in Nat /\ Fresh - 1 <= MaxFresh
    BY <1>1, FreshIsNew DEF HInv, Numbered
  <2>3. \A u \in 1..(Fresh - 1) : u \in 1..MaxFresh
    BY <2>2, IdentityAssumption
  <2> QED BY <1>1, <2>1, <2>3 DEF HInv, Numbered
<1>3. \A u \in Open : \A j \in 1..Len(got[u]) :
         /\ got[u][j].payload \in Open /\ got[u][j].payload # u
         /\ RootKeyOf(got[u][j].payload) = RootKeyOf(u)
  BY <1>2 DEF SInv, Exchange
<1>4. t \in Open /\ t # s /\ RootKeyOf(t) = RootKeyOf(s)
  BY <1>3
<1> HIDE DEF t
<1>5. \/ s \in DOMAIN initiator /\ t \in DOMAIN responder /\ Halves(s, t)
      \/ t \in DOMAIN initiator /\ s \in DOMAIN responder /\ Halves(t, s)
  BY <1>1, <1>4, SharedRoot
<1>6. /\ Initiates(s) # Initiates(t)
      /\ Self(s) = Peer(t) /\ Peer(s) = Self(t)
  BY <1>1, <1>5 DEF Initiates, Self, Peer, Halves
(* A third open session cannot have the key of s and t. *)
<1>7. ASSUME NEW u \in Open, u # s, u # t PROVE RootKeyOf(u) # RootKeyOf(s)
  <2> SUFFICES ASSUME RootKeyOf(u) = RootKeyOf(s) PROVE FALSE
    OBVIOUS
  <2>1. \/ s \in DOMAIN initiator /\ u \in DOMAIN responder
        \/ u \in DOMAIN initiator /\ s \in DOMAIN responder
    BY <1>1, <1>7, SharedRoot
  <2>2. \/ t \in DOMAIN initiator /\ u \in DOMAIN responder
        \/ u \in DOMAIN initiator /\ t \in DOMAIN responder
    BY <1>1, <1>4, <1>7, SharedRoot
  <2> QED BY <1>1, <1>5, <2>1, <2>2
<1>8. ASSUME NEW u \in Open, NEW j \in 1..Len(got[u])
      PROVE  (got[u][j].payload = t) <=> (u = s)
  <2> DEFINE v == got[u][j].payload
  <2>1. v \in Open /\ v # u /\ RootKeyOf(v) = RootKeyOf(u)
    BY <1>3
  <2> HIDE DEF v
  <2>2. ASSUME v = t PROVE u = s
    BY <1>4, <1>7, <2>1, <2>2
  <2>3. ASSUME u = s PROVE v = t
    BY <1>7, <2>1, <2>3
  <2> QED BY <2>2, <2>3 DEF v
<1> QED
  BY <1>6, <1>8 DEF t

(* All that a session ever gets comes from the other half of its handshake, and
   nobody else gets it: authentication (handshake.rs:53-155) and key separation
   (crypto.rs:144-168) carried over to the conversation. *)
THEOREM PrivateConversations == SSpec => []ConversationsArePairs
  BY SessionsInvariant, Pairs, PTL

(* Conversations take nothing from the handshake: with channels in use, what it
   promises still holds (handshake.rs, channel.rs). *)
THEOREM HandshakeUnderTraffic ==
    SSpec => [](TypeOK /\ InitiatorAgrees /\ ResponderAgrees
                /\ RootKeysNeverRepeat /\ GenuineResponseCompletes)
<1>1. SInv => TypeOK /\ InitiatorAgrees /\ ResponderAgrees
              /\ RootKeysNeverRepeat /\ GenuineResponseCompletes
  BY HandshakeTypeOK, Agreement, KeysDiffer, ResponseCompletes DEF SInv
<1> QED
  BY SessionsInvariant, <1>1, PTL
==============================================================================
