---------------------------- MODULE EnvelopeProofs ----------------------------
(***************************************************************************)
(* Proofs about the bytes of an envelope (src/envelope.rs), for every      *)
(* payload length that seal takes, every header a peer may write and every *)
(* byte the transport may change.                                          *)
(*                                                                         *)
(* An envelope is what the AEAD has produced, or that with one byte        *)
(* changed.  open takes it apart at the places where seal put it together, *)
(* so that it authenticates only if it is the former.                      *)
(***************************************************************************)
EXTENDS EnvelopeLayout, SequenceTheorems, TLAPS

(* Whatever may stand in a plaintext: bytes, marks of the payload, padding. *)
Content == {b \in Int : b >= Padding}

(* What the AEAD may have produced: parts of the right lengths. *)
Product ==
    [nonce : Seq(Int), ciphertext : Seq(Int), tag : Seq(Int)]

WellMade(c) ==
    /\ c \in Product
    /\ Len(c.nonce) = NONCE_LEN /\ Len(c.ciphertext) = CIPHERTEXT_LEN /\ Len(c.tag) = TAG_LEN

(* The lengths add up. *)
LEMMA Sizes ==
    /\ NONCE_LEN \in Nat /\ CIPHERTEXT_LEN \in Nat /\ TAG_LEN \in Nat
    /\ PLAINTEXT_LEN \in Nat /\ MAX_PAYLOAD_SIZE \in Nat
    /\ ENVELOPE_TOTAL_LEN = NONCE_LEN + CIPHERTEXT_LEN + TAG_LEN
    /\ CIPHERTEXT_LEN = PLAINTEXT_LEN /\ MAX_PAYLOAD_SIZE + 4 <= PLAINTEXT_LEN
  BY LayoutAssumption

(* A slice is what stands there. *)
LEMMA SliceIs ==
    ASSUME NEW env \in Seq(Int), NEW t \in Seq(Int), NEW k \in Nat,
           k + Len(t) <= Len(env), \A i \in 1..Len(t) : env[k + i] = t[i]
    PROVE  SubSeq(env, k + 1, k + Len(t)) = t
<1> DEFINE s == SubSeq(env, k + 1, k + Len(t))
<1>1. Len(t) \in Nat /\ Len(env) \in Nat
  OBVIOUS
<1>2. \A i \in (k + 1)..(k + Len(t)) : env[i] \in Int
  BY <1>1
<1>3. /\ s \in Seq(Int) /\ Len(s) = Len(t)
      /\ \A i \in 1..Len(t) : s[i] = env[k + i]
  <2>1. k + 1 \in Int /\ k + Len(t) \in Int
    BY <1>1
  <2>2. /\ s \in Seq(Int)
        /\ Len(s) = IF k + 1 <= k + Len(t) THEN (k + Len(t)) - (k + 1) + 1 ELSE 0
        /\ \A i \in 1..((k + Len(t)) - (k + 1) + 1) : s[i] = env[(k + 1) + i - 1]
    BY <1>2, <2>1, SubSeqProperties
  <2> HIDE DEF s
  <2>3. \A i \in 1..Len(t) : (k + 1) + i - 1 = k + i
    BY <1>1
  <2>4. (k + Len(t)) - (k + 1) + 1 = Len(t)
    BY <1>1
  <2>5. Len(s) = Len(t)
    BY <1>1, <2>2, <2>4
  <2>6. \A i \in 1..Len(t) : s[i] = env[k + i]
    BY <2>2, <2>3, <2>4
  <2> QED BY <2>2, <2>5, <2>6
<1> HIDE DEF s
<1>4. \A i \in 1..Len(s) : s[i] = t[i]
  BY <1>3
<1>5. s = t
  BY <1>3, <1>4, SeqEqual
<1> QED BY <1>5 DEF s

(* s is a and then b. *)
Joins(s, a, b) ==
    /\ s \in Seq(Int) /\ Len(s) = Len(a) + Len(b)
    /\ \A i \in 1..Len(a) : s[i] = a[i]
    /\ \A i \in 1..Len(b) : s[Len(a) + i] = b[i]

(* Concatenation does that. *)
LEMMA ConcatJoins ==
    ASSUME NEW a \in Seq(Int), NEW b \in Seq(Int)
    PROVE  Joins(a \o b, a, b)
<1>1. Len(a) \in Nat /\ Len(b) \in Nat
  OBVIOUS
<1>2. PICK s : s = a \o b
  OBVIOUS
<1>3. /\ s \in Seq(Int) /\ Len(s) = Len(a) + Len(b)
      /\ \A i \in 1..(Len(a) + Len(b)) : s[i] = IF i <= Len(a) THEN a[i] ELSE b[i - Len(a)]
  BY <1>2, ConcatProperties
<1>4. ASSUME NEW i \in 1..Len(a) PROVE s[i] = a[i]
  BY <1>1, <1>3
<1>5. ASSUME NEW i \in 1..Len(b) PROVE s[Len(a) + i] = b[i]
  <2>1. /\ Len(a) + i \in 1..(Len(a) + Len(b)) /\ ~(Len(a) + i <= Len(a))
        /\ (Len(a) + i) - Len(a) = i
    BY <1>1
  <2> QED BY <1>3, <2>1
<1> QED BY <1>2, <1>3, <1>4, <1>5 DEF Joins

(* open (envelope.rs:87-99) finds the parts where seal (envelope.rs:48-77) put them. *)
LEMMA TakenApart ==
    ASSUME NEW c, WellMade(c)
    PROVE  /\ Assemble(c) \in Seq(Int) /\ Len(Assemble(c)) = ENVELOPE_TOTAL_LEN
           /\ NonceBytes(Assemble(c)) = c.nonce
           /\ CiphertextBytes(Assemble(c)) = c.ciphertext
           /\ TagBytes(Assemble(c)) = c.tag
<1>1. PICK a \in Seq(Int), b \in Seq(Int), d \in Seq(Int) :
         c.nonce = a /\ c.ciphertext = b /\ c.tag = d
  BY DEF WellMade, Product
<1>2. PICK env : env = (a \o b) \o d
  OBVIOUS
<1>3. PICK ab : ab = a \o b
  OBVIOUS
<1>4. Len(a) = NONCE_LEN /\ Len(b) = CIPHERTEXT_LEN /\ Len(d) = TAG_LEN
  BY <1>1 DEF WellMade
<1>5. /\ ab \in Seq(Int) /\ Len(ab) = NONCE_LEN + CIPHERTEXT_LEN
      /\ \A i \in 1..NONCE_LEN : ab[i] = a[i]
      /\ \A i \in 1..CIPHERTEXT_LEN : ab[NONCE_LEN + i] = b[i]
  <2>1. Joins(ab, a, b)
    BY <1>3, ConcatJoins
  <2> QED BY <1>4, <2>1 DEF Joins
<1>6. /\ env \in Seq(Int) /\ Len(env) = ENVELOPE_TOTAL_LEN
      /\ \A i \in 1..(NONCE_LEN + CIPHERTEXT_LEN) : env[i] = ab[i]
      /\ \A i \in 1..TAG_LEN : env[(NONCE_LEN + CIPHERTEXT_LEN) + i] = d[i]
  <2>1. env = ab \o d
    BY <1>2, <1>3
  <2>2. Joins(env, ab, d)
    BY <1>5, <2>1, ConcatJoins
  <2> QED BY <1>4, <1>5, <2>2, Sizes DEF Joins
<1>7. SubSeq(env, 1, NONCE_LEN) = a
  <2>1. \A i \in 1..Len(a) : env[0 + i] = a[i]
    BY <1>4, <1>5, <1>6, Sizes
  <2>2. 0 + Len(a) <= Len(env)
    BY <1>4, <1>6, Sizes
  <2>3. SubSeq(env, 0 + 1, 0 + Len(a)) = a
    BY <1>6, <2>1, <2>2, SliceIs
  <2>4. 0 + 1 = 1 /\ 0 + Len(a) = NONCE_LEN
    BY <1>4, Sizes
  <2> QED BY <2>3, <2>4
<1>8. SubSeq(env, NONCE_LEN + 1, NONCE_LEN + CIPHERTEXT_LEN) = b
  <2>1. \A i \in 1..Len(b) : env[NONCE_LEN + i] = b[i]
    <3>1. \A i \in 1..CIPHERTEXT_LEN : NONCE_LEN + i \in 1..(NONCE_LEN + CIPHERTEXT_LEN)
      BY Sizes
    <3> QED BY <1>4, <1>5, <1>6, <3>1
  <2>2. NONCE_LEN + Len(b) <= Len(env)
    BY <1>4, <1>6, Sizes
  <2> QED BY <1>4, <1>6, <2>1, <2>2, SliceIs, Sizes
<1>9. SubSeq(env, NONCE_LEN + CIPHERTEXT_LEN + 1, ENVELOPE_TOTAL_LEN) = d
  <2>1. NONCE_LEN + CIPHERTEXT_LEN \in Nat /\ ENVELOPE_TOTAL_LEN = (NONCE_LEN + CIPHERTEXT_LEN) + Len(d)
    BY <1>4, Sizes
  <2>2. (NONCE_LEN + CIPHERTEXT_LEN) + Len(d) <= Len(env)
    BY <1>4, <1>6, Sizes
  <2> QED BY <1>4, <1>6, <2>1, <2>2, SliceIs
<1>10. Assemble(c) = env
  BY <1>1, <1>2 DEF Assemble
<1> QED
  BY <1>1, <1>6, <1>7, <1>8, <1>9, <1>10 DEF NonceBytes, CiphertextBytes, TagBytes

(* The three slices leave out no byte of an envelope. *)
LEMMA PutTogether ==
    ASSUME NEW env \in Seq(Int), Len(env) = ENVELOPE_TOTAL_LEN
    PROVE  NonceBytes(env) \o CiphertextBytes(env) \o TagBytes(env) = env
<1>1. SubSeq(env, 1, NONCE_LEN) \o SubSeq(env, NONCE_LEN + 1, NONCE_LEN + CIPHERTEXT_LEN)
        = SubSeq(env, 1, NONCE_LEN + CIPHERTEXT_LEN)
  BY Sizes, ConcatAdjacentSubSeq
<1>2. SubSeq(env, 1, NONCE_LEN + CIPHERTEXT_LEN)
        \o SubSeq(env, NONCE_LEN + CIPHERTEXT_LEN + 1, ENVELOPE_TOTAL_LEN)
        = SubSeq(env, 1, ENVELOPE_TOTAL_LEN)
  BY Sizes, ConcatAdjacentSubSeq
<1>3. SubSeq(env, 1, ENVELOPE_TOTAL_LEN) = env
  BY SubSeqFull
<1> QED
  BY <1>1, <1>2, <1>3 DEF NonceBytes, CiphertextBytes, TagBytes

(* The AEAD takes an envelope of full length only as it was assembled. *)
LEMMA AuthenticIsAssembled ==
    ASSUME WellMade(produced), NEW env \in Seq(Int), Len(env) = ENVELOPE_TOTAL_LEN,
           Authentic(NonceBytes(env), CiphertextBytes(env), TagBytes(env))
    PROVE  env = Assemble(produced)
<1>1. Assemble(produced) = NonceBytes(env) \o CiphertextBytes(env) \o TagBytes(env)
  BY DEF Authentic, Assemble
<1> QED
  BY <1>1, PutTogether

------------------------------------------------------------------------------
(* A run of marks is a sequence, none of it a changed byte. *)
LEMMA MarksAre ==
    ASSUME NEW mark \in Nat, NEW n \in Nat
    PROVE  /\ Marks(mark, n) \in Seq(Int) /\ Len(Marks(mark, n)) = n
           /\ \A i \in 1..n : Marks(mark, n)[i] >= 0
  BY DEF Marks

(* Sealing is undone byte by byte, and a changed byte is none that it makes. *)
LEMMA EncryptIs ==
    ASSUME NEW pt \in Seq(Content), Len(pt) = PLAINTEXT_LEN
    PROVE  /\ WellMade(Encrypt(pt)) /\ Decrypt(Encrypt(pt).ciphertext) = pt
           /\ \A i \in 1..ENVELOPE_TOTAL_LEN : Assemble(Encrypt(pt))[i] # Altered
<1> DEFINE a == Marks(NonceMark, NONCE_LEN)
           b == [i \in 1..Len(pt) |-> pt[i] + KeyStream]
           d == Marks(TagMark, TAG_LEN)
           c == Encrypt(pt)
<1>1. c = [nonce |-> a, ciphertext |-> b, tag |-> d]
  BY DEF Encrypt
<1>2. Len(pt) \in Nat /\ \A i \in 1..Len(pt) : pt[i] \in Int /\ pt[i] >= -1
  BY DEF Content, Padding
<1>3. /\ a \in Seq(Int) /\ Len(a) = NONCE_LEN /\ d \in Seq(Int) /\ Len(d) = TAG_LEN
      /\ \A i \in 1..NONCE_LEN : a[i] >= 0
      /\ \A i \in 1..TAG_LEN : d[i] >= 0
  <2>1. NonceMark \in Nat /\ TagMark \in Nat
    BY DEF NonceMark, TagMark
  <2> QED BY <2>1, MarksAre, Sizes
<1>4. b \in Seq(Int) /\ Len(b) = CIPHERTEXT_LEN /\ \A i \in 1..CIPHERTEXT_LEN : b[i] >= 0
  <2>1. \A i \in 1..Len(pt) : pt[i] + KeyStream \in Int /\ pt[i] + KeyStream >= 0
    BY <1>2 DEF KeyStream
  <2>2. b \in Seq(Int) /\ Len(b) = Len(pt)
    BY <1>2, <2>1
  <2> QED BY <2>1, <2>2, Sizes
<1>5. Decrypt(b) = pt
  <2>1. Len(b) = Len(pt)
    BY <1>4, Sizes
  <2>2. \A i \in 1..Len(pt) : b[i] - KeyStream = pt[i]
    BY <1>2 DEF KeyStream
  <2>3. Decrypt(b) = [i \in 1..Len(pt) |-> pt[i]]
    BY <2>1, <2>2 DEF Decrypt
  <2>4. pt = [i \in 1..Len(pt) |-> pt[i]]
    OBVIOUS
  <2> QED BY <2>3, <2>4
<1> HIDE DEF a, b, c, d
<1>6. c.nonce = a /\ c.ciphertext = b /\ c.tag = d
  BY <1>1
<1>7. WellMade(c)
  BY <1>1, <1>3, <1>4 DEF WellMade, Product
<1>8. ASSUME NEW i \in 1..ENVELOPE_TOTAL_LEN PROVE Assemble(c)[i] # Altered
  <2>1. PICK ab : ab = a \o b
    OBVIOUS
  <2>2. /\ ab \in Seq(Int) /\ Len(ab) = Len(a) + Len(b)
        /\ \A j \in 1..Len(a) : ab[j] = a[j]
        /\ \A j \in 1..Len(b) : ab[Len(a) + j] = b[j]
    BY <1>3, <1>4, <2>1, ConcatJoins DEF Joins
  <2>3. PICK env : env = ab \o d
    OBVIOUS
  <2>4. /\ \A j \in 1..Len(ab) : env[j] = ab[j]
        /\ \A j \in 1..Len(d) : env[Len(ab) + j] = d[j]
    BY <1>3, <2>2, <2>3, ConcatJoins DEF Joins
  <2>5. Assemble(c) = env
    BY <1>6, <2>1, <2>3 DEF Assemble
  <2>6. env[i] >= 0
    <3>1. CASE i <= NONCE_LEN
      <4>1. i \in 1..Len(a) /\ i \in 1..Len(ab)
        BY <1>3, <1>4, <2>2, <3>1, Sizes
      <4> QED BY <1>3, <2>2, <2>4, <4>1, <3>1
    <3>2. CASE i > NONCE_LEN /\ i <= NONCE_LEN + CIPHERTEXT_LEN
      <4>1. PICK j \in 1..CIPHERTEXT_LEN : i = NONCE_LEN + j
        <5>1. i - NONCE_LEN \in 1..CIPHERTEXT_LEN /\ i = NONCE_LEN + (i - NONCE_LEN)
          BY <3>2, Sizes
        <5> QED BY <5>1
      <4>2. i \in 1..Len(ab) /\ i = Len(a) + j /\ j \in 1..Len(b)
        BY <1>3, <1>4, <2>2, <3>2, <4>1, Sizes
      <4> QED BY <1>4, <2>2, <2>4, <4>2, <4>1
    <3>3. CASE i > NONCE_LEN + CIPHERTEXT_LEN
      <4>1. PICK j \in 1..TAG_LEN : i = (NONCE_LEN + CIPHERTEXT_LEN) + j
        <5>1. /\ i - (NONCE_LEN + CIPHERTEXT_LEN) \in 1..TAG_LEN
              /\ i = (NONCE_LEN + CIPHERTEXT_LEN) + (i - (NONCE_LEN + CIPHERTEXT_LEN))
          BY <3>3, Sizes
        <5> QED BY <5>1
      <4>2. i = Len(ab) + j /\ j \in 1..Len(d)
        BY <1>3, <1>4, <2>2, <4>1, Sizes
      <4> QED BY <1>3, <2>4, <4>1, <4>2
    <3> QED BY <3>1, <3>2, <3>3, Sizes
  <2> QED BY <2>5, <2>6 DEF Altered
<1> QED
  BY <1>5, <1>6, <1>7, <1>8 DEF c

(* A header is four bytes that say the length (envelope.rs:54-58). *)
LEMMA HeaderIs ==
    ASSUME NEW v \in Nat, NEW n \in Nat
    PROVE  /\ Header(v, n) \in Seq(Int) /\ Len(Header(v, n)) = 4
           /\ Header(v, n)[1] = v /\ Header(v, n)[2] = 0
           /\ Header(v, n)[3] \in Nat /\ Header(v, n)[4] \in Nat
           /\ Header(v, n)[3] * 256 + Header(v, n)[4] = n
<1>1. n \div 256 \in Nat /\ n % 256 \in Nat /\ (n \div 256) * 256 + (n % 256) = n
  OBVIOUS
<1> QED
  BY <1>1 DEF Header

(* So the plaintext of seal (envelope.rs:52-66) says where its payload ends. *)
LEMMA PlaintextIs ==
    ASSUME NEW n \in Nat, n <= MAX_PAYLOAD_SIZE
    PROVE  /\ Plaintext(n) \in Seq(Content) /\ Len(Plaintext(n)) = PLAINTEXT_LEN
           /\ Plaintext(n)[1] = 1 /\ Plaintext(n)[3] * 256 + Plaintext(n)[4] = n
           /\ SubSeq(Plaintext(n), 5, 4 + n) = Marks(PayloadMark, n)
<1> DEFINE k == PLAINTEXT_LEN - (4 + n)
<1>1. PICK h : h = Header(1, n)
  OBVIOUS
<1>2. PICK m : m = Marks(PayloadMark, n)
  OBVIOUS
<1>3. PICK r : r = [i \in 1..k |-> Padding]
  OBVIOUS
<1>4. k \in Nat /\ 4 + n + k = PLAINTEXT_LEN
  BY Sizes
<1> HIDE DEF k
<1>5. /\ h \in Seq(Int) /\ Len(h) = 4 /\ h[1] = 1 /\ h[3] * 256 + h[4] = n
      /\ \A i \in 1..4 : h[i] >= 0
  <2>1. /\ h \in Seq(Int) /\ Len(h) = 4 /\ h[1] = 1 /\ h[2] = 0
        /\ h[3] \in Nat /\ h[4] \in Nat /\ h[3] * 256 + h[4] = n
    BY <1>1, HeaderIs
  <2>2. \A i \in 1..4 : i = 1 \/ i = 2 \/ i = 3 \/ i = 4
    OBVIOUS
  <2> QED BY <2>1, <2>2
<1>6. m \in Seq(Int) /\ Len(m) = n /\ \A i \in 1..n : m[i] >= 0
  <2>1. PayloadMark \in Nat
    BY DEF PayloadMark
  <2> QED BY <1>2, <2>1, MarksAre
<1>7. r \in Seq(Int) /\ Len(r) = k /\ \A i \in 1..k : r[i] = -1
  BY <1>3, <1>4 DEF Padding
<1>8. PICK hm : hm = h \o m
  OBVIOUS
<1>9. /\ hm \in Seq(Int) /\ Len(hm) = 4 + n
      /\ \A i \in 1..4 : hm[i] = h[i]
      /\ \A i \in 1..n : hm[4 + i] = m[i]
  <2>1. Joins(hm, h, m)
    BY <1>5, <1>6, <1>8, ConcatJoins
  <2> QED BY <1>5, <1>6, <2>1 DEF Joins
<1>10. PICK pt : pt = hm \o r
  OBVIOUS
<1>11. /\ pt \in Seq(Int) /\ Len(pt) = 4 + n + k
       /\ \A i \in 1..(4 + n) : pt[i] = hm[i]
       /\ \A i \in 1..k : pt[(4 + n) + i] = r[i]
  <2>1. Joins(pt, hm, r)
    BY <1>7, <1>9, <1>10, ConcatJoins
  <2> QED BY <1>7, <1>9, <2>1 DEF Joins
<1>12. Plaintext(n) = pt
  BY <1>1, <1>2, <1>3, <1>8, <1>10 DEF Plaintext, k
<1>13. \A i \in 1..4 : pt[i] = h[i]
  BY <1>9, <1>11
<1>14. pt[1] = 1 /\ pt[3] * 256 + pt[4] = n
  BY <1>5, <1>13
<1>15. \A i \in 1..n : pt[4 + i] = m[i]
  <2>1. \A i \in 1..n : 4 + i \in 1..(4 + n)
    OBVIOUS
  <2> QED BY <1>9, <1>11, <2>1
<1>16. SubSeq(pt, 5, 4 + n) = m
  <2>1. 4 + Len(m) <= Len(pt) /\ \A i \in 1..Len(m) : pt[4 + i] = m[i]
    BY <1>4, <1>6, <1>11, <1>15
  <2>2. SubSeq(pt, 4 + 1, 4 + Len(m)) = m
    BY <1>6, <1>11, <2>1, SliceIs
  <2> QED BY <1>6, <2>2
<1>17. ASSUME NEW i \in 1..Len(pt) PROVE pt[i] >= -1
  <2>1. Len(pt) = 4 + n + k /\ i \in Nat /\ pt[i] \in Int
    BY <1>11
  <2>2. CASE i \in 1..4
    BY <1>5, <1>13, <2>1, <2>2
  <2>3. CASE i \in 5..(4 + n)
    <3>1. i - 4 \in 1..n /\ 4 + (i - 4) = i
      BY <2>3
    <3> QED BY <1>6, <1>15, <2>1, <3>1
  <2>4. CASE i \in (5 + n)..(4 + n + k)
    <3>1. i - (4 + n) \in 1..k /\ (4 + n) + (i - (4 + n)) = i
      BY <1>4, <2>4
    <3> QED BY <1>7, <1>11, <3>1
  <2> QED BY <1>4, <2>1, <2>2, <2>3, <2>4
<1>18. pt \in Seq(Content)
  <2>1. \A i \in 1..Len(pt) : pt[i] \in Content
    BY <1>11, <1>17 DEF Content, Padding
  <2> QED BY <1>11, <2>1
<1> QED
  BY <1>2, <1>4, <1>11, <1>12, <1>14, <1>16, <1>18

(* The plaintext of a peer that writes its own header. *)
ForeignPlaintext(v, high, low) ==
    Header(v, 256 * high + low) \o [i \in 1..(PLAINTEXT_LEN - 4) |-> Padding]

(* Whatever such a peer writes, it fills a plaintext. *)
LEMMA ForeignIs ==
    ASSUME NEW v \in 0..255, NEW high \in 0..255, NEW low \in 0..255
    PROVE  /\ ForeignPlaintext(v, high, low) \in Seq(Content)
           /\ Len(ForeignPlaintext(v, high, low)) = PLAINTEXT_LEN
<1> DEFINE n == 256 * high + low
           k == PLAINTEXT_LEN - 4
<1>1. n \in Nat /\ k \in Nat /\ v \in Nat /\ 4 + k = PLAINTEXT_LEN
  BY Sizes
<1>2. PICK h : h = Header(v, n)
  OBVIOUS
<1>3. PICK r : r = [i \in 1..k |-> Padding]
  OBVIOUS
<1> HIDE DEF n, k
<1>4. h \in Seq(Int) /\ Len(h) = 4 /\ \A i \in 1..4 : h[i] >= 0
  <2>1. /\ h \in Seq(Int) /\ Len(h) = 4 /\ h[1] = v /\ h[2] = 0
        /\ h[3] \in Nat /\ h[4] \in Nat
    BY <1>1, <1>2, HeaderIs
  <2>2. \A i \in 1..4 : i = 1 \/ i = 2 \/ i = 3 \/ i = 4
    OBVIOUS
  <2> QED BY <1>1, <2>1, <2>2
<1>5. r \in Seq(Int) /\ Len(r) = k /\ \A i \in 1..k : r[i] = -1
  BY <1>1, <1>3 DEF Padding
<1>6. PICK pt : pt = h \o r
  OBVIOUS
<1>7. /\ pt \in Seq(Int) /\ Len(pt) = 4 + k
      /\ \A i \in 1..4 : pt[i] = h[i]
      /\ \A i \in 1..k : pt[4 + i] = r[i]
  <2>1. Joins(pt, h, r)
    BY <1>4, <1>5, <1>6, ConcatJoins
  <2> QED BY <1>4, <1>5, <2>1 DEF Joins
<1>8. ASSUME NEW i \in 1..Len(pt) PROVE pt[i] >= -1
  <2>1. CASE i \in 1..4
    BY <1>4, <1>7, <2>1
  <2>2. CASE i \in 5..(4 + k)
    <3>1. i - 4 \in 1..k /\ 4 + (i - 4) = i
      BY <1>1, <2>2
    <3> QED BY <1>5, <1>7, <3>1
  <2> QED BY <1>1, <1>7, <2>1, <2>2
<1>9. pt \in Seq(Content)
  <2>1. \A i \in 1..Len(pt) : pt[i] \in Content
    BY <1>7, <1>8 DEF Content, Padding
  <2> QED BY <1>7, <2>1
<1> QED
  BY <1>1, <1>2, <1>3, <1>6, <1>7, <1>9 DEF n, k, ForeignPlaintext

------------------------------------------------------------------------------
Failure(code) == [code |-> code, payload |-> << >>]

(* What open makes of a plaintext that has authenticated (envelope.rs:102-118). *)
Parsed(pt) ==
    IF pt[1] # 1 \/ TooLong(pt[3] * 256 + pt[4]) THEN Failure("InvalidFormat")
    ELSE IF 4 + (pt[3] * 256 + pt[4]) > Len(pt) THEN Failure("Panic")
    ELSE [code |-> "Ok", payload |-> SubSeq(pt, 5, 4 + (pt[3] * 256 + pt[4]))]

(* An envelope as it was assembled is parsed, ... *)
LEMMA OpensAssembled ==
    ASSUME NEW pt \in Seq(Content), Len(pt) = PLAINTEXT_LEN, produced = Encrypt(pt)
    PROVE  Open(Assemble(produced)) = Parsed(pt)
<1>1. PICK env : env = Assemble(produced)
  OBVIOUS
<1>2. WellMade(produced) /\ Decrypt(produced.ciphertext) = pt
  BY EncryptIs
<1>3. /\ NonceBytes(env) = produced.nonce /\ CiphertextBytes(env) = produced.ciphertext
      /\ TagBytes(env) = produced.tag
  BY <1>1, <1>2, TakenApart
<1>4. Authentic(NonceBytes(env), CiphertextBytes(env), TagBytes(env))
  BY <1>2, <1>3 DEF Authentic, WellMade, Product
<1>5. Decrypt(CiphertextBytes(env)) = pt
  BY <1>2, <1>3
<1>6. Open(env) = Parsed(pt)
  BY <1>4, <1>5 DEF Open, Parsed, Failure
<1> QED BY <1>1, <1>6

(* ... and one with a byte changed, whichever, is refused. *)
LEMMA RefusesAltered ==
    ASSUME NEW pt \in Seq(Content), Len(pt) = PLAINTEXT_LEN, produced = Encrypt(pt),
           NEW i \in 1..ENVELOPE_TOTAL_LEN
    PROVE  Open([Assemble(produced) EXCEPT ![i] = Altered]) = Failure("DecryptionFailure")
<1>1. PICK a : a = Assemble(produced)
  OBVIOUS
<1>2. PICK env : env = [a EXCEPT ![i] = Altered]
  OBVIOUS
<1>3. WellMade(produced) /\ a[i] # Altered
  BY <1>1, EncryptIs
<1>4. a \in Seq(Int) /\ Len(a) = ENVELOPE_TOTAL_LEN
  BY <1>1, <1>3, TakenApart
<1>5. Altered \in Int
  BY DEF Altered
<1>6. env \in Seq(Int) /\ Len(env) = ENVELOPE_TOTAL_LEN /\ env[i] = Altered
  BY <1>2, <1>4, <1>5
<1>7. ~Authentic(NonceBytes(env), CiphertextBytes(env), TagBytes(env))
  BY <1>1, <1>3, <1>6, AuthenticIsAssembled
<1>8. Open(env) = Failure("DecryptionFailure")
  BY <1>7 DEF Open, Failure
<1> QED BY <1>1, <1>2, <1>8

(* A plaintext is parsed within its bounds (envelope.rs:105-113). *)
LEMMA ParsedInside ==
    ASSUME NEW pt \in Seq(Content), Len(pt) = PLAINTEXT_LEN
    PROVE  /\ Parsed(pt).code \in {"Ok", "InvalidFormat"}
           /\ Len(Parsed(pt).payload) <= MAX_PAYLOAD_SIZE
<1>1. PICK len : len = pt[3] * 256 + pt[4]
  OBVIOUS
<1>2. len \in Int
  <2>1. 3 \in 1..Len(pt) /\ 4 \in 1..Len(pt)
    BY Sizes
  <2>2. pt[3] \in Int /\ pt[4] \in Int
    BY <2>1 DEF Content
  <2> QED BY <1>1, <2>2
<1>3. CASE pt[1] # 1 \/ TooLong(len)
  <2>1. Parsed(pt).code = "InvalidFormat" /\ Parsed(pt).payload = << >>
    BY <1>1, <1>3 DEF Parsed, Failure
  <2>2. Len(Parsed(pt).payload) = 0
    BY <2>1
  <2>3. 0 <= MAX_PAYLOAD_SIZE
    BY Sizes
  <2> QED BY <2>1, <2>2, <2>3
<1>4. CASE ~(pt[1] # 1 \/ TooLong(len))
  <2>1. len <= MAX_PAYLOAD_SIZE
    BY <1>2, <1>4, Sizes DEF TooLong
  <2>2. ~(4 + len > Len(pt))
    BY <1>2, <2>1, Sizes
  <2>3. Parsed(pt).code = "Ok" /\ Parsed(pt).payload = SubSeq(pt, 5, 4 + len)
    BY <1>1, <1>4, <2>2 DEF Parsed
  <2>4. Len(SubSeq(pt, 5, 4 + len)) <= MAX_PAYLOAD_SIZE
    <3>1. \A i \in 5..(4 + len) : pt[i] \in Content
      <4>1. \A i \in 5..(4 + len) : i \in 1..Len(pt)
        BY <1>2, <2>2, Sizes
      <4> QED BY <4>1
    <3>2. Len(SubSeq(pt, 5, 4 + len)) = IF 5 <= 4 + len THEN (4 + len) - 5 + 1 ELSE 0
      BY <1>2, <3>1, SubSeqProperties
    <3> QED BY <1>2, <2>1, <3>2, Sizes
  <2> QED BY <2>3, <2>4
<1> QED BY <1>3, <1>4

(* The plaintext of seal is parsed back to its payload. *)
LEMMA ParsesPlaintext ==
    ASSUME NEW n \in Nat, n <= MAX_PAYLOAD_SIZE
    PROVE  Parsed(Plaintext(n)) = [code |-> "Ok", payload |-> Marks(PayloadMark, n)]
<1>1. PICK pt : pt = Plaintext(n)
  OBVIOUS
<1>2. /\ Len(pt) = PLAINTEXT_LEN /\ pt[1] = 1 /\ pt[3] * 256 + pt[4] = n
      /\ SubSeq(pt, 5, 4 + n) = Marks(PayloadMark, n)
  BY <1>1, PlaintextIs
<1>3. ~TooLong(n) /\ ~(4 + n > Len(pt))
  BY <1>2, Sizes DEF TooLong
<1> QED BY <1>1, <1>2, <1>3 DEF Parsed

------------------------------------------------------------------------------
(* What the AEAD has made is of a plaintext, of the payload when seal made it. *)
Sealed ==
    \E pt \in Seq(Content) :
        /\ Len(pt) = PLAINTEXT_LEN /\ produced = Encrypt(pt)
        /\ length >= 0 => length <= MAX_PAYLOAD_SIZE /\ pt = Plaintext(length)

(* The inductive invariant: the envelope is what was produced, or has one byte
   changed, and nothing happens to it once it was opened. *)
EInv ==
    /\ length \in Int /\ altered \in BOOLEAN
    /\ \/ envelope = << >> /\ length = -1 /\ altered = FALSE /\ opened = None
       \/ /\ Sealed
          /\ \/ altered = FALSE /\ envelope = Assemble(produced)
             \/ /\ altered = TRUE
                /\ \E i \in 1..ENVELOPE_TOTAL_LEN :
                      envelope = [Assemble(produced) EXCEPT ![i] = Altered]
          /\ opened = None \/ opened = Open(envelope)

(* What is assembled is not empty. *)
LEMMA AssembledLength ==
    ASSUME Sealed
    PROVE  /\ Assemble(produced) \in Seq(Int)
           /\ Len(Assemble(produced)) = ENVELOPE_TOTAL_LEN /\ ENVELOPE_TOTAL_LEN > 0
<1>1. WellMade(produced)
  BY EncryptIs DEF Sealed
<1> QED
  BY <1>1, TakenApart, Sizes

(* seal, open, a peer's seal and the transport keep the invariant (envelope.rs). *)
LEMMA EnvelopeStep == EInv /\ [Next]_vars => EInv'
<1> SUFFICES ASSUME EInv, [Next]_vars PROVE EInv'
  OBVIOUS
<1>1. ASSUME envelope = << >>, NEW pt \in Seq(Content), Len(pt) = PLAINTEXT_LEN,
             Encrypted(pt), length' \in Int,
             length' >= 0 => length' <= MAX_PAYLOAD_SIZE /\ pt = Plaintext(length')
      PROVE  EInv'
  <2>1. altered = FALSE /\ opened = None
    <3>1. CASE Sealed
      <4>1. Len(envelope) = 0
        BY <1>1
      <4>2. Assemble(produced) \in Seq(Int) /\ Len(Assemble(produced)) > 0
        BY <3>1, AssembledLength, Sizes
      <4>3. \/ altered = FALSE /\ opened = None
            \/ Len(envelope) = Len(Assemble(produced))
        BY <4>2 DEF EInv
      <4> QED BY <4>1, <4>2, <4>3
    <3>2. CASE ~Sealed
      BY <3>2 DEF EInv
    <3> QED BY <3>1, <3>2
  <2>2. Sealed'
    BY <1>1 DEF Sealed, Encrypted
  <2>3. altered' = FALSE /\ opened' = None /\ envelope' = Assemble(produced')
    BY <1>1, <2>1 DEF Encrypted
  <2> QED BY <1>1, <2>2, <2>3 DEF EInv, None
<1>2. ASSUME NEW n \in Lengths, seal(n) PROVE EInv'
  <2>1. n \in Nat /\ n <= MAX_PAYLOAD_SIZE /\ length' = n /\ envelope = << >>
        /\ Encrypted(Plaintext(n))
    BY <1>2, LayoutAssumption DEF seal
  <2>2. Plaintext(n) \in Seq(Content) /\ Len(Plaintext(n)) = PLAINTEXT_LEN
    BY <2>1, PlaintextIs
  <2> QED BY <1>1, <2>1, <2>2
<1>3. ASSUME NEW version \in Versions, NEW high \in HighBytes, NEW low \in LowBytes,
             ForeignSeal(version, high, low)
      PROVE  EInv'
  <2>1. version \in 0..255 /\ high \in 0..255 /\ low \in 0..255
    BY LayoutAssumption
  <2>2. PICK pt : pt = ForeignPlaintext(version, high, low)
    OBVIOUS
  <2>3. pt \in Seq(Content) /\ Len(pt) = PLAINTEXT_LEN
    BY <2>1, <2>2, ForeignIs
  <2>4. Encrypted(pt) /\ envelope = << >> /\ length' = -1
    BY <1>3, <2>2 DEF ForeignSeal, ForeignPlaintext
  <2>5. length' \in Int /\ ~(length' >= 0)
    BY <2>4
  <2> QED BY <1>1, <2>3, <2>4, <2>5
<1>4. ASSUME NEW i \in 1..Len(envelope), Damage(i) PROVE EInv'
  <2>1. altered = FALSE /\ opened = None /\ altered' = TRUE /\ opened' = None
        /\ length' = length /\ produced' = produced
        /\ envelope' = [envelope EXCEPT ![i] = Altered]
    BY <1>4 DEF Damage, EInv
  <2>2. envelope # << >>
    BY <1>4
  <2>3. Sealed /\ envelope = Assemble(produced)
    BY <2>1, <2>2 DEF EInv
  <2>4. i \in 1..ENVELOPE_TOTAL_LEN
    BY <2>3, AssembledLength
  <2>5. Sealed'
    BY <2>1, <2>3 DEF Sealed
  <2> QED BY <2>1, <2>3, <2>4, <2>5 DEF EInv
<1>5. ASSUME open PROVE EInv'
  <2>1. envelope # << >> /\ opened' = Open(envelope)
        /\ UNCHANGED <<length, produced, envelope, altered>>
    BY <1>5 DEF open
  <2>2. Sealed'
    BY <2>1 DEF EInv, Sealed
  <2>3. Open(envelope)' = Open(envelope)
    BY <2>1 DEF Open, Authentic
  <2> QED BY <2>1, <2>2, <2>3 DEF EInv
<1>6. CASE UNCHANGED vars
  <2>1. UNCHANGED <<length, produced, envelope, altered, opened>>
    BY <1>6 DEF vars
  <2>2. Open(envelope)' = Open(envelope)
    BY <2>1 DEF Open, Authentic
  <2>3. Sealed' <=> Sealed
    BY <2>1 DEF Sealed
  <2> QED BY <2>1, <2>2, <2>3 DEF EInv
<1> QED
  BY <1>2, <1>3, <1>4, <1>5, <1>6 DEF Next, SealRefused

(* So it always holds. *)
LEMMA EnvelopeInvariant == Spec => []EInv
<1>1. ASSUME Init PROVE EInv
  <2>1. length = -1 /\ envelope = << >> /\ altered = FALSE /\ opened = None
    BY <1>1 DEF Init
  <2>2. length \in Int
    BY <2>1
  <2>3. altered \in BOOLEAN
    BY <2>1, Zenon
  <2> QED BY <2>1, <2>2, <2>3, Zenon DEF EInv
<1> QED
  BY <1>1, EnvelopeStep, PTL DEF Spec

(* open (envelope.rs:82-119) gives back exactly what was given to seal
   (envelope.rs:36-79), for every length. *)
THEOREM SealedComesBack == Spec => []RoundTrip
<1>1. EInv => RoundTrip
  <2> SUFFICES ASSUME EInv, length >= 0, ~altered, opened # None
               PROVE  opened = [code |-> "Ok", payload |-> Marks(PayloadMark, length)]
    BY DEF RoundTrip
  <2>1. length \in Nat /\ length # -1
    BY DEF EInv
  <2>2. Sealed /\ envelope = Assemble(produced) /\ opened = Open(envelope)
    BY <2>1 DEF EInv
  <2>3. PICK pt \in Seq(Content) :
           /\ Len(pt) = PLAINTEXT_LEN /\ produced = Encrypt(pt)
           /\ length <= MAX_PAYLOAD_SIZE /\ pt = Plaintext(length)
    BY <2>2 DEF Sealed
  <2>4. opened = Parsed(pt)
    BY <2>2, <2>3, OpensAssembled
  <2> QED BY <2>1, <2>3, <2>4, ParsesPlaintext
<1> QED BY <1>1, EnvelopeInvariant, PTL

(* An envelope with any byte changed is refused (envelope.rs:87-101). *)
THEOREM AlteredIsRefused == Spec => []EveryByteCounts
<1>1. EInv => EveryByteCounts
  <2> SUFFICES ASSUME EInv, altered, opened # None
               PROVE  opened.code = "DecryptionFailure"
    BY DEF EveryByteCounts
  <2>1. PICK i \in 1..ENVELOPE_TOTAL_LEN :
           envelope = [Assemble(produced) EXCEPT ![i] = Altered]
    BY DEF EInv
  <2>2. Sealed /\ opened = Open(envelope)
    BY DEF EInv
  <2>3. opened = Failure("DecryptionFailure")
    BY <2>1, <2>2, RefusesAltered DEF Sealed
  <2> QED BY <2>3 DEF Failure
<1> QED BY <1>1, EnvelopeInvariant, PTL

(* No header takes open past its buffer or past the limit (envelope.rs:102-113). *)
THEOREM NeverPastBuffer == Spec => []OpenStaysInside
<1>1. EInv => OpenStaysInside
  <2> SUFFICES ASSUME EInv PROVE OpenStaysInside
    OBVIOUS
  <2>1. CASE opened = None
    <3>1. opened.code = "None" /\ Len(opened.payload) = 0
      BY <2>1 DEF None
    <3> QED BY <3>1, Sizes DEF OpenStaysInside
  <2>2. CASE opened # None
    <3>1. Sealed /\ opened = Open(envelope)
      BY <2>2 DEF EInv
    <3>2. PICK pt \in Seq(Content) : Len(pt) = PLAINTEXT_LEN /\ produced = Encrypt(pt)
      BY <3>1 DEF Sealed
    <3>3. opened = Parsed(pt) \/ opened = Failure("DecryptionFailure")
      BY <2>2, <3>1, <3>2, OpensAssembled, RefusesAltered DEF EInv
    <3>4. CASE opened = Parsed(pt)
      BY <3>2, <3>4, ParsedInside DEF OpenStaysInside
    <3>5. CASE opened = Failure("DecryptionFailure")
      <4>1. opened.code = "DecryptionFailure" /\ Len(opened.payload) = 0
        BY <3>5 DEF Failure
      <4> QED BY <4>1, Sizes DEF OpenStaysInside
    <3> QED BY <3>3, <3>4, <3>5
  <2> QED BY <2>1, <2>2
<1> QED BY <1>1, EnvelopeInvariant, PTL
===============================================================================
