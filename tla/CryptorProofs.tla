---------------------------- MODULE CryptorProofs ----------------------------
(***************************************************************************)
(* Theorems about Cryptor, for any lengths of tag, salt, nonce and chunk,  *)
(* any libraries on the two sides, and any plaintext in any segments.      *)
(***************************************************************************)
EXTENDS Cryptor, SequenceTheorems, FiniteSetTheorems, WellFoundedInduction, TLAPS

-----------------------------------------------------------------------------
(* Induction and recursion over the naturals, for sets and functions.      *)

(* If there were a number not in the set, there would be a least one.      *)
LEMMA Induction ==
    ASSUME NEW S, 0 \in S, \A n \in Nat : n \in S => n + 1 \in S
    PROVE  \A n \in Nat : n \in S
<1> DEFINE R == {p \in Nat \X Nat : p[1] < p[2]}
           T == {n \in Nat : n \notin S}
<1> SUFFICES ASSUME T # {} PROVE FALSE
  OBVIOUS
<1>1. IsWellFoundedOn(R, Nat)
  BY NatLessThanWellFounded DEF OpToRel
<1>2. T \subseteq Nat
  OBVIOUS
<1> HIDE DEF R
<1>3. PICK x \in T : \A y \in T : ~(<<y, x>> \in R)
  BY <1>1, <1>2, WFMin
<1>4. x \in Nat /\ x # 0 /\ x \notin S
  OBVIOUS
<1>5. x - 1 \in Nat /\ (x - 1) + 1 = x
  BY <1>4
<1>6. <<x - 1, x>> \in R
  BY <1>4, <1>5 DEF R
<1>7. x - 1 \in S
  BY <1>3, <1>5, <1>6
<1>8. QED
  BY <1>4, <1>5, <1>7

(* The same, as far as n.                                                  *)
LEMMA InductionTo ==
    ASSUME NEW n \in Nat, NEW S, 0 \in S, \A i \in 1..n : i - 1 \in S => i \in S
    PROVE  \A i \in 0..n : i \in S
<1> DEFINE T == {i \in Nat : i <= n => i \in S}
<1>1. 0 \in T
  OBVIOUS
<1>2. ASSUME NEW i \in Nat, i \in T
      PROVE  i + 1 \in T
  <2>1. i + 1 <= n => i + 1 \in 1..n /\ (i + 1) - 1 = i /\ i <= n
    OBVIOUS
  <2>2. QED
    BY <1>2, <2>1
<1> HIDE DEF T
<1>3. \A i \in Nat : i \in T
  BY ONLY <1>1, <1>2, Induction
<1>4. QED
  BY <1>3 DEF T

(* F makes the i-th of the values after a of the one before it.            *)
Steps(V, n, a, F)    == a \in V /\ \A i \in 1..n, x \in V : F[<<i, x>>] \in V
Iterates(V, n, a, F) ==
    \E f \in [0..n -> V] : f[0] = a /\ \A i \in 1..n : f[i] = F[<<i, f[i - 1]>>]

(* There is a function for such a recursion.                               *)
LEMMA Iterated ==
    ASSUME NEW V, NEW n \in Nat, NEW a, NEW F, Steps(V, n, a, F)
    PROVE  Iterates(V, n, a, F)
<1> USE DEF Steps, Iterates
<1> DEFINE Some(m) == \E f \in [0..m -> V] :
                         f[0] = a /\ \A i \in 1..m : f[i] = F[<<i, f[i - 1]>>]
           S == {m \in 0..n : Some(m)}
<1>1. 0 \in S
  <2> DEFINE f == [i \in 0..0 |-> a]
  <2>1. f \in [0..0 -> V] /\ f[0] = a /\ \A i \in 1..0 : f[i] = F[<<i, f[i - 1]>>]
    OBVIOUS
  <2> HIDE DEF f
  <2>2. Some(0)
    BY <2>1
  <2>3. QED
    BY <2>2
<1>2. ASSUME NEW m \in 1..n, m - 1 \in S
      PROVE  m \in S
  <2>1. m \in Nat /\ m - 1 \in Nat
    OBVIOUS
  <2>2. PICK f \in [0..(m - 1) -> V] :
           f[0] = a /\ \A i \in 1..(m - 1) : f[i] = F[<<i, f[i - 1]>>]
    BY <1>2
  <2> DEFINE g == [i \in 0..m |-> IF i = m THEN F[<<m, f[m - 1]>>] ELSE f[i]]
  <2>3. /\ g[m] = F[<<m, f[m - 1]>>]
        /\ \A i \in 0..(m - 1) : g[i] = f[i]
    BY <2>1
  <2>4. f[m - 1] \in V
    BY <2>1
  <2>5. F[<<m, f[m - 1]>>] \in V
    BY <2>4
  <2>6. g \in [0..m -> V]
    <3>1. \A i \in 0..m : i = m \/ i \in 0..(m - 1)
      BY <2>1
    <3>2. \A i \in 0..m : g[i] \in V
      BY <2>3, <2>5, <3>1
    <3>3. QED
      BY <3>2
  <2> HIDE DEF g
  <2>7. g[0] = a
    BY <2>1, <2>2, <2>3
  <2>8. ASSUME NEW i \in 1..m
        PROVE  g[i] = F[<<i, g[i - 1]>>]
    <3>1. i - 1 \in 0..(m - 1)
      BY <2>1
    <3>2. CASE i = m
      BY <2>3, <3>1, <3>2
    <3>3. CASE i # m
      <4>1. i \in 1..(m - 1) /\ i \in 0..(m - 1)
        BY <2>1, <3>3
      <4>2. QED
        BY <2>2, <2>3, <3>1, <4>1
    <3>4. QED
      BY <3>2, <3>3
  <2>9. Some(m)
    BY <2>6, <2>7, <2>8
  <2> HIDE DEF Some
  <2>10. QED
    BY <2>1, <2>9
<1> HIDE DEF S
<1>3. \A i \in 0..n : i \in S
  BY ONLY <1>1, <1>2, InductionTo, n \in Nat
<1>4. QED
  BY <1>3 DEF S

-----------------------------------------------------------------------------
(* Nonces and cipher objects.                                              *)

(* The carries of an increment.                                            *)
Carries(c, nonce) ==
    /\ c \in [0..NonceLen -> Nat] /\ c[0] = 1
    /\ \A i \in 1..NonceLen : c[i] = (c[i - 1] + nonce[i]) \div NonceBase

(* nonce_increment by its carries, which are numbers.                      *)
LEMMA Incremented ==
    ASSUME NEW nonce \in Nonce
    PROVE  \E c : /\ Carries(c, nonce)
                  /\ NonceIncrement(nonce) = [i \in 1..NonceLen |-> (c[i - 1] + nonce[i]) % NonceBase]
<1>1. NonceLen \in Nat /\ NonceBase \in Nat /\ NonceBase > 1
  BY AeadConstants
<1>2. \A i \in 1..NonceLen : nonce[i] \in Nat
  BY <1>1 DEF Nonce
<1> DEFINE F == [p \in (1..NonceLen) \X Nat |-> (p[2] + nonce[p[1]]) \div NonceBase]
           Eq(c) == c = [i \in 0..NonceLen |-> IF i = 0 THEN 1
                                               ELSE (c[i - 1] + nonce[i]) \div NonceBase]
<1>3. \A i \in 1..NonceLen, x \in Nat :
         F[<<i, x>>] = (x + nonce[i]) \div NonceBase /\ F[<<i, x>>] \in Nat
  BY <1>1, <1>2
<1> HIDE DEF F
<1>4. PICK f \in [0..NonceLen -> Nat] :
         f[0] = 1 /\ \A i \in 1..NonceLen : f[i] = F[<<i, f[i - 1]>>]
  <2>1. Steps(Nat, NonceLen, 1, F)
    BY <1>3 DEF Steps
  <2>2. Iterates(Nat, NonceLen, 1, F)
    BY <1>1, <2>1, Iterated
  <2>3. QED
    BY <2>2 DEF Iterates
<1>5. ASSUME NEW i \in 1..NonceLen
      PROVE  f[i] = (f[i - 1] + nonce[i]) \div NonceBase
  <2>1. i - 1 \in 0..NonceLen
    BY <1>1
  <2>2. f[i - 1] \in Nat
    BY <2>1
  <2>3. QED
    BY <1>3, <1>4, <2>2
<1>6. Eq(f)
  <2>1. f = [i \in 0..NonceLen |-> f[i]]
    OBVIOUS
  <2>2. \A i \in 0..NonceLen : f[i] = IF i = 0 THEN 1 ELSE (f[i - 1] + nonce[i]) \div NonceBase
    BY <1>1, <1>4, <1>5
  <2>3. QED
    BY <2>1, <2>2
<1> DEFINE c == CHOOSE c : Eq(c)
<1>7. Eq(c)
  BY <1>6
<1>8. NonceIncrement(nonce) = [i \in 1..NonceLen |-> (c[i - 1] + nonce[i]) % NonceBase]
  BY DEF NonceIncrement
<1> HIDE DEF c
<1>9. /\ c[0] = 1
      /\ \A i \in 1..NonceLen : c[i] = (c[i - 1] + nonce[i]) \div NonceBase
  BY <1>1, <1>7
<1> DEFINE S == {i \in Nat : c[i] \in Nat}
<1>10. \A i \in 0..NonceLen : i \in S
  <2>1. 0 \in S
    BY <1>9
  <2>2. ASSUME NEW i \in 1..NonceLen, i - 1 \in S
        PROVE  i \in S
    <3>1. c[i - 1] \in Nat /\ nonce[i] \in Nat /\ c[i] = (c[i - 1] + nonce[i]) \div NonceBase
      BY <1>2, <1>9, <2>2
    <3> DEFINE x == c[i - 1] + nonce[i]
    <3>2. x \in Nat
      BY <3>1
    <3> HIDE DEF x
    <3>3. x \div NonceBase \in Nat
      BY <1>1, <3>2
    <3>4. c[i] \in Nat
      BY <3>1, <3>3 DEF x
    <3>5. QED
      BY <1>1, <3>4
  <2> HIDE DEF S
  <2>3. QED
    BY <1>1, <2>1, <2>2, InductionTo
<1>11. c \in [0..NonceLen -> Nat]
  <2>1. c = [i \in 0..NonceLen |-> c[i]]
    BY <1>7
  <2>2. QED
    BY <1>10, <2>1
<1>12. QED
  BY <1>8, <1>9, <1>11 DEF Carries

(* The nonce after a nonce is one.                                         *)
LEMMA IncrementType ==
    ASSUME NEW nonce \in Nonce
    PROVE  NonceIncrement(nonce) \in Nonce
<1>1. PICK c : /\ Carries(c, nonce)
               /\ NonceIncrement(nonce) = [i \in 1..NonceLen |-> (c[i - 1] + nonce[i]) % NonceBase]
  BY Incremented
<1>2. ASSUME NEW i \in 1..NonceLen
      PROVE  (c[i - 1] + nonce[i]) % NonceBase \in 0..(NonceBase - 1)
  <2>1. /\ c[i - 1] \in Nat /\ nonce[i] \in Nat /\ NonceBase \in Nat /\ NonceBase > 1
    BY <1>1, AeadConstants, SMTT(30) DEF Carries, Nonce
  <2>2. QED
    BY <2>1
<1>3. QED
  BY <1>1, <1>2 DEF Nonce

(* cipher_ctx_init by its fields.                                          *)
LEMMA CtxInitType ==
    ASSUME NEW c \in Cipher
    PROVE  /\ CtxInit(c) \in Cipher
           /\ CtxInit(c).backend = c.backend /\ CtxInit(c).live = c.live
           /\ CtxInit(c).ctx = c.nonce
           /\ CtxInit(c).nonce = NonceIncrement(c.nonce)
BY IncrementType DEF CtxInit, Cipher

(* A new cipher object is one, with every library.                         *)
LEMMA NewType ==
    ASSUME NEW b \in Backends
    PROVE  New(b) \in Cipher
<1>1. ZeroNonce \in Nonce
  BY AeadConstants DEF ZeroNonce, Nonce
<1>2. QED
  BY <1>1, CtxInitType DEF New, Cipher

-----------------------------------------------------------------------------
(* What the encryptor has made.                                            *)

AnyBlock == [nonce : Nonce, text : Seq(Nat), size : Nat]
Count(n) == [i \in 1..n |-> i]

(* A cipher object of which no block was refused: OpenSSL's is one ahead.  *)
Sound(c) ==
    /\ c \in Cipher /\ c.live
    /\ c.backend = "openssl" => c.nonce = NonceIncrement(c.ctx)

(* How much plaintext is in the first j blocks.                            *)
Plain(bl, j) ==
    LET k == IF j % 2 = 1 THEN j - 1 ELSE j
    IN  IF k = 0 THEN 0 ELSE bl[k].text[1] + Len(bl[k].text) - 1

(* Headers and payloads take turns, and the payloads are the plaintext.    *)
Chunked(bl) ==
    /\ bl \in Seq(AnyBlock) /\ Len(bl) % 2 = 0
    /\ \A j \in 1..Len(bl) :
          IF j % 2 = 1
          THEN bl[j].text = <<Len(bl[j + 1].text)>> /\ bl[j].size = HeaderLen
          ELSE /\ Len(bl[j].text) \in 1..Mask
               /\ bl[j].size = Len(bl[j].text) + TagLen
               /\ \A i \in 1..Len(bl[j].text) : bl[j].text[i] = Plain(bl, j - 2) + i

(* The nonce that follows those of the first j blocks.                     *)
NonceAfter(bl, c, j) == IF j < Len(bl) THEN bl[j + 1].nonce ELSE InUse(c)

Chained(bl, c) ==
    /\ NonceAfter(bl, c, 0) = ZeroNonce
    /\ \A j \in 1..Len(bl) : NonceAfter(bl, c, j) = NonceIncrement(bl[j].nonce)

Made(bl, c, n) ==
    /\ Chunked(bl) /\ Sound(c) /\ Chained(bl, c)
    /\ Plain(bl, Len(bl)) = n /\ \A j \in 0..Len(bl) : Plain(bl, j) \in 0..n

EncryptInv ==
    /\ Made(blocks, cipher, Len(plain))
    /\ plain = Count(Len(plain)) /\ Len(plain) <= MaxPlain
    /\ iv_sent <=> blocks # <<>>

-----------------------------------------------------------------------------
(* What it has sent: the bytes of the salt and of the blocks, in order.    *)

(* The byte behind byte i of block b, when k of the blocks bl are sent.    *)
Follows(w, p, bl, k) ==
    LET b == w[p][1]
        i == w[p][2]
    IN  /\ b \in 1..k /\ i \in 1..bl[b].size
        /\ IF i < bl[b].size THEN p < Len(w) /\ w[p + 1] = <<b, i + 1>>
           ELSE IF b < k THEN p < Len(w) /\ w[p + 1] = <<b + 1, 1>>
           ELSE p = Len(w)

(* w is the salt and the first k of the blocks bl.                         *)
Wrote(w, bl, k) ==
    /\ w \in Seq(Byte) /\ Len(w) >= IvLen
    /\ IF k = 0 THEN Len(w) = IvLen ELSE Len(w) > IvLen /\ w[IvLen + 1] = <<1, 1>>
    /\ \A p \in (IvLen + 1)..Len(w) : Follows(w, p, bl, k)

Written(w, bl) == IF bl = <<>> THEN w = <<>> ELSE Wrote(w, bl, Len(bl))

(* u is w, at most damaged on the way.                                     *)
Arrived(w, u, harmed) ==
    /\ Len(u) = Len(w)
    /\ \A p \in 1..Len(w) :
          \/ u[p] = w[p]
          \/ harmed /\ p > IvLen /\ u[p] = <<0, 0>>

Arrives(w) == Arrived(w, wire, damaged)

-----------------------------------------------------------------------------
(* Where the decipher is.                                                  *)

(* At the end of the first n blocks, position p of the stream.             *)
At(w, p, n) ==
    /\ n \in 0..Len(blocks) /\ p \in IvLen..Len(w)
    /\ IF n = Len(blocks) THEN p = Len(w) ELSE p < Len(w) /\ w[p + 1] = <<n + 1, 1>>

(* The length of the payload that is waited for there.                     *)
Waited(n) == IF n % 2 = 1 THEN Len(blocks[n + 1].text) ELSE 0

Tuned(c, mlen, n) ==
    Sound(c) /\ InUse(c) = NonceAfter(blocks, cipher, n) /\ mlen = Waited(n)

(* It holds the bytes data, the last of the first r.                       *)
Holds(data, r) ==
    /\ data \in Seq(Byte) /\ Len(data) <= r
    /\ \A i \in 1..Len(data) : data[i] = wire[r - Len(data) + i]

Aligned(w) ==
    /\ Holds(decipher.data, read)
    /\ \E n \in 0..Len(blocks) :
          /\ At(w, read - Len(decipher.data), n)
          /\ Tuned(decipher.cipher, decipher.mlen, n)
          /\ output = Count(Plain(blocks, n))

(* Among r bytes it met a damaged one, in the block whose nonce it stays at. *)
Met(w, c, r) ==
    \E d \in (IvLen + 1)..r : wire[d] # w[d] /\ InUse(c) = blocks[w[d][1]].nonce

(* It was refused a block, and waits for that for ever.                    *)
Fallen(w) ==
    /\ decipher.mlen = 0 /\ Holds(decipher.data, read)
    /\ Met(w, decipher.cipher, read - Len(decipher.data))
    /\ \E n \in 0..Len(plain) : output = Count(n)

NoRepeat ==
    \A i, j \in 1..Len(blocks) : blocks[i].nonce = blocks[j].nonce => i = j

DecryptInv(w) ==
    /\ keyed = "none" =>
          /\ read = 0 /\ output = <<>> /\ ~raised
          /\ Sound(decipher.cipher) /\ InUse(decipher.cipher) = ZeroNonce
          /\ decipher.mlen = 0 /\ decipher.data = <<>>
    /\ keyed = "wrong" => output = <<>> /\ decipher.mlen = 0
    /\ keyed = "right" =>
          /\ read >= IvLen
          /\ \/ Aligned(w) /\ ~raised
             \/ raised /\ damaged /\ (NoRepeat => Fallen(w))

(* What a decryptor waits for, and that it has less of it.                 *)
Need(mlen) == IF mlen > 0 THEN mlen + TagLen ELSE HeaderLen

Short(mlen, data) == mlen \in 0..Mask /\ Len(data) < Need(mlen)

Sending(w) == EncryptInv /\ wire \in Seq(Byte) /\ Written(w, blocks) /\ Arrives(w)

Inv(w) ==
    /\ TypeOK /\ Short(decipher.mlen, decipher.data)
    /\ Sending(w) /\ DecryptInv(w)

StreamInv == \E w : Inv(w)

-----------------------------------------------------------------------------
(* Sequences.                                                              *)

(* The first m items of a sequence.                                        *)
LEMMA Beginning ==
    ASSUME NEW T, NEW s \in Seq(T), NEW m \in Nat, m <= Len(s)
    PROVE  /\ SubSeq(s, 1, m) \in Seq(T) /\ Len(SubSeq(s, 1, m)) = m
           /\ \A i \in 1..m : SubSeq(s, 1, m)[i] = s[i]
<1>1. \A i \in 1..m : s[i] \in T
  BY LenProperties, ElementOfSeq
<1>2. /\ SubSeq(s, 1, m) \in Seq(T)
      /\ Len(SubSeq(s, 1, m)) = IF 1 <= m THEN m - 1 + 1 ELSE 0
      /\ \A i \in 1..(m - 1 + 1) : SubSeq(s, 1, m)[i] = s[1 + i - 1]
  BY <1>1, SubSeqProperties
<1>3. QED
  BY <1>2

(* What is left of a sequence without its first m items.                   *)
LEMMA Dropped ==
    ASSUME NEW T, NEW s \in Seq(T), NEW m \in Nat, m <= Len(s)
    PROVE  /\ Drop(s, m) \in Seq(T) /\ Len(Drop(s, m)) = Len(s) - m
           /\ \A i \in 1..(Len(s) - m) : Drop(s, m)[i] = s[m + i]
<1> DEFINE n == Len(s)
<1>1. n \in Nat
  BY LenProperties
<1>2. \A i \in (m + 1)..n : s[i] \in T
  BY <1>1, ElementOfSeq
<1>3. /\ SubSeq(s, m + 1, n) \in Seq(T)
      /\ Len(SubSeq(s, m + 1, n)) = IF m + 1 <= n THEN n - (m + 1) + 1 ELSE 0
      /\ \A i \in 1..(n - (m + 1) + 1) : SubSeq(s, m + 1, n)[i] = s[m + 1 + i - 1]
  BY <1>1, <1>2, SubSeqProperties
<1> HIDE DEF n
<1>4. Len(SubSeq(s, m + 1, n)) = n - m
  <2>1. m <= n
    BY DEF n
  <2>2. QED
    BY <1>1, <1>3, <2>1
<1>5. ASSUME NEW i \in 1..(n - m)
      PROVE  SubSeq(s, m + 1, n)[i] = s[m + i]
  <2>1. i \in 1..(n - (m + 1) + 1) /\ m + 1 + i - 1 = m + i
    BY <1>1
  <2>2. QED
    BY <1>3, <2>1
<1>6. QED
  BY <1>3, <1>4, <1>5 DEF Drop, n

(* Two sequences joined.                                                   *)
LEMMA Joint ==
    ASSUME NEW T, NEW s \in Seq(T), NEW t \in Seq(T)
    PROVE  /\ s \o t \in Seq(T) /\ Len(s \o t) = Len(s) + Len(t)
           /\ Len(s) \in Nat /\ Len(t) \in Nat
           /\ \A i \in 1..Len(s) : (s \o t)[i] = s[i]
           /\ \A i \in 1..Len(t) : (s \o t)[Len(s) + i] = t[i]
<1>1. Len(s) \in Nat /\ Len(t) \in Nat
  BY LenProperties
<1>2. /\ s \o t \in Seq(T) /\ Len(s \o t) = Len(s) + Len(t)
      /\ \A i \in 1..(Len(s) + Len(t)) :
            (s \o t)[i] = IF i <= Len(s) THEN s[i] ELSE t[i - Len(s)]
  BY ConcatProperties
<1> DEFINE l == Len(s)
           m == Len(t)
<1> HIDE DEF l, m
<1>3. \A i \in 1..l : i \in 1..(l + m) /\ i <= l
  BY <1>1 DEF l, m
<1>4. \A i \in 1..m : l + i \in 1..(l + m) /\ ~(l + i <= l) /\ (l + i) - l = i
  BY <1>1 DEF l, m
<1>5. QED
  BY <1>1, <1>2, <1>3, <1>4 DEF l, m

(* Three sequences joined.                                                 *)
LEMMA Grouped ==
    ASSUME NEW T
    PROVE  \A x, y, z \in Seq(T) : (x \o y) \o z = x \o (y \o z)
BY ONLY ConcatAssociative

(* Nothing that ends in something is empty.                                *)
LEMMA NotEmpty ==
    ASSUME NEW T, NEW s \in Seq(T), NEW t \in Seq(T), t # <<>>
    PROVE  Len(s \o t) \in Nat /\ Len(s \o t) # 0
<1>1. Len(s \o t) = Len(s) + Len(t) /\ Len(s) \in Nat /\ Len(t) \in Nat
  BY Joint
<1>2. Len(t) # 0
  BY EmptySeq
<1>3. QED
  BY <1>1, <1>2

(* Of two sequences joined, either not n items are there, or what is left  *)
(* behind the first n is less than the second, if the first was shorter.   *)
LEMMA Cut ==
    ASSUME NEW T, NEW s \in Seq(T), NEW t \in Seq(T), NEW n \in Nat, Len(s) < n
    PROVE  \/ Len(s \o t) < n
           \/ /\ ~(Len(s \o t) < n) /\ n <= Len(s \o t)
              /\ Drop(s \o t, n) \in Seq(T)
              /\ Len(Drop(s \o t, n)) = Len(s \o t) - n
              /\ Len(Drop(s \o t, n)) < Len(t)
<1>1. /\ s \o t \in Seq(T) /\ Len(s \o t) = Len(s) + Len(t)
      /\ Len(s) \in Nat /\ Len(t) \in Nat
  BY Joint
<1> SUFFICES ASSUME ~(Len(s \o t) < n)
             PROVE  /\ n <= Len(s \o t)
                    /\ Drop(s \o t, n) \in Seq(T)
                    /\ Len(Drop(s \o t, n)) = Len(s \o t) - n
                    /\ Len(Drop(s \o t, n)) < Len(t)
  OBVIOUS
<1>2. n <= Len(s \o t)
  BY <1>1
<1>3. Drop(s \o t, n) \in Seq(T) /\ Len(Drop(s \o t, n)) = Len(s \o t) - n
  BY <1>1, <1>2, Dropped
<1>4. Len(Drop(s \o t, n)) < Len(t)
  BY <1>1, <1>3
<1>5. QED
  BY <1>2, <1>3, <1>4

-----------------------------------------------------------------------------
(* The decryptor, whatever it is given.                                    *)

(* cipher_ctx_init moves the nonce in use on by one, with every library.   *)
LEMMA SoundOn ==
    ASSUME NEW c, Sound(c)
    PROVE  Sound(CtxInit(c)) /\ InUse(CtxInit(c)) = NonceIncrement(InUse(c))
<1>1. c \in Cipher
  BY DEF Sound
<1>2. QED
  BY <1>1, CtxInitType DEF Sound, InUse

(* Every library begins to work under the zero nonce.                      *)
LEMMA NewSound ==
    ASSUME NEW b \in Backends
    PROVE  Sound(New(b)) /\ InUse(New(b)) = ZeroNonce
<1> DEFINE c == [backend |-> b, nonce |-> ZeroNonce, ctx |-> ZeroNonce, live |-> TRUE]
<1>1. c \in Cipher
  BY AeadConstants DEF ZeroNonce, Nonce, Cipher
<1>2. /\ c.backend = b /\ c.nonce = ZeroNonce /\ c.live = TRUE
  OBVIOUS
<1>3. New(b) = IF b = "openssl" THEN CtxInit(c) ELSE c
  BY DEF New
<1> HIDE DEF c
<1>4. /\ CtxInit(c) \in Cipher
      /\ CtxInit(c).backend = b /\ CtxInit(c).live = TRUE
      /\ CtxInit(c).ctx = ZeroNonce
      /\ CtxInit(c).nonce = NonceIncrement(ZeroNonce)
  BY <1>1, <1>2, CtxInitType
<1>5. QED
  BY <1>1, <1>2, <1>3, <1>4 DEF Sound, InUse

Usable(bl) ==
    /\ bl \in Seq(AnyBlock)
    /\ \A j \in 1..Len(bl) : bl[j].size >= 1 /\ Len(bl[j].text) >= 1

(* What opens is a block sealed under the nonce in use, and opens to its   *)
(* text.                                                                   *)
LEMMA Opened ==
    ASSUME NEW bl, Usable(bl), NEW c, NEW bytes, Opens(c, bytes, bl)
    PROVE  \E b \in 1..Len(bl) :
              /\ bl[b].nonce = InUse(c) /\ bytes = BlockBytes(b, bl[b])
              /\ TextOf(bytes, bl) = bl[b].text
              /\ bl[b].text \in Seq(Nat) /\ bl[b].text[1] \in Nat
<1>1. PICK b \in DOMAIN bl : bl[b].nonce = InUse(c) /\ bytes = BlockBytes(b, bl[b])
  BY DEF Opens
<1>2. b \in 1..Len(bl) /\ bl[b] \in AnyBlock
  BY LenProperties, ElementOfSeq DEF Usable
<1>3. bl[b].size \in Nat /\ bl[b].size >= 1 /\ bl[b].text \in Seq(Nat) /\ Len(bl[b].text) >= 1
  BY <1>2 DEF Usable, AnyBlock
<1>4. bytes[1] = <<b, 1>>
  <2>1. 1 \in 1..bl[b].size
    BY <1>3
  <2>2. QED
    BY <1>1, <2>1 DEF BlockBytes
<1>5. TextOf(bytes, bl) = bl[b].text
  BY <1>4 DEF TextOf
<1>6. bl[b].text[1] \in Nat
  <2>1. Len(bl[b].text) \in Nat
    BY <1>3, LenProperties
  <2>2. 1 \in 1..Len(bl[b].text)
    BY <1>3, <2>1
  <2>3. QED
    BY <1>3, <2>2, ElementOfSeq
<1>7. QED
  BY <1>1, <1>2, <1>3, <1>5, <1>6

(* A refusal empties the buffer, and stays at the nonce.                   *)
LEMMA Refused ==
    ASSUME NEW s \in DecryptState
    PROVE  /\ Refuse(s) \in DecryptState
           /\ Refuse(s).mlen = 0 /\ Refuse(s).data = <<>> /\ Refuse(s).ok = FALSE
           /\ InUse(Refuse(s).cipher) = InUse(s.cipher)
<1>1. /\ s.cipher \in Cipher /\ <<>> \in Seq(Byte)
  BY EmptySeq DEF DecryptState
<1> DEFINE c == [s.cipher EXCEPT !.live = s.cipher.live /\ s.cipher.backend # "openssl"]
<1>2. /\ c \in Cipher /\ c.backend = s.cipher.backend /\ c.nonce = s.cipher.nonce
      /\ c.ctx = s.cipher.ctx
  BY <1>1 DEF Cipher
<1> HIDE DEF c
<1>3. Refuse(s) = [s EXCEPT !.mlen = 0, !.data = <<>>, !.ok = FALSE, !.cipher = c]
  BY DEF Refuse, c, DecryptState
<1> DEFINE t == [s EXCEPT !.mlen = 0, !.data = <<>>, !.ok = FALSE, !.cipher = c]
<1>4. t.mlen = 0 /\ t.data = <<>> /\ t.ok = FALSE /\ t.cipher = c
  BY DEF DecryptState
<1>5. t \in DecryptState
  BY <1>1, <1>2 DEF DecryptState
<1>6. InUse(c) = InUse(s.cipher)
  BY <1>2 DEF InUse
<1> HIDE DEF t
<1>7. Refuse(s) = t
  BY <1>3 DEF t
<1>8. QED
  BY <1>4, <1>5, <1>6, <1>7

Ready(s) == s \in DecryptState /\ Short(s.mlen, s.data)

(* A step of the loop: of the segment, something is taken, or all.         *)
Takes(s, t) == Ready(t) /\ (~t.ok \/ t.left = <<>> \/ Len(t.left) < Len(s.left))

(* decrypt_chunk_payload takes the payload, waits with less than it, or    *)
(* raises.                                                                 *)
LEMMA PayloadTaken ==
    ASSUME NEW bl, Usable(bl), NEW s \in DecryptState, NEW plen \in 1..Mask,
           Len(s.data) < plen + TagLen
    PROVE  Takes(s, DecryptPayload(s, plen, bl))
<1> DEFINE bytes == s.data \o s.left
           len   == plen + TagLen
           block == SubSeq(bytes, 1, len)
           t     == DecryptPayload(s, plen, bl)
<1>1. /\ plen \in Nat /\ plen > 0 /\ TagLen \in Nat /\ len \in Nat /\ len >= 1
      /\ Len(s.data) < len /\ HeaderLen \in Nat /\ HeaderLen >= 1 /\ plen \in 0..Mask
  BY AeadConstants DEF HeaderLen
<1>2. /\ s.data \in Seq(Byte) /\ s.left \in Seq(Byte) /\ s.cipher \in Cipher
      /\ s.out \in Seq(Nat) /\ <<>> \in Seq(Byte) /\ Len(<<>>) = 0
  BY EmptySeq DEF DecryptState
<1>3. /\ bytes \in Seq(Byte) /\ Len(bytes) = Len(s.data) + Len(s.left)
      /\ Len(s.data) \in Nat /\ Len(s.left) \in Nat
  BY <1>2, Joint
<1>4. t = IF Len(bytes) < len
          THEN [s EXCEPT !.mlen = plen, !.data = bytes, !.left = <<>>]
          ELSE IF Opens(s.cipher, block, bl)
          THEN [s EXCEPT !.mlen = 0, !.data = <<>>, !.left = Drop(bytes, len),
                         !.cipher = CtxInit(s.cipher),
                         !.out = s.out \o TextOf(block, bl)]
          ELSE Refuse(s)
  BY DEF DecryptPayload
<1> HIDE DEF bytes, block, t, len
<1>5. CASE Len(bytes) < len
  <2>1. /\ t \in DecryptState /\ t.mlen = plen /\ t.data = bytes /\ t.left = <<>>
    BY <1>1, <1>2, <1>3, <1>4, <1>5 DEF DecryptState
  <2>2. QED
    BY <1>1, <1>5, <2>1 DEF Takes, Ready, Short, Need, t, len
<1>6. CASE ~(Len(bytes) < len) /\ Opens(s.cipher, block, bl)
  <2>1. TextOf(block, bl) \in Seq(Nat)
    BY <1>6, Opened
  <2>2. s.out \o TextOf(block, bl) \in Seq(Nat)
    BY <1>2, <2>1, Joint
  <2>3. Drop(bytes, len) \in Seq(Byte) /\ Len(Drop(bytes, len)) < Len(s.left)
    BY <1>1, <1>2, <1>6, Cut DEF bytes
  <2>5. CtxInit(s.cipher) \in Cipher
    BY <1>2, CtxInitType
  <2>6. /\ t \in DecryptState /\ t.mlen = 0 /\ t.data = <<>>
        /\ t.left = Drop(bytes, len)
    BY <1>2, <1>4, <1>6, <2>2, <2>3, <2>5 DEF DecryptState
  <2>8. Short(0, <<>>)
    BY <1>1, <1>2, AeadConstants DEF Short, Need
  <2>9. QED
    BY <2>3, <2>6, <2>8 DEF Takes, Ready, t
<1>7. CASE ~(Len(bytes) < len) /\ ~Opens(s.cipher, block, bl)
  <2>1. t = Refuse(s)
    BY <1>4, <1>7
  <2>2. Short(0, <<>>)
    BY <1>1, <1>2, AeadConstants DEF Short, Need
  <2>3. QED
    BY <2>1, <2>2, Refused DEF Takes, Ready, t
<1>8. QED
  BY <1>5, <1>6, <1>7

(* decrypt_chunk takes some of the segment, all of it, or raises.          *)
LEMMA ChunkTaken ==
    ASSUME NEW bl, Usable(bl), NEW s, Ready(s)
    PROVE  Takes(s, DecryptChunk(s, bl))
<1> DEFINE bytes  == s.data \o s.left
           header == SubSeq(bytes, 1, HeaderLen)
           plen   == TextOf(header, bl)[1]
           rest   == Drop(bytes, HeaderLen)
           opened == [s EXCEPT !.data = <<>>, !.left = rest,
                               !.cipher = CtxInit(s.cipher)]
           dead   == [opened EXCEPT !.ok = FALSE,
                            !.cipher.live = s.cipher.live /\ s.cipher.backend = "sodium"]
           t      == DecryptChunk(s, bl)
<1>1. /\ s \in DecryptState /\ s.mlen \in 0..Mask /\ Len(s.data) < Need(s.mlen)
      /\ s.data \in Seq(Byte) /\ s.left \in Seq(Byte) /\ s.cipher \in Cipher
      /\ <<>> \in Seq(Byte) /\ Len(<<>>) = 0
  BY EmptySeq DEF Ready, Short, DecryptState
<1>2. /\ Mask \in Nat /\ TagLen \in Nat /\ HeaderLen \in Nat /\ HeaderLen >= 1 /\ 0 \in 0..Mask
  BY AeadConstants DEF HeaderLen
<1>3. /\ bytes \in Seq(Byte) /\ Len(bytes) = Len(s.data) + Len(s.left)
      /\ Len(s.data) \in Nat /\ Len(s.left) \in Nat
  BY <1>1, Joint
<1>4. t = IF s.mlen > 0 THEN DecryptPayload(s, s.mlen, bl)
          ELSE IF Len(bytes) < HeaderLen
          THEN [s EXCEPT !.data = bytes, !.left = <<>>]
          ELSE IF ~Opens(s.cipher, header, bl) THEN Refuse(s)
          ELSE IF plen \in 1..Mask THEN DecryptPayload(opened, plen, bl)
          ELSE dead
  BY DEF DecryptChunk
<1>5. CtxInit(s.cipher) \in Cipher
  BY <1>1, CtxInitType
<1>6. Short(0, <<>>)
  BY <1>1, <1>2 DEF Short, Need
<1>7. ASSUME rest \in Seq(Byte)
      PROVE  /\ opened \in DecryptState /\ opened.data = <<>> /\ opened.left = rest
             /\ opened.mlen = s.mlen
             /\ dead \in DecryptState /\ dead.data = <<>> /\ dead.ok = FALSE
             /\ dead.mlen = s.mlen
  <2>1. /\ opened \in DecryptState /\ opened.data = <<>> /\ opened.left = rest
        /\ opened.mlen = s.mlen /\ opened.cipher = CtxInit(s.cipher)
    BY <1>1, <1>5, <1>7 DEF DecryptState
  <2> HIDE DEF opened
  <2> DEFINE c == [opened.cipher EXCEPT !.live = s.cipher.live /\ s.cipher.backend = "sodium"]
  <2>2. c \in Cipher
    BY <1>1, <1>5, <2>1 DEF Cipher
  <2>3. dead = [opened EXCEPT !.ok = FALSE, !.cipher = c]
    BY <2>1 DEF DecryptState
  <2> HIDE DEF c, dead
  <2>4. /\ dead \in DecryptState /\ dead.data = <<>> /\ dead.ok = FALSE
        /\ dead.mlen = s.mlen
    BY <2>1, <2>2, <2>3 DEF DecryptState
  <2>5. QED
    BY <2>1, <2>4
<1> HIDE DEF bytes, header, plen, rest, opened, dead, t
<1>8. CASE s.mlen > 0
  <2>1. s.mlen \in 1..Mask /\ Len(s.data) < s.mlen + TagLen
    BY <1>1, <1>2, <1>8 DEF Need
  <2>2. Takes(s, DecryptPayload(s, s.mlen, bl))
    BY <1>1, <2>1, PayloadTaken
  <2>3. QED
    BY <1>4, <1>8, <2>2 DEF t
<1>9. ASSUME ~(s.mlen > 0)
      PROVE  Takes(s, t)
  <2>1. s.mlen = 0 /\ Len(s.data) < HeaderLen
    BY <1>1, <1>2, <1>9 DEF Need
  <2>2. CASE Len(bytes) < HeaderLen
    <3>1. t = [s EXCEPT !.data = bytes, !.left = <<>>]
      BY <1>4, <1>9, <2>2
    <3>2. t \in DecryptState /\ t.mlen = 0 /\ t.data = bytes /\ t.left = <<>>
      BY <1>1, <1>3, <2>1, <3>1 DEF DecryptState
    <3>3. QED
      BY <1>2, <2>2, <3>2 DEF Takes, Ready, Short, Need
  <2>3. CASE ~(Len(bytes) < HeaderLen)
    <3>1. rest \in Seq(Byte) /\ Len(rest) < Len(s.left)
      <4>1. /\ s.data \in Seq(Byte) /\ s.left \in Seq(Byte) /\ HeaderLen \in Nat
            /\ Len(s.data) < HeaderLen
        BY <1>1, <1>2, <2>1
      <4> DEFINE u == s.data \o s.left
      <4>2. \/ Len(u) < HeaderLen
            \/ /\ Drop(u, HeaderLen) \in Seq(Byte)
               /\ Len(Drop(u, HeaderLen)) < Len(s.left)
        BY <4>1, Cut
      <4>3. QED
        BY <2>3, <4>2 DEF bytes, rest
    <3>2. CASE ~Opens(s.cipher, header, bl)
      <4>1. t = Refuse(s)
        BY <1>4, <1>9, <2>3, <3>2
      <4>2. QED
        BY <1>1, <1>6, <4>1, Refused DEF Takes, Ready
    <3>3. CASE Opens(s.cipher, header, bl) /\ plen \in 1..Mask
      <4>1. t = DecryptPayload(opened, plen, bl)
        BY <1>4, <1>9, <2>3, <3>3
      <4>2. plen \in Nat /\ plen > 0
        BY <1>2, <3>3
      <4>3. Len(opened.data) < plen + TagLen
        BY <1>1, <1>2, <1>7, <3>1, <4>2
      <4>4. Takes(opened, DecryptPayload(opened, plen, bl))
        BY <1>7, <3>1, <3>3, <4>3, PayloadTaken
      <4>5. Ready(t) /\ (~t.ok \/ t.left = <<>> \/ Len(t.left) < Len(opened.left))
        BY <4>1, <4>4 DEF Takes
      <4>6. t \in DecryptState /\ Len(t.left) \in Nat
        <5>1. t \in DecryptState
          BY <4>5 DEF Ready
        <5>2. t.left \in Seq(Byte)
          BY <5>1 DEF DecryptState
        <5>3. QED
          BY <5>1, <5>2, LenProperties
      <4>7. Len(rest) \in Nat /\ opened.left = rest
        BY <1>7, <3>1, LenProperties
      <4>8. Len(t.left) < Len(rest) => Len(t.left) < Len(s.left)
        BY <1>3, <3>1, <4>6, <4>7
      <4>9. QED
        BY <4>5, <4>7, <4>8 DEF Takes
    <3>4. CASE Opens(s.cipher, header, bl) /\ plen \notin 1..Mask
      <4>1. t = dead
        BY <1>4, <1>9, <2>3, <3>4
      <4>2. QED
        BY <1>6, <1>7, <2>1, <3>1, <4>1 DEF Takes, Ready
    <3>5. QED
      BY <3>2, <3>3, <3>4
  <2>4. QED
    BY <2>2, <2>3
<1>10. QED
  BY <1>8, <1>9 DEF t

(* The loop of decrypt: what every chunk preserves, its result has; and it *)
(* ends with an exception or with the segment used up.                     *)
LEMMA Looped ==
    ASSUME NEW bl, Usable(bl), NEW s, Ready(s), s.left # <<>>,
           NEW S, DecryptChunk(s, bl) \in S,
           \A t \in S : Ready(t) /\ t.ok /\ t.left # <<>> => DecryptChunk(t, bl) \in S
    PROVE  LET t == AeadDecrypt(s, bl)
           IN  t \in S /\ Ready(t) /\ (~t.ok \/ t.left = <<>>)
<1> DEFINE n       == Len(s.left)
           Goes(t) == t.ok /\ t.left # <<>>
           V       == {t \in DecryptState : Ready(t)}
           F       == [p \in (1..n) \X V |-> IF Goes(p[2]) THEN DecryptChunk(p[2], bl) ELSE p[2]]
           Eq(c)   == c = [i \in 0..n |->
                             IF i = 0 THEN DecryptChunk(s, bl)
                             ELSE LET t == c[i - 1]
                                  IN  IF t.ok /\ t.left # <<>> THEN DecryptChunk(t, bl) ELSE t]
<1>1. s.left \in Seq(Byte) /\ n \in Nat /\ n >= 1
  <2>1. s.left \in Seq(Byte)
    BY DEF Ready, DecryptState
  <2>2. n \in Nat
    BY <2>1, LenProperties
  <2>3. n # 0
    BY <2>1, EmptySeq
  <2>4. QED
    BY <2>1, <2>2, <2>3
<1>2. \A t : Ready(t) => t \in V
  BY DEF Ready
<1>3. \A t \in V : Ready(t)
  OBVIOUS
<1>4. Takes(s, DecryptChunk(s, bl))
  BY ChunkTaken
<1>5. Ready(DecryptChunk(s, bl))
  BY <1>4 DEF Takes
<1>6. \A t \in V : DecryptChunk(t, bl) \in V /\ Takes(t, DecryptChunk(t, bl))
  <2> TAKE t \in V
  <2>1. Takes(t, DecryptChunk(t, bl))
    BY <1>3, ChunkTaken
  <2>2. QED
    BY <1>2, <2>1 DEF Takes
<1> HIDE DEF n, V
<1>7. \A i \in 1..n, t \in V : F[<<i, t>>] = IF Goes(t) THEN DecryptChunk(t, bl) ELSE t
  OBVIOUS
<1> HIDE DEF F
<1>8. PICK f \in [0..n -> V] :
         f[0] = DecryptChunk(s, bl) /\ \A i \in 1..n : f[i] = F[<<i, f[i - 1]>>]
  <2>1. Steps(V, n, DecryptChunk(s, bl), F)
    BY <1>2, <1>5, <1>6, <1>7 DEF Steps
  <2>2. Iterates(V, n, DecryptChunk(s, bl), F)
    BY <1>1, <2>1, Iterated
  <2>3. QED
    BY <2>2 DEF Iterates
<1>9. Eq(f)
  <2>1. \A i \in 1..n : i - 1 \in 0..n
    BY <1>1
  <2>2. \A i \in 0..n : i # 0 => i \in 1..n
    BY <1>1
  <2>3. \A i \in 0..n : f[i] = IF i = 0 THEN DecryptChunk(s, bl)
                               ELSE IF Goes(f[i - 1]) THEN DecryptChunk(f[i - 1], bl) ELSE f[i - 1]
    <3> TAKE i \in 0..n
    <3>1. CASE i = 0
      BY <1>8, <3>1
    <3>2. CASE i # 0
      <4>1. i \in 1..n /\ i - 1 \in 0..n
        BY <2>1, <2>2, <3>2
      <4>2. f[i] = F[<<i, f[i - 1]>>] /\ f[i - 1] \in V
        BY <1>8, <4>1
      <4>3. F[<<i, f[i - 1]>>] = IF Goes(f[i - 1]) THEN DecryptChunk(f[i - 1], bl) ELSE f[i - 1]
        BY <1>7, <4>1, <4>2
      <4>4. QED
        BY <3>2, <4>2, <4>3
    <3>3. QED
      BY <3>1, <3>2
  <2>4. f = [i \in 0..n |-> f[i]]
    OBVIOUS
  <2>5. QED
    BY <2>3, <2>4
<1> DEFINE c == CHOOSE c : Eq(c)
<1>10. Eq(c)
  BY <1>9
<1>11. AeadDecrypt(s, bl) = c[n]
  BY DEF AeadDecrypt, n
<1> HIDE DEF c
<1>12. /\ c[0] = DecryptChunk(s, bl)
       /\ \A i \in 1..n : c[i] = IF Goes(c[i - 1]) THEN DecryptChunk(c[i - 1], bl) ELSE c[i - 1]
  BY <1>1, <1>10
<1> DEFINE R == {i \in Nat : /\ c[i] \in S /\ c[i] \in V
                             /\ Goes(c[i]) => Len(c[i].left) + i < n}
<1>13. \A i \in 0..n : i \in R
  <2>1. 0 \in R
    <3>1. c[0] \in S /\ c[0] \in V
      BY <1>2, <1>5, <1>12
    <3>2. Goes(c[0]) => Len(c[0].left) < n
      BY <1>4, <1>12 DEF Takes, n
    <3>3. Goes(c[0]) => Len(c[0].left) + 0 < n
      <4>1. c[0].left \in Seq(Byte)
        BY <1>3, <3>1 DEF Ready, DecryptState
      <4>2. Len(c[0].left) \in Nat
        BY <4>1, LenProperties
      <4>3. QED
        BY <3>2, <4>2
    <3>4. QED
      BY <3>1, <3>3
  <2>2. ASSUME NEW i \in 1..n, i - 1 \in R
        PROVE  i \in R
    <3> DEFINE t == c[i - 1]
               u == DecryptChunk(t, bl)
    <3>1. t \in S /\ t \in V /\ (Goes(t) => Len(t.left) + (i - 1) < n)
      BY <2>2
    <3>2. c[i] = IF Goes(t) THEN u ELSE t
      BY <1>12
    <3>3. Ready(t) /\ u \in V /\ Takes(t, u)
      BY <1>3, <1>6, <3>1
    <3>4. Goes(t) => u \in S
      BY <3>1, <3>3
    <3>5. Goes(t) /\ Goes(u) => Len(u.left) < Len(t.left)
      BY <3>3 DEF Takes
    <3>6. Len(t.left) \in Nat /\ Len(u.left) \in Nat
      <4>1. t.left \in Seq(Byte) /\ u.left \in Seq(Byte)
        BY <1>3, <3>3 DEF Ready, DecryptState
      <4>2. QED
        BY <4>1, LenProperties
    <3> HIDE DEF t, u
    <3>7. Goes(t) /\ Goes(u) => Len(u.left) + i < n
      BY <1>1, <3>1, <3>5, <3>6
    <3>8. c[i] \in S /\ c[i] \in V
      BY <3>1, <3>2, <3>3, <3>4
    <3>9. Goes(c[i]) => Len(c[i].left) + i < n
      BY <3>2, <3>7
    <3>10. i \in Nat
      BY <1>1
    <3>11. QED
      BY <3>8, <3>9, <3>10
  <2> HIDE DEF R
  <2>3. QED
    BY ONLY <1>1, <2>1, <2>2, InductionTo
<1>14. n \in R
  BY <1>1, <1>13
<1>15. ~Goes(c[n])
  <2>1. c[n].left \in Seq(Byte)
    BY <1>3, <1>14 DEF Ready, DecryptState
  <2>2. Len(c[n].left) \in Nat
    BY <2>1, LenProperties
  <2>3. Goes(c[n]) => Len(c[n].left) + n < n
    BY <1>14
  <2>4. QED
    BY <1>1, <2>2, <2>3
<1>16. QED
  BY <1>3, <1>11, <1>14, <1>15

-----------------------------------------------------------------------------
(* Encryption.                                                             *)

(* A function on 1..n is a sequence of n items.                            *)
LEMMA Listed ==
    ASSUME NEW T, NEW n \in Nat, NEW f \in [1..n -> T]
    PROVE  f \in Seq(T) /\ Len(f) = n
<1>1. f \in Seq(T)
  BY SeqDef
<1>2. Len(f) \in Nat /\ DOMAIN f = 1..Len(f) /\ DOMAIN f = 1..n
  BY <1>1, LenProperties
<1> DEFINE m == Len(f)
<1>3. m \in Nat /\ 1..m = 1..n
  BY <1>2
<1> HIDE DEF m
<1>4. m = n
  <2>1. m >= 1 => m \in 1..n
    BY <1>3
  <2>2. n >= 1 => n \in 1..m
    BY <1>3
  <2>3. QED
    BY <1>3, <2>1, <2>2
<1>5. QED
  BY <1>1, <1>4 DEF m

(* The items of a sequence behind the first a, as far as b.                *)
LEMMA Slice ==
    ASSUME NEW T, NEW s \in Seq(T), NEW a \in Nat, NEW b \in Nat, a <= b, b <= Len(s)
    PROVE  /\ SubSeq(s, a + 1, b) \in Seq(T) /\ Len(SubSeq(s, a + 1, b)) = b - a
           /\ \A i \in 1..(b - a) : SubSeq(s, a + 1, b)[i] = s[a + i]
<1>1. Len(s) \in Nat
  BY LenProperties
<1>2. \A i \in (a + 1)..b : i \in 1..Len(s)
  BY <1>1
<1>3. \A i \in (a + 1)..b : s[i] \in T
  BY <1>2, ElementOfSeq
<1>4. /\ SubSeq(s, a + 1, b) \in Seq(T)
      /\ Len(SubSeq(s, a + 1, b)) = IF a + 1 <= b THEN b - (a + 1) + 1 ELSE 0
      /\ \A i \in 1..(b - (a + 1) + 1) : SubSeq(s, a + 1, b)[i] = s[a + 1 + i - 1]
  BY <1>3, SubSeqProperties
<1>5. Len(SubSeq(s, a + 1, b)) = b - a
  BY <1>4
<1>6. ASSUME NEW i \in 1..(b - a)
      PROVE  SubSeq(s, a + 1, b)[i] = s[a + i]
  <2>1. i \in 1..(b - (a + 1) + 1) /\ a + 1 + i - 1 = a + i
    OBVIOUS
  <2>2. QED
    BY <1>4, <2>1
<1>7. QED
  BY <1>4, <1>5, <1>6

(* Multiplication is monotonic.                                            *)
LEMMA Times ==
    ASSUME NEW a \in Nat, NEW b \in Nat, NEW c \in Nat, a <= b
    PROVE  a * c \in Nat /\ a * c <= b * c
OBVIOUS

(* How many pieces of at most m it takes to divide n.                      *)
LEMMA RoundedUp ==
    ASSUME NEW n \in Nat, NEW m \in Nat, n >= 1, m >= 1
    PROVE  LET k == (n + m - 1) \div m
           IN  k \in Nat /\ k >= 1 /\ (k - 1) * m < n /\ n <= k * m
<1> DEFINE k == (n + m - 1) \div m
<1>1. k \in Nat
  OBVIOUS
<1>2. k * m <= n + m - 1 /\ n + m - 1 < (k + 1) * m
  OBVIOUS
<1> HIDE DEF k
<1>3. k * m \in Nat /\ (k + 1) * m = k * m + m /\ (k - 1) * m = k * m - m
  BY <1>1
<1>4. k # 0
  BY <1>1, <1>2, <1>3
<1>5. QED
  BY <1>1, <1>2, <1>3, <1>4 DEF k

(* Numbers that go on from a, and sequences of those: g tells where each   *)
(* begins.                                                                 *)
GoesOn(s, a) == s \in Seq(Nat) /\ \A k \in 1..Len(s) : s[k] = a + k

Consecutive(p, g, a, b) ==
    /\ p \in Seq(Seq(Nat)) /\ Len(p) >= 1
    /\ g[0] = a /\ g[Len(p)] = b
    /\ \A i \in 1..Len(p) :
          /\ g[i - 1] \in Nat /\ Len(p[i]) \in 1..Mask
          /\ g[i] = g[i - 1] + Len(p[i])
          /\ GoesOn(p[i], g[i - 1])

(* The pieces of consecutive data go on from one to the next, and end      *)
(* where it ends; each has 1 to Mask bytes.                                *)
LEMMA PiecesGoOn ==
    ASSUME NEW m \in Nat, NEW n \in Nat, n >= 1, NEW data, data = [i \in 1..n |-> m + i]
    PROVE  \E g : Consecutive(Pieces(data), g, m, m + n)
<1>1. Mask \in Nat /\ Mask >= 1
  BY AeadConstants
<1>2. data \in Seq(Nat) /\ Len(data) = n
  <2>1. data \in [1..n -> Nat]
    OBVIOUS
  <2>2. QED
    BY <2>1, Listed
<1>3. CASE Len(data) <= Mask
  <2> DEFINE g == [i \in 0..1 |-> IF i = 0 THEN m ELSE m + n]
             p == <<data>>
  <2>1. Pieces(data) = p
    BY <1>3 DEF Pieces
  <2>2. /\ p \in Seq(Seq(Nat)) /\ Len(p) = 1 /\ p[1] = data
    BY <1>2
  <2>3. g[0] = m /\ g[1] = m + n
    OBVIOUS
  <2> HIDE DEF g, p
  <2>4. GoesOn(data, m)
    BY <1>2 DEF GoesOn
  <2>5. ASSUME NEW i \in 1..Len(p)
        PROVE  /\ g[i - 1] \in Nat /\ Len(p[i]) \in 1..Mask
               /\ g[i] = g[i - 1] + Len(p[i])
               /\ GoesOn(p[i], g[i - 1])
    <3>1. i = 1 /\ i - 1 = 0
      BY <2>2
    <3>2. g[i - 1] = m /\ g[i] = m + n /\ p[i] = data
      BY <2>2, <2>3, <3>1
    <3>3. Len(data) \in 1..Mask /\ m + n = m + Len(data)
      BY <1>1, <1>2, <1>3
    <3>4. QED
      BY <2>4, <3>2, <3>3
  <2>6. Consecutive(p, g, m, m + n)
    BY <2>2, <2>3, <2>5 DEF Consecutive
  <2>7. QED
    BY <2>1, <2>6
<1>4. CASE ~(Len(data) <= Mask)
  <2> DEFINE K    == (n + Mask - 1) \div Mask
             e(i) == IF i * Mask < n THEN i * Mask ELSE n
             f    == [i \in 1..K |-> SubSeq(data, (i - 1) * Mask + 1, e(i))]
             g    == [i \in 0..K |-> m + e(i)]
  <2>1. Pieces(data) = f
    BY <1>2, <1>4 DEF Pieces
  <2>2. K \in Nat /\ K >= 1 /\ (K - 1) * Mask < n /\ n <= K * Mask
    BY <1>1, RoundedUp
  <2> HIDE DEF K
  <2>3. ASSUME NEW i \in 1..K
        PROVE  /\ (i - 1) * Mask \in Nat /\ i * Mask \in Nat /\ (i - 1) * Mask < n
               /\ i * Mask = (i - 1) * Mask + Mask
               /\ e(i) \in Nat /\ (i - 1) * Mask < e(i) /\ e(i) <= n
               /\ e(i) - (i - 1) * Mask <= Mask
               /\ e(i - 1) = (i - 1) * Mask
    <3>1. i \in Nat /\ i - 1 \in Nat /\ K - 1 \in Nat /\ i - 1 <= K - 1
      BY <2>2
    <3>2. (i - 1) * Mask \in Nat /\ i * Mask \in Nat /\ (i - 1) * Mask <= (K - 1) * Mask
      BY <1>1, <3>1, Times
    <3>3. i * Mask = (i - 1) * Mask + Mask
      BY <1>1, <3>1
    <3>4. (i - 1) * Mask < n
      BY <1>1, <2>2, <3>1, <3>2, Times
    <3> DEFINE x == (i - 1) * Mask
               y == i * Mask
    <3>5. x \in Nat /\ y \in Nat /\ y = x + Mask /\ x < n
      BY <3>2, <3>3, <3>4
    <3> HIDE DEF x, y
    <3>6. /\ (IF y < n THEN y ELSE n) \in Nat /\ x < (IF y < n THEN y ELSE n)
          /\ (IF y < n THEN y ELSE n) <= n /\ (IF y < n THEN y ELSE n) - x <= Mask
          /\ (IF x < n THEN x ELSE n) = x
      BY <1>1, <3>5
    <3>7. QED
      BY <3>5, <3>6 DEF x, y
  <2>4. e(0) = 0 /\ e(K) = n
    <3>1. 0 * Mask = 0
      BY <1>1
    <3>2. ~(K * Mask < n)
      BY <1>1, <2>2, Times
    <3>3. QED
      BY <3>1, <3>2
  <2>5. \A i \in 1..K : f[i] = SubSeq(data, (i - 1) * Mask + 1, e(i))
    OBVIOUS
  <2>6. \A i \in 0..K : g[i] = m + e(i)
    OBVIOUS
  <2>7. f = [i \in 1..K |-> f[i]]
    OBVIOUS
  <2> HIDE DEF e, f, g
  <2>8. ASSUME NEW i \in 1..K
        PROVE  /\ f[i] \in Seq(Nat)
               /\ g[i - 1] \in Nat /\ Len(f[i]) \in 1..Mask
               /\ g[i] = g[i - 1] + Len(f[i])
               /\ GoesOn(f[i], g[i - 1])
    <3> DEFINE a == (i - 1) * Mask
               b == e(i)
    <3>1. a \in Nat /\ b \in Nat /\ a < b /\ b <= n /\ b - a <= Mask
      BY <2>3
    <3>2. g[i] = m + b /\ g[i - 1] = m + a
      <4>1. i \in 0..K /\ i - 1 \in 0..K
        BY <2>2
      <4>2. QED
        BY <2>3, <2>6, <4>1
    <3>3. f[i] = SubSeq(data, a + 1, b)
      BY <2>5
    <3> HIDE DEF a, b
    <3>4. /\ f[i] \in Seq(Nat) /\ Len(f[i]) = b - a
          /\ \A k \in 1..(b - a) : f[i][k] = data[a + k]
      BY <1>2, <3>1, <3>3, Slice
    <3>5. ASSUME NEW k \in 1..(b - a)
          PROVE  f[i][k] = (m + a) + k
      <4>1. a + k \in 1..n
        BY <3>1
      <4>2. data[a + k] = m + (a + k)
        BY <4>1
      <4>3. f[i][k] = data[a + k]
        BY <3>4
      <4>4. m + (a + k) = (m + a) + k
        BY <3>1
      <4>5. QED
        BY <4>2, <4>3, <4>4
    <3>6. GoesOn(f[i], m + a)
      BY <3>4, <3>5 DEF GoesOn
    <3>7. Len(f[i]) \in 1..Mask /\ m + b = (m + a) + Len(f[i]) /\ m + a \in Nat
      BY <3>1, <3>4
    <3>8. QED
      BY <3>2, <3>4, <3>6, <3>7
  <2>9. f \in Seq(Seq(Nat)) /\ Len(f) = K
    <3>1. f \in [1..K -> Seq(Nat)]
      BY <2>7, <2>8
    <3>2. QED
      BY <2>2, <3>1, Listed
  <2>10. g[0] = m /\ g[K] = m + n
    BY <2>2, <2>4, <2>6
  <2>11. Consecutive(f, g, m, m + n)
    BY <2>2, <2>8, <2>9, <2>10 DEF Consecutive
  <2>12. QED
    BY <2>1, <2>11
<1>5. QED
  BY <1>3, <1>4

(* How much plaintext is in the first blocks does not depend on later      *)
(* ones.                                                                   *)
LEMMA PlainSame ==
    ASSUME NEW bl, NEW more, NEW n \in Nat, \A j \in 1..n : more[j] = bl[j], NEW j \in 0..n
    PROVE  Plain(more, j) = Plain(bl, j)
<1> DEFINE k == IF j % 2 = 1 THEN j - 1 ELSE j
<1>1. k \in 0..n
  OBVIOUS
<1> HIDE DEF k
<1>2. k # 0 => more[k] = bl[k]
  BY <1>1
<1>3. QED
  BY <1>2 DEF Plain, k

(* A cipher's nonce is one.                                                *)
LEMMA InUseType ==
    ASSUME NEW c, Sound(c)
    PROVE  InUse(c) \in Nonce
BY DEF Sound, Cipher, InUse

(* One more chunk.                                                         *)
LEMMA ChunkMade ==
    ASSUME NEW bl, NEW c, NEW m \in Nat, Made(bl, c, m),
           NEW x, GoesOn(x, m), Len(x) \in 1..Mask
    PROVE  /\ EncryptChunk(c, x) \in Seq(AnyBlock) /\ Len(EncryptChunk(c, x)) = 2
           /\ Made(bl \o EncryptChunk(c, x), CtxInit(CtxInit(c)), m + Len(x))
<1> DEFINE n    == Len(bl)
           l    == Len(x)
           h    == Block(c, <<l % (Mask + 1)>>, SizeLen)
           q    == Block(CtxInit(c), x, l)
           new  == EncryptChunk(c, x)
           d    == CtxInit(CtxInit(c))
           more == bl \o new
<1>1. /\ Mask \in Nat /\ SizeLen \in Nat /\ TagLen \in Nat
      /\ l \in Nat /\ l >= 1 /\ l <= Mask /\ x \in Seq(Nat)
  BY AeadConstants DEF GoesOn
<1>2. l % (Mask + 1) = l
  BY <1>1
<1>3. /\ bl \in Seq(AnyBlock) /\ n \in Nat /\ n % 2 = 0
  BY LenProperties DEF Made, Chunked
<1>4. /\ Sound(c) /\ Sound(CtxInit(c)) /\ Sound(d)
      /\ InUse(c) \in Nonce /\ InUse(CtxInit(c)) \in Nonce
      /\ InUse(CtxInit(c)) = NonceIncrement(InUse(c))
      /\ InUse(d) = NonceIncrement(InUse(CtxInit(c)))
  BY SoundOn, InUseType DEF Made
<1>5. /\ h \in AnyBlock /\ h.nonce = InUse(c) /\ h.text = <<l>> /\ h.size = HeaderLen
  BY <1>1, <1>2, <1>4 DEF Block, AnyBlock, HeaderLen
<1>6. /\ q \in AnyBlock /\ q.nonce = InUse(CtxInit(c)) /\ q.text = x /\ q.size = l + TagLen
  BY <1>1, <1>4 DEF Block, AnyBlock
<1>7. new = <<h, q>>
  BY DEF EncryptChunk
<1> HIDE DEF h, q, d, n
<1>8. new \in Seq(AnyBlock) /\ Len(new) = 2 /\ new[1] = h /\ new[2] = q
  BY <1>5, <1>6, <1>7
<1> HIDE DEF new
<1>9. /\ more \in Seq(AnyBlock) /\ Len(more) = n + 2
      /\ \A i \in 1..n : more[i] = bl[i]
      /\ more[n + 1] = h /\ more[n + 2] = q
  <2>1. /\ more \in Seq(AnyBlock) /\ Len(more) = n + Len(new)
        /\ \A i \in 1..n : more[i] = bl[i]
        /\ \A i \in 1..Len(new) : more[n + i] = new[i]
    <3>1. bl \in Seq(AnyBlock) /\ new \in Seq(AnyBlock)
      BY <1>3, <1>8
    <3> HIDE DEF more
    <3>2. /\ bl \o new \in Seq(AnyBlock) /\ Len(bl \o new) = Len(bl) + Len(new)
          /\ \A i \in 1..Len(bl) : (bl \o new)[i] = bl[i]
          /\ \A i \in 1..Len(new) : (bl \o new)[Len(bl) + i] = new[i]
      BY <3>1, Joint
    <3>3. QED
      BY <3>2 DEF n, more
  <2>2. 1 \in 1..Len(new) /\ 2 \in 1..Len(new)
    BY <1>8
  <2>3. QED
    BY <1>8, <2>1, <2>2
<1> HIDE DEF more
<1>10. \A j \in 0..n : Plain(more, j) = Plain(bl, j)
  BY <1>3, <1>9, PlainSame
<1>11. Plain(bl, n) = m /\ \A j \in 0..n : Plain(bl, j) \in 0..m
  BY DEF Made, n
<1>12. Plain(more, n) = m /\ Plain(more, n + 1) = m
  <2>1. Plain(more, n) = m
    <3>1. n \in 0..n
      BY <1>3
    <3>2. QED
      BY <1>10, <1>11, <3>1
  <2>2. (n + 1) % 2 = 1 /\ (n + 1) - 1 = n /\ n % 2 # 1
    BY <1>3
  <2>3. QED
    BY <2>1, <2>2 DEF Plain
<1>13. Plain(more, n + 2) = m + l
  <2>1. (n + 2) % 2 # 1 /\ n + 2 # 0
    BY <1>3
  <2>2. Plain(more, n + 2) = q.text[1] + Len(q.text) - 1
    BY <1>9, <2>1 DEF Plain
  <2>3. x[1] = m + 1
    BY <1>1 DEF GoesOn
  <2>4. (m + 1) + l - 1 = m + l
    BY <1>1
  <2>5. QED
    BY <1>6, <2>2, <2>3, <2>4
<1>14. \A j \in 0..(n + 2) : Plain(more, j) \in 0..(m + l)
  <2> TAKE j \in 0..(n + 2)
  <2>1. j \in 0..n \/ j = n + 1 \/ j = n + 2
    BY <1>3
  <2>2. j \in 0..n => Plain(more, j) \in 0..m
    BY <1>10, <1>11
  <2>3. m \in 0..(m + l) /\ m + l \in 0..(m + l) /\ \A i \in 0..m : i \in 0..(m + l)
    BY <1>1
  <2>4. QED
    BY <1>12, <1>13, <2>1, <2>2, <2>3
<1>15. Chunked(more)
  <2>1. (n + 2) % 2 = 0
    BY <1>3
  <2>2. ASSUME NEW j \in 1..(n + 2), j % 2 = 1
        PROVE  more[j].text = <<Len(more[j + 1].text)>> /\ more[j].size = HeaderLen
    <3>1. CASE j = n + 1
      <4>1. j + 1 = n + 2
        BY <1>3, <3>1
      <4>2. QED
        BY <1>5, <1>6, <1>9, <3>1, <4>1
    <3>2. CASE j # n + 1
      <4>1. j \in 1..n /\ j + 1 \in 1..n
        BY <1>3, <2>2, <3>2
      <4>2. bl[j].text = <<Len(bl[j + 1].text)>> /\ bl[j].size = HeaderLen
        BY <2>2, <4>1 DEF Made, Chunked, n
      <4>3. QED
        BY <1>9, <4>1, <4>2
    <3>3. QED
      BY <3>1, <3>2
  <2>3. ASSUME NEW j \in 1..(n + 2), j % 2 # 1
        PROVE  /\ Len(more[j].text) \in 1..Mask
               /\ more[j].size = Len(more[j].text) + TagLen
               /\ \A i \in 1..Len(more[j].text) : more[j].text[i] = Plain(more, j - 2) + i
    <3>1. CASE j = n + 2
      <4>1. j - 2 = n
        BY <1>3, <3>1
      <4>2. more[j] = q /\ more[j].text = x
        BY <1>6, <1>9, <3>1
      <4>3. QED
        BY <1>6, <1>12, <4>1, <4>2 DEF GoesOn
    <3>2. CASE j # n + 2
      <4>1. j \in 1..n /\ j - 2 \in 0..n
        BY <1>3, <2>3, <3>2
      <4>2. /\ Len(bl[j].text) \in 1..Mask
            /\ bl[j].size = Len(bl[j].text) + TagLen
            /\ \A i \in 1..Len(bl[j].text) : bl[j].text[i] = Plain(bl, j - 2) + i
        BY <2>3, <4>1 DEF Made, Chunked, n
      <4>3. Plain(more, j - 2) = Plain(bl, j - 2) /\ more[j] = bl[j]
        BY <1>9, <1>10, <4>1
      <4>4. QED
        BY <4>2, <4>3
    <3>3. QED
      BY <3>1, <3>2
  <2>4. QED
    BY <1>9, <2>1, <2>2, <2>3 DEF Chunked
<1>16. Chained(more, d)
  <2>1. \A j \in 0..n : NonceAfter(more, d, j) = NonceAfter(bl, c, j)
    <3> TAKE j \in 0..n
    <3>1. j < n + 2
      BY <1>3
    <3>2. CASE j = n
      BY <1>5, <1>9, <3>1, <3>2 DEF NonceAfter, n
    <3>3. CASE j # n
      <4>1. j + 1 \in 1..n /\ j < n
        BY <1>3, <3>3
      <4>2. QED
        BY <1>9, <3>1, <4>1 DEF NonceAfter, n
    <3>4. QED
      BY <3>2, <3>3
  <2>2. NonceAfter(more, d, 0) = ZeroNonce
    <3>1. NonceAfter(bl, c, 0) = ZeroNonce
      BY DEF Made, Chained
    <3>2. QED
      BY <1>3, <2>1, <3>1
  <2>3. ASSUME NEW j \in 1..(n + 2)
        PROVE  NonceAfter(more, d, j) = NonceIncrement(more[j].nonce)
    <3>1. CASE j = n + 2
      <4>1. ~(j < Len(more))
        BY <1>3, <1>9, <3>1
      <4>2. QED
        BY <1>4, <1>6, <1>9, <3>1, <4>1 DEF NonceAfter
    <3>2. CASE j = n + 1
      <4>1. j < Len(more) /\ j + 1 = n + 2
        BY <1>3, <1>9, <3>2
      <4>2. QED
        BY <1>4, <1>5, <1>6, <1>9, <3>2, <4>1 DEF NonceAfter
    <3>3. CASE j # n + 1 /\ j # n + 2
      <4>1. j \in 1..n /\ j \in 0..n
        BY <1>3, <3>3
      <4>2. NonceAfter(bl, c, j) = NonceIncrement(bl[j].nonce)
        BY <4>1 DEF Made, Chained, n
      <4>3. QED
        BY <1>9, <2>1, <4>1, <4>2
    <3>4. QED
      BY <3>1, <3>2, <3>3
  <2>4. QED
    BY <1>9, <2>2, <2>3 DEF Chained
<1>17. Made(more, d, m + l)
  BY <1>4, <1>9, <1>13, <1>14, <1>15, <1>16 DEF Made
<1>18. QED
  BY <1>8, <1>17 DEF more, new, d

(* One chunk is two blocks.                                                *)
LEMMA ChunkType ==
    ASSUME NEW c \in Cipher, NEW x \in Seq(Nat)
    PROVE  /\ EncryptChunk(c, x) \in Seq(AnyBlock)
           /\ CtxInit(CtxInit(c)) \in Cipher
<1>1. /\ Mask \in Nat /\ SizeLen \in Nat /\ TagLen \in Nat /\ Len(x) \in Nat
  BY AeadConstants, LenProperties
<1>2. CtxInit(c) \in Cipher /\ CtxInit(CtxInit(c)) \in Cipher
  BY CtxInitType
<1>3. InUse(c) \in Nonce /\ InUse(CtxInit(c)) \in Nonce
  BY <1>2 DEF InUse, Cipher
<1> DEFINE l == Len(x) % (Mask + 1)
<1>4. l \in Nat
  BY <1>1
<1> HIDE DEF l
<1>5. Block(c, <<l>>, SizeLen) \in AnyBlock
  BY <1>1, <1>3, <1>4 DEF Block, AnyBlock
<1>6. Block(CtxInit(c), x, Len(x)) \in AnyBlock
  BY <1>1, <1>3 DEF Block, AnyBlock
<1>7. QED
  BY <1>2, <1>5, <1>6 DEF EncryptChunk, l

(* What encrypt makes of the next n bytes of plaintext.                    *)
LEMMA Sealed ==
    ASSUME NEW bl, NEW c, NEW m \in Nat, Made(bl, c, m),
           NEW n \in Nat, n >= 1, NEW data, data = [i \in 1..n |-> m + i]
    PROVE  LET d == AeadEncrypt(c, data)
           IN  /\ d.blocks \in Seq(AnyBlock) /\ d.blocks # <<>>
               /\ Made(bl \o d.blocks, d.cipher, m + n)
<1> DEFINE p     == Pieces(data)
           K     == Len(p)
           V     == [cipher : Cipher, blocks : Seq(AnyBlock)]
           On(v, z) == [cipher |-> CtxInit(CtxInit(v.cipher)),
                        blocks |-> v.blocks \o EncryptChunk(v.cipher, z)]
           F     == [q \in (1..K) \X V |-> On(q[2], p[q[1]])]
           a     == [cipher |-> c, blocks |-> <<>>]
           Eq(u) == u = [i \in 0..K |->
                           IF i = 0 THEN [cipher |-> c, blocks |-> <<>>]
                           ELSE [cipher |-> CtxInit(CtxInit(u[i - 1].cipher)),
                                 blocks |-> u[i - 1].blocks \o EncryptChunk(u[i - 1].cipher, p[i])]]
<1>1. PICK g : Consecutive(p, g, m, m + n)
  BY PiecesGoOn
<1> HIDE DEF p
<1>2. K \in Nat /\ K >= 1 /\ \A i \in 1..K : p[i] \in Seq(Nat)
  <2>1. p \in Seq(Seq(Nat)) /\ K >= 1
    BY <1>1 DEF Consecutive
  <2>2. K \in Nat
    BY <2>1, LenProperties
  <2>3. QED
    BY <2>1, <2>2, ElementOfSeq
<1> HIDE DEF K
<1>3. c \in Cipher /\ bl \in Seq(AnyBlock)
  BY DEF Made, Sound, Chunked
<1>4. a \in V
  BY <1>3
<1>5. \A i \in 1..K, x \in V : On(x, p[i]) \in V
  <2> TAKE i \in 1..K, x \in V
  <2>1. x.cipher \in Cipher /\ x.blocks \in Seq(AnyBlock) /\ p[i] \in Seq(Nat)
    BY <1>2
  <2>2. /\ EncryptChunk(x.cipher, p[i]) \in Seq(AnyBlock)
        /\ CtxInit(CtxInit(x.cipher)) \in Cipher
    BY <2>1, ChunkType
  <2>3. x.blocks \o EncryptChunk(x.cipher, p[i]) \in Seq(AnyBlock)
    BY <2>1, <2>2, Joint
  <2>4. QED
    BY <2>2, <2>3
<1>6. \A i \in 1..K, x \in V : F[<<i, x>>] = On(x, p[i])
  OBVIOUS
<1>7. \E u : Eq(u)
  <2> HIDE DEF F, V
  <2>1. Steps(V, K, a, F)
    <3> HIDE DEF On
    <3>1. QED
      BY <1>4, <1>5, <1>6 DEF Steps
  <2>2. Iterates(V, K, a, F)
    BY <1>2, <2>1, Iterated
  <2>3. PICK f \in [0..K -> V] : f[0] = a /\ \A i \in 1..K : f[i] = F[<<i, f[i - 1]>>]
    BY <2>2 DEF Iterates
  <2>4. \A i \in 1..K : f[i] = On(f[i - 1], p[i])
    <3> TAKE i \in 1..K
    <3>1. i - 1 \in 0..K
      BY <1>2
    <3>2. f[i - 1] \in V
      BY <3>1
    <3>3. QED
      BY <1>6, <2>3, <3>2
  <2>5. \A i \in 0..K : f[i] = IF i = 0 THEN a ELSE On(f[i - 1], p[i])
    <3> TAKE i \in 0..K
    <3>1. i # 0 => i \in 1..K
      BY <1>2
    <3>2. QED
      BY <2>3, <2>4, <3>1
  <2>6. f = [i \in 0..K |-> f[i]]
    OBVIOUS
  <2>7. Eq(f)
    BY <2>5, <2>6
  <2>8. QED
    BY <2>7
<1> DEFINE u == CHOOSE u : Eq(u)
<1>8. Eq(u)
  BY <1>7
<1>9. AeadEncrypt(c, data) = u[K]
  BY DEF AeadEncrypt, p, K
<1> HIDE DEF u
<1>10. u[0] = a /\ \A i \in 1..K : u[i] = On(u[i - 1], p[i])
  <2>1. u[0] = a
    BY <1>2, <1>8
  <2>2. ASSUME NEW i \in 1..K
        PROVE  u[i] = On(u[i - 1], p[i])
    <3>1. i \in 0..K /\ i # 0
      BY <1>2
    <3>2. QED
      BY <1>8, <3>1
  <2>3. QED
    BY <2>1, <2>2
<1> DEFINE S == {i \in Nat : /\ g[i] \in Nat
                             /\ u[i].blocks \in Seq(AnyBlock)
                             /\ i > 0 => u[i].blocks # <<>>
                             /\ Made(bl \o u[i].blocks, u[i].cipher, g[i])}
<1>11. 0 \in S
  <2>1. g[0] = m /\ u[0].blocks = <<>> /\ u[0].cipher = c
    BY <1>1, <1>10 DEF Consecutive
  <2>2. bl \o u[0].blocks = bl
    BY <1>3, <2>1, ConcatEmptySeq
  <2>3. u[0].blocks \in Seq(AnyBlock)
    BY <2>1, EmptySeq
  <2>4. Made(bl \o u[0].blocks, u[0].cipher, g[0])
    BY <2>1, <2>2
  <2>5. 0 \in Nat /\ ~(0 > 0) /\ g[0] \in Nat
    BY <2>1
  <2>6. QED
    BY <2>3, <2>4, <2>5
<1>12. ASSUME NEW i \in 1..K, i - 1 \in S
       PROVE  i \in S
  <2> DEFINE x == u[i - 1]
             s == p[i]
             e == EncryptChunk(x.cipher, s)
  <2>1. /\ g[i - 1] \in Nat /\ x.blocks \in Seq(AnyBlock)
        /\ Made(bl \o x.blocks, x.cipher, g[i - 1])
    BY <1>12
  <2>2. /\ GoesOn(s, g[i - 1]) /\ Len(s) \in 1..Mask /\ g[i] = g[i - 1] + Len(s)
    BY <1>1 DEF Consecutive, K
  <2>3. u[i].cipher = CtxInit(CtxInit(x.cipher)) /\ u[i].blocks = x.blocks \o e
    <3>1. u[i] = On(x, s)
      BY <1>10
    <3>2. On(x, s).cipher = CtxInit(CtxInit(x.cipher)) /\ On(x, s).blocks = x.blocks \o e
      OBVIOUS
    <3> HIDE DEF On, x, s, e
    <3>3. QED
      BY <3>1, <3>2
  <2> HIDE DEF x, s
  <2>4. /\ e \in Seq(AnyBlock) /\ Len(e) = 2
        /\ Made((bl \o x.blocks) \o e, CtxInit(CtxInit(x.cipher)), g[i - 1] + Len(s))
    BY <2>1, <2>2, ChunkMade
  <2> HIDE DEF e
  <2>5. (bl \o x.blocks) \o e = bl \o (x.blocks \o e)
    <3>1. bl \in Seq(AnyBlock) /\ x.blocks \in Seq(AnyBlock) /\ e \in Seq(AnyBlock)
      BY <1>3, <2>1, <2>4
    <3>2. \A y, z, v \in Seq(AnyBlock) : (y \o z) \o v = y \o (z \o v)
      BY ConcatAssociative, SMTT(30)
    <3>3. QED
      BY <3>1, <3>2
  <2>6. /\ x.blocks \o e \in Seq(AnyBlock) /\ x.blocks \o e # <<>>
    <3>1. /\ x.blocks \o e \in Seq(AnyBlock) /\ Len(x.blocks \o e) = Len(x.blocks) + Len(e)
          /\ Len(x.blocks) \in Nat
      BY <2>1, <2>4, Joint
    <3>2. Len(x.blocks \o e) # 0
      BY <2>4, <3>1
    <3>3. QED
      BY <3>1, <3>2, EmptySeq
  <2>7. g[i] \in Nat /\ i \in Nat
    <3>1. Len(s) \in Nat
      BY <2>2, AeadConstants
    <3>2. QED
      BY <1>2, <2>1, <2>2, <3>1
  <2>8. Made(bl \o u[i].blocks, u[i].cipher, g[i])
    BY <2>2, <2>3, <2>4, <2>5
  <2>9. QED
    BY <2>3, <2>6, <2>7, <2>8
<1> HIDE DEF S
<1>13. \A i \in 0..K : i \in S
  BY ONLY <1>2, <1>11, <1>12, InductionTo
<1>14. K \in S
  BY <1>2, <1>13
<1>15. g[K] = m + n
  BY <1>1 DEF Consecutive, K
<1>16. /\ u[K].blocks \in Seq(AnyBlock) /\ u[K].blocks # <<>>
       /\ Made(bl \o u[K].blocks, u[K].cipher, m + n)
  BY <1>2, <1>14, <1>15 DEF S
<1>17. QED
  BY <1>9, <1>16

-----------------------------------------------------------------------------
(* What is sent.                                                           *)

(* The bytes of a block on the wire.                                       *)
LEMMA BytesOf ==
    ASSUME NEW b \in Nat, NEW block, block.size \in Nat
    PROVE  /\ BlockBytes(b, block) \in Seq(Byte) /\ Len(BlockBytes(b, block)) = block.size
           /\ \A i \in 1..block.size : BlockBytes(b, block)[i] = <<b, i>>
<1> DEFINE z == block.size
           f == BlockBytes(b, block)
<1>1. f = [i \in 1..z |-> <<b, i>>]
  BY DEF BlockBytes
<1> HIDE DEF f, z
<1>2. z \in Nat
  BY DEF z
<1>3. f \in [1..z -> Byte] /\ \A i \in 1..z : f[i] = <<b, i>>
  BY <1>1, <1>2 DEF Byte
<1>4. f \in Seq(Byte) /\ Len(f) = z
  BY <1>2, <1>3, Listed
<1>5. QED
  BY <1>3, <1>4 DEF f, z

(* One more block.                                                         *)
LEMMA BlockWritten ==
    ASSUME NEW bl, NEW k \in Nat, NEW w, Wrote(w, bl, k),
           bl[k + 1].size \in Nat, bl[k + 1].size >= 1
    PROVE  Wrote(w \o BlockBytes(k + 1, bl[k + 1]), bl, k + 1)
<1> DEFINE z == bl[k + 1].size
           b == BlockBytes(k + 1, bl[k + 1])
           L == Len(w)
           v == w \o b
<1>1. IvLen \in Nat /\ IvLen >= 1 /\ k + 1 \in Nat
  BY CryptorConstants
<1>2. /\ b \in Seq(Byte) /\ Len(b) = z /\ z \in Nat /\ z >= 1
      /\ \A i \in 1..z : b[i] = <<k + 1, i>>
  BY <1>1, BytesOf
<1> HIDE DEF b
<1>3. w \in Seq(Byte) /\ L \in Nat /\ L >= IvLen
  BY LenProperties DEF Wrote
<1>4. /\ v \in Seq(Byte) /\ Len(v) = L + z
      /\ \A p \in 1..L : v[p] = w[p]
      /\ \A i \in 1..z : v[L + i] = <<k + 1, i>>
  <2>1. /\ v \in Seq(Byte) /\ Len(v) = L + Len(b)
        /\ \A p \in 1..L : v[p] = w[p]
        /\ \A i \in 1..Len(b) : v[L + i] = b[i]
    BY <1>2, <1>3, Joint, SMTT(30)
  <2>2. QED
    BY <1>2, <2>1
<1> HIDE DEF v, z, L
<1>5. Len(v) > IvLen /\ v[IvLen + 1] = <<1, 1>>
  <2>1. Len(v) > IvLen
    BY <1>1, <1>2, <1>3, <1>4
  <2>2. CASE k = 0
    <3>1. L = IvLen
      BY <2>2 DEF Wrote, L
    <3>2. v[L + 1] = <<k + 1, 1>>
      BY <1>2, <1>4
    <3>3. QED
      BY <2>1, <2>2, <3>1, <3>2
  <2>3. CASE k # 0
    <3>1. L > IvLen /\ w[IvLen + 1] = <<1, 1>>
      BY <2>3 DEF Wrote, L
    <3>2. IvLen + 1 \in 1..L
      BY <1>1, <1>3, <3>1
    <3>3. QED
      BY <1>4, <2>1, <3>1, <3>2
  <2>4. QED
    BY <2>2, <2>3
<1>6. ASSUME NEW p \in (IvLen + 1)..(L + z)
      PROVE  Follows(v, p, bl, k + 1)
  <2>1. CASE p <= L
    <3> DEFINE c == w[p][1]
               i == w[p][2]
    <3>1. p \in (IvLen + 1)..L /\ p \in 1..L
      BY <1>1, <1>2, <1>3, <2>1
    <3>2. /\ c \in 1..k /\ i \in 1..bl[c].size
          /\ IF i < bl[c].size THEN p < L /\ w[p + 1] = <<c, i + 1>>
             ELSE IF c < k THEN p < L /\ w[p + 1] = <<c + 1, 1>>
             ELSE p = L
      BY <3>1 DEF Wrote, Follows, L
    <3>3. v[p][1] = c /\ v[p][2] = i
      BY <1>4, <3>1
    <3> HIDE DEF c, i
    <3>4. c \in 1..(k + 1) /\ c < k + 1 /\ p < L + z
      BY <1>2, <1>3, <3>1, <3>2
    <3>5. p < L => v[p + 1] = w[p + 1]
      <4>1. p < L => p + 1 \in 1..L
        BY <1>3, <3>1
      <4>2. QED
        BY <1>4, <4>1
    <3>6. ~(c < k) => c = k
      BY <3>2
    <3>7. p = L => v[p + 1] = <<k + 1, 1>>
      <4>1. 1 \in 1..z
        BY <1>2
      <4>2. QED
        BY <1>4, <4>1
    <3>8. IF i < bl[c].size THEN p < Len(v) /\ v[p + 1] = <<c, i + 1>>
          ELSE p < Len(v) /\ v[p + 1] = <<c + 1, 1>>
      BY <1>4, <3>2, <3>4, <3>5, <3>6, <3>7
    <3>9. QED
      BY <3>2, <3>3, <3>4, <3>8 DEF Follows
  <2>2. CASE ~(p <= L)
    <3> DEFINE j == p - L
    <3>1. j \in 1..z /\ p = L + j /\ k + 1 \in 1..(k + 1) /\ ~(k + 1 < k + 1)
      BY <1>1, <1>2, <1>3, <2>2
    <3> HIDE DEF j
    <3>2. v[p] = <<k + 1, j>>
      BY <1>4, <3>1
    <3>3. j < z => p < L + z /\ p + 1 = L + (j + 1) /\ j + 1 \in 1..z
      BY <1>2, <1>3, <3>1
    <3>4. j < z => p < Len(v) /\ v[p + 1] = <<k + 1, j + 1>>
      BY <1>4, <3>3
    <3>5. ~(j < z) => p = Len(v)
      BY <1>2, <1>3, <1>4, <3>1
    <3>6. QED
      BY <3>1, <3>2, <3>4, <3>5 DEF Follows, z
  <2>3. QED
    BY <2>1, <2>2
<1>7. /\ v \in Seq(Byte) /\ Len(v) >= IvLen /\ k + 1 # 0
      /\ \A p \in (IvLen + 1)..Len(v) : Follows(v, p, bl, k + 1)
  BY <1>1, <1>2, <1>3, <1>4, <1>6
<1>8. QED
  BY <1>5, <1>7 DEF Wrote, v, b

(* All the blocks of one call of encrypt.                                  *)
LEMMA JoinedWritten ==
    ASSUME blocks \in Seq(AnyBlock), NEW new \in Seq(AnyBlock),
           NEW more, more = blocks \o new,
           \A j \in 1..Len(more) : more[j].size >= 1,
           NEW w, Wrote(w, more, Len(blocks))
    PROVE  Joined(new) \in Seq(Byte) /\ Wrote(w \o Joined(new), more, Len(more))
<1> DEFINE n     == Len(blocks)
           K     == Len(new)
           V     == Seq(Byte)
           b(i)  == BlockBytes(n + i, new[i])
           F     == [q \in (1..K) \X V |-> q[2] \o b(q[1])]
           Eq(u) == u = [i \in 0..K |-> IF i = 0 THEN <<>>
                                        ELSE u[i - 1] \o BlockBytes(Len(blocks) + i, new[i])]
<1>1. /\ more \in Seq(AnyBlock) /\ Len(more) = n + K /\ n \in Nat /\ K \in Nat
      /\ \A i \in 1..K : more[n + i] = new[i]
  BY Joint
<1>2. ASSUME NEW i \in 1..K
      PROVE  /\ n + i \in Nat /\ new[i].size \in Nat /\ new[i].size >= 1
             /\ b(i) \in V
  <2>1. n + i \in Nat /\ n + i \in 1..Len(more)
    BY <1>1
  <2>2. more[n + i] = new[i] /\ more[n + i] \in AnyBlock
    BY <1>1, <2>1, ElementOfSeq
  <2>3. new[i].size \in Nat /\ new[i].size >= 1
    BY <2>1, <2>2 DEF AnyBlock
  <2>4. QED
    BY <2>1, <2>3, BytesOf
<1>3. \A i \in 1..K, x \in V : F[<<i, x>>] = x \o b(i)
  OBVIOUS
<1> HIDE DEF n, K, b, F
<1>4. \A i \in 1..K, x \in V : F[<<i, x>>] \in V
  <2> TAKE i \in 1..K, x \in V
  <2>1. b(i) \in V
    BY <1>2
  <2>2. x \o b(i) \in V
    BY <2>1, Joint
  <2>3. QED
    BY <1>3, <2>2
<1>5. \E u : Eq(u)
  <2>1. Steps(V, K, <<>>, F)
    BY <1>4, EmptySeq DEF Steps
  <2>2. Iterates(V, K, <<>>, F)
    BY <1>1, <2>1, Iterated
  <2>3. PICK f \in [0..K -> V] : f[0] = <<>> /\ \A i \in 1..K : f[i] = F[<<i, f[i - 1]>>]
    BY <2>2 DEF Iterates
  <2>4. \A i \in 0..K : f[i] = IF i = 0 THEN <<>> ELSE f[i - 1] \o b(i)
    <3> TAKE i \in 0..K
    <3>1. CASE i = 0
      BY <2>3, <3>1
    <3>2. CASE i # 0
      <4>1. i \in 1..K /\ i - 1 \in 0..K
        BY <1>1, <3>2
      <4>2. f[i - 1] \in V
        BY <4>1
      <4>3. QED
        BY <1>3, <2>3, <3>2, <4>1, <4>2
    <3>3. QED
      BY <3>1, <3>2
  <2>5. f = [i \in 0..K |-> f[i]]
    OBVIOUS
  <2>6. Eq(f)
    BY <2>4, <2>5 DEF b, n
  <2>7. QED
    BY <2>6
<1> DEFINE u == CHOOSE u : Eq(u)
<1>6. Eq(u)
  BY <1>5
<1>7. Joined(new) = u[K]
  BY DEF Joined, K
<1> HIDE DEF u
<1>8. u[0] = <<>>
  BY <1>1, <1>6
<1>9. ASSUME NEW i \in 1..K
      PROVE  u[i] = u[i - 1] \o b(i)
  <2>1. i \in 0..K /\ i # 0
    BY <1>1
  <2>2. QED
    BY <1>6, <2>1 DEF b, n
<1> DEFINE S == {i \in Nat : u[i] \in V /\ Wrote(w \o u[i], more, n + i)}
<1>10. w \in V
  BY DEF Wrote
<1>11. 0 \in S
  <2>1. w \o u[0] = w
    BY <1>8, <1>10, ConcatEmptySeq
  <2>2. Wrote(w \o u[0], more, n + 0)
    BY <1>1, <2>1 DEF n
  <2>3. u[0] \in V
    BY <1>8, EmptySeq
  <2>4. QED
    BY <2>2, <2>3
<1>12. ASSUME NEW i \in 1..K, i - 1 \in S
       PROVE  i \in S
  <2> DEFINE k == n + (i - 1)
             x == u[i - 1]
             z == w \o x
  <2>1. x \in V /\ Wrote(z, more, k)
    BY <1>12
  <2>2. k \in Nat /\ k + 1 = n + i /\ i \in Nat
    BY <1>1
  <2> HIDE DEF k, x, z
  <2>3. /\ more[k + 1] = new[i] /\ more[k + 1].size \in Nat /\ more[k + 1].size >= 1
    BY <1>1, <1>2, <2>2
  <2>4. Wrote(z \o BlockBytes(k + 1, more[k + 1]), more, k + 1)
    BY <2>1, <2>2, <2>3, BlockWritten
  <2>5. Wrote(z \o b(i), more, n + i)
    BY <2>2, <2>3, <2>4 DEF b
  <2>6. b(i) \in V
    BY <1>2
  <2>7. z \o b(i) = w \o (x \o b(i)) /\ x \o b(i) \in V
    <3>1. \A p, q, r \in V : (p \o q) \o r = p \o (q \o r)
      BY ConcatAssociative, SMTT(30)
    <3>2. (w \o x) \o b(i) = w \o (x \o b(i))
      BY <1>10, <2>1, <2>6, <3>1
    <3>3. x \o b(i) \in V
      BY <2>1, <2>6, Joint
    <3>4. QED
      BY <3>2, <3>3 DEF z
  <2>8. u[i] = x \o b(i)
    BY <1>9 DEF x
  <2>9. QED
    BY <2>2, <2>5, <2>7, <2>8
<1> HIDE DEF S
<1>13. \A i \in 0..K : i \in S
  BY ONLY <1>1, <1>11, <1>12, InductionTo
<1>14. K \in S
  BY <1>1, <1>13
<1>15. QED
  BY <1>1, <1>7, <1>14 DEF S

(* The salt alone is the stream before the first block.                    *)
LEMMA IvWritten ==
    ASSUME NEW bl
    PROVE  Wrote(Iv, bl, 0)
<1>1. IvLen \in Nat
  BY CryptorConstants
<1>2. Iv \in [1..IvLen -> Byte]
  BY <1>1 DEF Iv, Byte
<1>3. Iv \in Seq(Byte) /\ Len(Iv) = IvLen
  BY <1>1, <1>2, Listed
<1>4. \A p \in (IvLen + 1)..Len(Iv) : FALSE
  BY <1>1, <1>3
<1>5. QED
  BY <1>1, <1>3, <1>4 DEF Wrote

(* What was sent of the first k blocks does not depend on later ones.      *)
LEMMA WroteSame ==
    ASSUME NEW bl, NEW more, NEW k \in Nat, NEW w, Wrote(w, bl, k),
           \A j \in 1..k : more[j] = bl[j]
    PROVE  Wrote(w, more, k)
<1>1. ASSUME NEW p \in (IvLen + 1)..Len(w)
      PROVE  Follows(w, p, more, k)
  BY DEF Wrote, Follows
<1>2. QED
  BY <1>1 DEF Wrote

(* No block that the encryptor makes is empty.                             *)
LEMMA ChunkedUsable ==
    ASSUME NEW bl, Chunked(bl)
    PROVE  /\ Usable(bl) /\ Len(bl) \in Nat
           /\ \A j \in 1..Len(bl) : bl[j].size \in Nat /\ bl[j].size >= 1 /\ bl[j] \in AnyBlock
<1>1. bl \in Seq(AnyBlock) /\ Len(bl) \in Nat
  BY LenProperties DEF Chunked
<1>2. /\ HeaderLen \in Nat /\ HeaderLen >= 1 /\ TagLen \in Nat /\ Mask \in Nat
  BY AeadConstants DEF HeaderLen
<1>3. ASSUME NEW j \in 1..Len(bl)
      PROVE  /\ bl[j].size \in Nat /\ bl[j].size >= 1 /\ Len(bl[j].text) >= 1
             /\ bl[j] \in AnyBlock
  <2>1. bl[j] \in AnyBlock
    BY <1>1, ElementOfSeq
  <2>2. CASE j % 2 = 1
    <3>1. bl[j].text = <<Len(bl[j + 1].text)>> /\ bl[j].size = HeaderLen
      BY <2>2 DEF Chunked
    <3>2. Len(bl[j].text) = 1
      BY <3>1
    <3>3. QED
      BY <1>2, <2>1, <3>1, <3>2
  <2>3. CASE j % 2 # 1
    <3>1. Len(bl[j].text) \in 1..Mask /\ bl[j].size = Len(bl[j].text) + TagLen
      BY <2>3 DEF Chunked
    <3>2. QED
      BY <1>2, <2>1, <3>1
  <2>4. QED
    BY <2>2, <2>3
<1>4. QED
  BY <1>1, <1>3 DEF Usable

-----------------------------------------------------------------------------
(* The encrypting side.                                                    *)

(* Counting goes on.                                                       *)
LEMMA CountOn ==
    ASSUME NEW m \in Nat, NEW n \in Nat, NEW s, s \in Seq(Nat), Len(s) = n,
           \A i \in 1..n : s[i] = m + i
    PROVE  Count(m) \o s = Count(m + n)
<1>1. \A k \in Nat : Count(k) \in Seq(Nat) /\ Len(Count(k)) = k /\ \A i \in 1..k : Count(k)[i] = i
  <2> TAKE k \in Nat
  <2>1. Count(k) \in [1..k -> Nat]
    BY DEF Count
  <2>2. QED
    BY <2>1, Listed DEF Count
<1>2. /\ Count(m) \o s \in Seq(Nat) /\ Len(Count(m) \o s) = m + n
      /\ \A i \in 1..m : (Count(m) \o s)[i] = i
      /\ \A i \in 1..n : (Count(m) \o s)[m + i] = m + i
  <2> DEFINE c == Count(m)
  <2>1. c \in Seq(Nat) /\ Len(c) = m /\ \A i \in 1..m : c[i] = i
    BY <1>1
  <2> HIDE DEF c
  <2>2. /\ c \o s \in Seq(Nat) /\ Len(c \o s) = Len(c) + Len(s)
        /\ \A i \in 1..Len(c) : (c \o s)[i] = c[i]
        /\ \A i \in 1..Len(s) : (c \o s)[Len(c) + i] = s[i]
    <3>1. \A x, y \in Seq(Nat) :
             /\ x \o y \in Seq(Nat) /\ Len(x \o y) = Len(x) + Len(y)
             /\ \A i \in 1..Len(x) : (x \o y)[i] = x[i]
             /\ \A i \in 1..Len(y) : (x \o y)[Len(x) + i] = y[i]
      BY Joint
    <3>2. c \in Seq(Nat) /\ s \in Seq(Nat)
      BY <2>1
    <3>3. QED
      BY <3>1, <3>2
  <2>3. QED
    BY <2>1, <2>2 DEF c
<1> DEFINE t == Count(m) \o s
<1>3. \A i \in 1..(m + n) : t[i] = i
  <2> TAKE i \in 1..(m + n)
  <2>1. i \in 1..m \/ (i - m \in 1..n /\ i = m + (i - m))
    OBVIOUS
  <2>2. QED
    BY <1>2, <2>1
<1>4. m + n \in Nat /\ t \in Seq(Nat) /\ Len(t) = m + n
  BY <1>2
<1> HIDE DEF t
<1>5. t = Count(m + n)
  <2> DEFINE k == m + n
             c == Count(k)
  <2>1. c \in Seq(Nat) /\ Len(c) = k /\ \A i \in 1..k : c[i] = i
    BY <1>1, <1>4
  <2>2. t \in Seq(Nat) /\ Len(t) = k /\ \A i \in 1..k : t[i] = i
    BY <1>3, <1>4
  <2> HIDE DEF c, k
  <2>3. Len(t) = Len(c) /\ \A i \in 1..Len(t) : t[i] = c[i]
    BY <2>1, <2>2
  <2>4. t = c
    BY <2>1, <2>2, <2>3, SeqEqual
  <2>5. QED
    BY <2>4 DEF c, k
<1>6. QED
  BY <1>5 DEF t

(* encrypt makes more blocks of what goes on in the plaintext, and sends   *)
(* them behind what it sent before, the salt ahead of the first.           *)
LEMMA Encrypted ==
    ASSUME EncryptInv, NEW n \in 1..MaxPlain, Encrypt(n)
    PROVE  /\ EncryptInv' /\ Len(plain) <= Len(plain')
           /\ \E new \in Seq(AnyBlock) :
                 /\ new # <<>> /\ blocks' = blocks \o new
                 /\ wire' = wire \o (IF blocks # <<>> THEN <<>> ELSE Iv) \o Joined(new)
<1> DEFINE m    == Len(plain)
           data == [i \in 1..n |-> Len(plain) + i]
           d    == AeadEncrypt(cipher, data)
<1>1. MaxPlain \in Nat /\ n \in Nat /\ n >= 1
  BY CryptorConstants
<1>2. m \in Nat
  <2>1. Plain(blocks, Len(blocks)) = m /\ \A j \in 0..Len(blocks) : Plain(blocks, j) \in 0..m
    BY DEF EncryptInv, Made
  <2>2. Len(blocks) \in Nat
    BY ChunkedUsable DEF EncryptInv, Made
  <2>3. m \in 0..m
    BY <2>1, <2>2
  <2>4. QED
    BY <2>3
<1>3. Made(blocks, cipher, m)
  BY DEF EncryptInv
<1> HIDE DEF m
<1>4. /\ d.blocks \in Seq(AnyBlock) /\ d.blocks # <<>>
      /\ Made(blocks \o d.blocks, d.cipher, m + n)
  BY <1>1, <1>2, <1>3, Sealed DEF m
<1>5. /\ m + n <= MaxPlain /\ plain' = plain \o data
      /\ cipher' = d.cipher /\ blocks' = blocks \o d.blocks /\ iv_sent' = TRUE
      /\ wire' = wire \o (IF iv_sent THEN <<>> ELSE Iv) \o Joined(d.blocks)
  BY DEF Encrypt, m
<1>6. data \in Seq(Nat) /\ Len(data) = n /\ \A i \in 1..n : data[i] = m + i
  <2>1. data \in [1..n -> Nat]
    BY <1>2 DEF m
  <2>2. QED
    BY <1>1, <2>1, Listed DEF m
<1> HIDE DEF d, data
<1>7. plain' = Count(m + n)
  <2>1. plain = Count(m)
    BY DEF EncryptInv, m
  <2>2. Count(m) \o data = Count(m + n)
    BY <1>1, <1>2, <1>6, CountOn
  <2>3. QED
    BY <1>5, <2>1, <2>2
<1>8. Len(plain') = m + n
  <2>1. Count(m + n) \in [1..(m + n) -> Nat]
    BY <1>1, <1>2 DEF Count
  <2>2. Len(Count(m + n)) = m + n
    BY <1>1, <1>2, <2>1, Listed
  <2>3. QED
    BY <1>7, <2>2
<1>9. blocks' # <<>>
  <2>1. blocks \in Seq(AnyBlock)
    BY <1>3 DEF Made, Chunked
  <2>2. /\ blocks \o d.blocks \in Seq(AnyBlock)
        /\ Len(blocks \o d.blocks) = Len(blocks) + Len(d.blocks)
        /\ Len(blocks) \in Nat /\ Len(d.blocks) \in Nat
    BY <1>4, <2>1, Joint
  <2>3. Len(d.blocks) # 0
    BY <1>4, EmptySeq
  <2>4. Len(blocks') # 0
    BY <1>5, <2>2, <2>3
  <2>5. QED
    BY <2>4, EmptySeq
<1>10. EncryptInv'
  <2>1. Made(blocks', cipher', Len(plain'))
    BY <1>4, <1>5, <1>8
  <2>2. plain' = Count(Len(plain')) /\ Len(plain') <= MaxPlain
    BY <1>5, <1>7, <1>8
  <2>3. QED
    BY <1>5, <1>9, <2>1, <2>2 DEF EncryptInv
<1>11. iv_sent <=> blocks # <<>>
  BY DEF EncryptInv
<1>12. (IF iv_sent THEN <<>> ELSE Iv) = (IF blocks # <<>> THEN <<>> ELSE Iv)
  BY <1>11
<1>13. Len(plain) <= Len(plain')
  BY <1>1, <1>2, <1>8 DEF m
<1>14. QED
  BY <1>4, <1>5, <1>10, <1>12, <1>13

(* Both what is sent and what arrives only grow.                           *)
Grown(w, v) ==
    /\ wire' \in Seq(Byte) /\ v \in Seq(Byte) /\ Len(wire') = Len(v) /\ Len(w) <= Len(v)
    /\ \A p \in 1..Len(w) : v[p] = w[p] /\ wire'[p] = wire[p]
    /\ Len(blocks) < Len(blocks')
    /\ \A j \in 1..Len(blocks) : blocks'[j] = blocks[j]

(* What arrived of it is the longer stream, damaged where it was.          *)
LEMMA SentMore ==
    ASSUME EncryptInv, wire \in Seq(Byte), NEW n \in 1..MaxPlain, Encrypt(n),
           NEW w, Written(w, blocks), Arrives(w)
    PROVE  \E v : Written(v, blocks') /\ Arrived(v, wire', damaged') /\ Grown(w, v)
<1> DEFINE x == IF blocks # <<>> THEN <<>> ELSE Iv
<1>1. PICK new \in Seq(AnyBlock) :
         /\ new # <<>> /\ blocks' = blocks \o new
         /\ wire' = wire \o x \o Joined(new)
  BY Encrypted
<1>2. EncryptInv' /\ damaged' = damaged
  BY Encrypted DEF Encrypt
<1> DEFINE N    == Len(blocks)
           more == blocks'
           J    == Joined(new)
           y    == x \o J
           v    == w \o y
<1>3. /\ blocks \in Seq(AnyBlock) /\ N \in Nat
      /\ more \in Seq(AnyBlock) /\ N < Len(more)
      /\ \A j \in 1..N : more[j] = blocks[j]
  <2>1. blocks \in Seq(AnyBlock)
    BY DEF EncryptInv, Made, Chunked
  <2>2. /\ blocks \o new \in Seq(AnyBlock)
        /\ Len(blocks \o new) = Len(blocks) + Len(new)
        /\ Len(blocks) \in Nat /\ Len(new) \in Nat
        /\ \A i \in 1..Len(blocks) : (blocks \o new)[i] = blocks[i]
    BY <2>1, Joint
  <2>3. Len(new) # 0
    BY <1>1, EmptySeq
  <2>4. Len(blocks) < Len(blocks \o new)
    BY <2>2, <2>3
  <2>5. QED
    BY <1>1, <2>1, <2>2, <2>4
<1>4. \A j \in 1..Len(more) : more[j].size >= 1
  <2>1. Chunked(more)
    BY <1>2 DEF EncryptInv, Made
  <2>2. QED
    BY <2>1, ChunkedUsable
<1>5. w \in Seq(Byte) /\ x \in Seq(Byte) /\ Wrote(w \o x, more, N)
  <2>1. CASE blocks # <<>>
    <3>1. x = <<>>
      BY <2>1
    <3>2. Wrote(w, blocks, N)
      BY <2>1 DEF Written
    <3>3. w \in Seq(Byte) /\ x \in Seq(Byte)
      BY <3>1, <3>2, EmptySeq DEF Wrote
    <3>4. w \o x = w
      BY <3>1, <3>3, ConcatEmptySeq
    <3>5. Wrote(w, more, N)
      BY <1>3, <3>2, WroteSame
    <3>6. QED
      BY <3>3, <3>4, <3>5
  <2>2. CASE blocks = <<>>
    <3>1. x = Iv /\ w = <<>> /\ N = 0
      BY <2>2, EmptySeq DEF Written
    <3>2. Wrote(Iv, more, 0)
      BY IvWritten
    <3>3. Iv \in Seq(Byte) /\ w \in Seq(Byte)
      BY <3>1, <3>2, EmptySeq DEF Wrote
    <3>4. w \o Iv = Iv
      BY <3>1, <3>3, ConcatEmptySeq
    <3>5. QED
      BY <3>1, <3>2, <3>3, <3>4
  <2>3. QED
    BY <2>1, <2>2
<1> HIDE DEF x
<1>6. J \in Seq(Byte) /\ Wrote((w \o x) \o J, more, Len(more))
  BY <1>1, <1>3, <1>4, <1>5, JoinedWritten
<1> HIDE DEF J
<1>7. /\ y \in Seq(Byte) /\ (w \o x) \o J = v /\ wire' = wire \o y
  <2>1. \A p, q, r \in Seq(Byte) : (p \o q) \o r = p \o (q \o r)
    BY ConcatAssociative
  <2>2. y \in Seq(Byte)
    BY <1>5, <1>6, Joint
  <2>3. (w \o x) \o J = w \o (x \o J) /\ (wire \o x) \o J = wire \o (x \o J)
    <3>1. w \in Seq(Byte) /\ x \in Seq(Byte) /\ J \in Seq(Byte) /\ wire \in Seq(Byte)
      BY <1>5, <1>6
    <3>2. QED
      BY ONLY <2>1, <3>1
  <2>4. wire' = (wire \o x) \o J
    BY <1>1 DEF J, x
  <2>5. QED
    BY <2>2, <2>3, <2>4
<1> HIDE DEF y
<1>8. /\ v \in Seq(Byte) /\ Len(v) = Len(w) + Len(y)
      /\ Len(w) \in Nat /\ Len(y) \in Nat
      /\ \A i \in 1..Len(w) : v[i] = w[i]
      /\ \A i \in 1..Len(y) : v[Len(w) + i] = y[i]
  BY <1>5, <1>7, Joint
<1>9. /\ wire' \in Seq(Byte) /\ Len(wire') = Len(w) + Len(y)
      /\ \A i \in 1..Len(w) : wire'[i] = wire[i]
      /\ \A i \in 1..Len(y) : wire'[Len(w) + i] = y[i]
  <2>1. /\ wire \o y \in Seq(Byte) /\ Len(wire \o y) = Len(wire) + Len(y)
        /\ \A i \in 1..Len(wire) : (wire \o y)[i] = wire[i]
        /\ \A i \in 1..Len(y) : (wire \o y)[Len(wire) + i] = y[i]
    BY <1>7, Joint
  <2>2. Len(wire) = Len(w)
    BY DEF Arrives, Arrived
  <2>3. QED
    BY <1>7, <2>1, <2>2
<1> HIDE DEF v
<1>10. Written(v, more)
  <2>1. more # <<>>
    BY <1>3, EmptySeq
  <2>2. Wrote(v, more, Len(more))
    BY <1>6, <1>7
  <2>3. QED
    BY <2>1, <2>2 DEF Written
<1>11. Arrived(v, wire', damaged')
  <2>1. ASSUME NEW p \in 1..Len(v)
        PROVE  wire'[p] = v[p] \/ (damaged' /\ p > IvLen /\ wire'[p] = <<0, 0>>)
    <3>1. CASE p \in 1..Len(w)
      <4>1. wire[p] = w[p] \/ (damaged /\ p > IvLen /\ wire[p] = <<0, 0>>)
        BY <3>1 DEF Arrives, Arrived
      <4>2. QED
        BY <1>2, <1>8, <1>9, <3>1, <4>1
    <3>2. CASE p \notin 1..Len(w)
      <4> DEFINE i == p - Len(w)
      <4>1. i \in 1..Len(y) /\ p = Len(w) + i
        BY <1>8, <3>2
      <4> HIDE DEF i
      <4>2. QED
        BY <1>8, <1>9, <4>1
    <3>3. QED
      BY <3>1, <3>2
  <2>2. Len(wire') = Len(v)
    BY <1>8, <1>9
  <2>3. QED
    BY <2>1, <2>2 DEF Arrives, Arrived
<1>12. Grown(w, v)
  <2>1. Len(w) <= Len(v) /\ Len(wire') = Len(v)
    BY <1>8, <1>9
  <2>2. QED
    BY <1>3, <1>8, <1>9, <2>1 DEF Grown
<1>13. QED
  BY <1>10, <1>11, <1>12

-----------------------------------------------------------------------------
(* Where the blocks are in what was sent.                                  *)

(* Block j has z bytes.                                                    *)
HasSize(bl, j, z) == bl[j].size = z /\ z \in Nat /\ z >= 1

(* It follows the first q bytes.                                           *)
Starts(w, q, j) == q \in Nat /\ IvLen <= q /\ q < Len(w) /\ w[q + 1] = <<j, 1>>

IsThere(w, q, n, z, k) ==
    /\ q + z <= Len(w)
    /\ \A i \in 1..z : w[q + i] = <<n + 1, i>>
    /\ IF n + 1 = k THEN q + z = Len(w)
       ELSE q + z < Len(w) /\ w[q + z + 1] = <<n + 2, 1>>

(* From its first byte on, a block stands in the stream whole, and the     *)
(* next one follows.                                                       *)
LEMMA BlockAt ==
    ASSUME NEW bl, NEW k \in Nat, NEW w, Wrote(w, bl, k), NEW n \in Nat, n < k,
           NEW q, Starts(w, q, n + 1), NEW z, HasSize(bl, n + 1, z)
    PROVE  IsThere(w, q, n, z, k)
<1> DEFINE L    == Len(w)
           S    == {i \in Nat : i >= 1 => q + i <= L /\ w[q + i] = <<n + 1, i>>}
<1>1. L \in Nat /\ IvLen \in Nat
  BY LenProperties, CryptorConstants DEF Wrote
<1>2. /\ z \in Nat /\ z >= 1
      /\ q \in Nat /\ IvLen <= q /\ q < L /\ w[q + 1] = <<n + 1, 1>>
  BY DEF HasSize, Starts
<1>3. 0 \in S
  OBVIOUS
<1>4. ASSUME NEW p \in Nat, q < p, p <= L, NEW i \in 1..z, w[p] = <<n + 1, i>>
      PROVE  IF i < z THEN p < L /\ w[p + 1] = <<n + 1, i + 1>>
             ELSE IF n + 1 < k THEN p < L /\ w[p + 1] = <<n + 2, 1>>
             ELSE p = L
  <2>1. p \in (IvLen + 1)..L
    BY <1>1, <1>2, <1>4
  <2>2. Follows(w, p, bl, k)
    BY <2>1 DEF Wrote, L
  <2>3. w[p][1] = n + 1 /\ w[p][2] = i /\ (n + 1) + 1 = n + 2
    BY <1>4
  <2>4. QED
    BY <2>2, <2>3 DEF Follows, HasSize, L
<1> HIDE DEF L
<1>5. ASSUME NEW i \in 1..z, i - 1 \in S
      PROVE  i \in S
  <2>1. CASE i = 1
    BY <1>1, <1>2, <2>1 DEF L
  <2>2. CASE i # 1
    <3> DEFINE j == i - 1
               p == q + j
    <3>1. j \in 1..z /\ j < z /\ i = j + 1 /\ i \in Nat
      BY <1>2, <2>2
    <3>2. j \in S /\ j >= 1
      BY <1>5, <3>1
    <3>3. p \in Nat /\ q < p /\ q + i = p + 1
      BY <1>2, <3>1
    <3>4. p <= L /\ w[p] = <<n + 1, j>>
      BY <3>2
    <3> HIDE DEF j, p, S
    <3>5. p < L /\ w[p + 1] = <<n + 1, j + 1>>
      BY <1>4, <3>1, <3>3, <3>4
    <3>6. q + i <= L /\ w[q + i] = <<n + 1, i>>
      BY <1>1, <3>1, <3>3, <3>5
    <3>7. QED
      BY <3>1, <3>6 DEF S
  <2>3. QED
    BY <2>1, <2>2
<1> HIDE DEF S
<1>6. \A i \in 0..z : i \in S
  BY ONLY <1>2, <1>3, <1>5, InductionTo
<1>7. ASSUME NEW i \in 1..z
      PROVE  q + i <= L /\ w[q + i] = <<n + 1, i>>
  <2>1. i \in 0..z /\ i >= 1
    BY <1>2
  <2>2. i \in S
    BY <1>6, <2>1
  <2>3. QED
    BY <2>1, <2>2 DEF S
<1>8. q + z <= L /\ w[q + z] = <<n + 1, z>>
  <2>1. z \in 1..z
    BY <1>2
  <2>2. QED
    BY <1>7, <2>1
<1>9. IF n + 1 < k THEN q + z < L /\ w[(q + z) + 1] = <<n + 2, 1>> ELSE q + z = L
  <2> DEFINE p == q + z
  <2>1. p \in Nat /\ q < p /\ z \in 1..z /\ ~(z < z)
    BY <1>2
  <2>2. p <= L /\ w[p] = <<n + 1, z>>
    BY <1>8
  <2> HIDE DEF p
  <2>3. IF n + 1 < k THEN p < L /\ w[p + 1] = <<n + 2, 1>> ELSE p = L
    BY <1>4, <2>1, <2>2
  <2>4. QED
    BY <2>3 DEF p
<1>10. n + 1 < k <=> n + 1 # k
  OBVIOUS
<1>11. QED
  BY <1>7, <1>8, <1>9, <1>10 DEF IsThere, L

(* A block's bytes are all behind those of the blocks before it.           *)
LEMMA InOrder ==
    ASSUME NEW bl, NEW k \in Nat, NEW w, Wrote(w, bl, k),
           NEW d \in (IvLen + 1)..Len(w), NEW e \in (IvLen + 1)..Len(w), d < e
    PROVE  w[d][1] < w[e][1] \/ (w[d][1] = w[e][1] /\ w[d][2] < w[e][2])
<1> DEFINE L         == Len(w)
           After(p)  == /\ w[d][1] \in Nat /\ w[d][2] \in Nat
                        /\ w[d][1] < w[p][1] \/ (w[d][1] = w[p][1] /\ w[d][2] < w[p][2])
           S         == {i \in Nat : i >= 1 => After(d + i)}
           m         == e - d
<1>1. L \in Nat /\ IvLen \in Nat
  BY LenProperties, CryptorConstants DEF Wrote
<1>2. d \in Nat /\ e \in Nat /\ m \in Nat /\ m >= 1 /\ e = d + m
  BY <1>1
<1>3. \A p \in (IvLen + 1)..L : w[p][1] \in Nat /\ w[p][2] \in Nat
  <2> TAKE p \in (IvLen + 1)..L
  <2>1. p \in 1..L
    BY <1>1
  <2>2. w[p] \in Byte
    BY <2>1, ElementOfSeq DEF Wrote, L
  <2>3. QED
    BY <2>2 DEF Byte
<1>4. ASSUME NEW p \in (IvLen + 1)..L, p < L
      PROVE  \/ w[p + 1][1] = w[p][1] /\ w[p + 1][2] = w[p][2] + 1
             \/ w[p + 1][1] = w[p][1] + 1 /\ w[p + 1][2] = 1
  <2>1. Follows(w, p, bl, k)
    BY DEF Wrote
  <2>2. \/ w[p + 1] = <<w[p][1], w[p][2] + 1>>
        \/ w[p + 1] = <<w[p][1] + 1, 1>>
    BY <1>4, <2>1 DEF Follows, L
  <2>3. QED
    BY <2>2
<1> HIDE DEF L, m
<1>5. 0 \in S
  OBVIOUS
<1>6. ASSUME NEW i \in 1..m, i - 1 \in S
      PROVE  i \in S
  <2> DEFINE p == d + (i - 1)
  <2>1. p \in (IvLen + 1)..L /\ p < L /\ d + i = p + 1 /\ i \in Nat
    <3>1. e <= L
      BY DEF L
    <3>2. QED
      BY <1>1, <1>2, <3>1
  <2>2. i - 1 >= 1 => After(p)
    BY <1>6
  <2>3. ~(i - 1 >= 1) => p = d
    BY <1>2
  <2> HIDE DEF p
  <2>4. /\ w[p][1] \in Nat /\ w[p][2] \in Nat /\ w[d][1] \in Nat /\ w[d][2] \in Nat
    <3>1. d \in (IvLen + 1)..L
      BY DEF L
    <3>2. QED
      BY <1>3, <2>1, <3>1
  <2>5. \/ w[p + 1][1] = w[p][1] /\ w[p + 1][2] = w[p][2] + 1
        \/ w[p + 1][1] = w[p][1] + 1 /\ w[p + 1][2] = 1
    BY <1>4, <2>1
  <2>6. After(p + 1)
    <3> DEFINE a == w[d][1]
               b == w[d][2]
               u == w[p][1]
               v == w[p][2]
    <3>1. (a < u \/ (a = u /\ b < v)) \/ (a = u /\ b = v)
      BY <2>2, <2>3
    <3> HIDE DEF a, b, u, v
    <3>2. a \in Nat /\ b \in Nat /\ u \in Nat /\ v \in Nat
      BY <2>4 DEF a, b, u, v
    <3>3. (a < u \/ (a = u /\ b < v + 1)) /\ a < u + 1
      BY <3>1, <3>2
    <3>4. \/ w[p + 1][1] = u /\ w[p + 1][2] = v + 1
          \/ w[p + 1][1] = u + 1 /\ w[p + 1][2] = 1
      BY <2>5 DEF u, v
    <3>5. a < w[p + 1][1] \/ (a = w[p + 1][1] /\ b < w[p + 1][2])
      BY <3>3, <3>4
    <3>6. QED
      BY <3>2, <3>5 DEF a, b
  <2>7. QED
    BY <2>1, <2>6
<1> HIDE DEF S
<1>7. \A i \in 0..m : i \in S
  BY ONLY <1>2, <1>5, <1>6, InductionTo
<1> HIDE DEF After
<1>8. After(e)
  <2>1. m \in 0..m /\ m >= 1 /\ e = d + m
    BY <1>2
  <2>2. After(d + m)
    BY <1>7, <2>1 DEF S
  <2>3. QED
    BY <2>1, <2>2
<1>9. QED
  BY <1>8 DEF After

-----------------------------------------------------------------------------
(* The decryptor on what arrives.                                          *)

(* It runs, at the end of the first n blocks, with the bytes up to the     *)
(* r-th.                                                                   *)
Standing(w, s, r, n) ==
    /\ s \in DecryptState /\ s.ok
    /\ Holds(s.data \o s.left, r)
    /\ At(w, r - Len(s.data \o s.left), n)
    /\ Sound(s.cipher) /\ InUse(s.cipher) = NonceAfter(blocks, cipher, n)
    /\ output \o s.out = Count(Plain(blocks, n))

Stopped(w, s, r) ==
    /\ s \in DecryptState /\ ~s.ok /\ damaged
    /\ s.mlen = 0 /\ s.data = <<>> /\ Met(w, s.cipher, r)

Going(w, s, r) ==
    \/ \E n \in 0..Len(blocks) : Standing(w, s, r, n) /\ s.mlen = Waited(n)
    \/ Stopped(w, s, r)

(* When a whole block is there, it opens, or a byte of it was damaged.     *)
LEMMA BlockTaken ==
    ASSUME NEW w, Sending(w), NEW r \in Nat, NEW n \in Nat, n < Len(blocks),
           NEW c, Sound(c), InUse(c) = NonceAfter(blocks, cipher, n),
           NEW bytes, Holds(bytes, r), At(w, r - Len(bytes), n),
           NEW z, HasSize(blocks, n + 1, z), ~(Len(bytes) < z)
    PROVE  LET block == SubSeq(bytes, 1, z) IN
           \/ /\ Opens(c, block, blocks)
              /\ TextOf(block, blocks) = blocks[n + 1].text
              /\ Holds(Drop(bytes, z), r) /\ At(w, r - Len(Drop(bytes, z)), n + 1)
              /\ Sound(CtxInit(c))
              /\ InUse(CtxInit(c)) = NonceAfter(blocks, cipher, n + 1)
           \/ /\ ~Opens(c, block, blocks)
              /\ damaged /\ Met(w, c, r)
<1> DEFINE N == Len(blocks)
           B == Len(bytes)
           q == r - B
           block == SubSeq(bytes, 1, z)
<1>1. /\ Made(blocks, cipher, Len(plain)) /\ Chunked(blocks) /\ Chained(blocks, cipher)
  BY DEF Sending, EncryptInv, Made
<1>2. /\ N \in Nat /\ n + 1 \in 1..N /\ n < N /\ z \in Nat /\ z >= 1 /\ blocks # <<>>
  <2>1. N \in Nat /\ \A j \in 1..N : blocks[j].size \in Nat /\ blocks[j].size >= 1
    BY <1>1, ChunkedUsable
  <2>2. n + 1 \in 1..N /\ z = blocks[n + 1].size
    BY <2>1 DEF HasSize
  <2>3. N # 0
    BY <2>1
  <2>4. QED
    BY <2>1, <2>2, <2>3, EmptySeq
<1>3. Wrote(w, blocks, N) /\ w \in Seq(Byte) /\ Len(w) \in Nat /\ IvLen \in Nat
  BY <1>2, LenProperties, CryptorConstants DEF Sending, Written, Wrote
<1>4. /\ bytes \in Seq(Byte) /\ B \in Nat /\ B <= r /\ z <= B
      /\ \A i \in 1..B : bytes[i] = wire[q + i]
  <2>1. bytes \in Seq(Byte) /\ B \in Nat
    BY LenProperties DEF Holds
  <2>2. QED
    BY <1>2, <2>1 DEF Holds
<1>5. /\ q \in Nat /\ IvLen <= q /\ q < Len(w) /\ w[q + 1] = <<n + 1, 1>>
  <2>1. At(w, q, n) /\ n # N
    BY <1>2
  <2>2. QED
    BY <1>2, <1>3, <1>4, <2>1 DEF At
<1>6. /\ Sound(c) /\ InUse(c) = blocks[n + 1].nonce
  BY DEF NonceAfter
<1>sz. z = blocks[n + 1].size
  BY DEF HasSize
<1> HIDE DEF q, B, N, block
<1>7. /\ q + z <= Len(w)
      /\ \A i \in 1..z : w[q + i] = <<n + 1, i>>
      /\ IF n + 1 = N THEN q + z = Len(w)
         ELSE q + z < Len(w) /\ w[q + z + 1] = <<n + 2, 1>>
  <2>1. n < N /\ N \in Nat
    BY <1>2
  <2>2. QED
    <3>1. Starts(w, q, n + 1)
      BY <1>5 DEF Starts
    <3>2. IsThere(w, q, n, z, N)
      BY <1>3, <2>1, <3>1, BlockAt
    <3>3. QED
      BY <3>2 DEF IsThere
<1>8. /\ block \in Seq(Byte) /\ Len(block) = z
      /\ \A i \in 1..z : block[i] = wire[q + i]
  <2>1. /\ SubSeq(bytes, 1, z) \in Seq(Byte) /\ Len(SubSeq(bytes, 1, z)) = z
        /\ \A i \in 1..z : SubSeq(bytes, 1, z)[i] = bytes[i]
    BY <1>2, <1>4, Beginning DEF B
  <2>2. \A i \in 1..z : i \in 1..B
    BY <1>2, <1>4
  <2>3. QED
    BY <1>4, <2>1, <2>2 DEF block
<1>9. /\ q + z <= r /\ \A i \in 1..z : q + i \in 1..Len(w) /\ q + i \in (IvLen + 1)..r
  BY <1>2, <1>3, <1>4, <1>5, <1>7 DEF q
<1>10. CASE \A i \in 1..z : wire[q + i] = w[q + i]
  <2>1. block = BlockBytes(n + 1, blocks[n + 1])
    <3> DEFINE b == BlockBytes(n + 1, blocks[n + 1])
    <3>1. n + 1 \in Nat /\ blocks[n + 1].size \in Nat
      BY <1>2, <1>sz
    <3>2. /\ b \in Seq(Byte) /\ Len(b) = z /\ \A i \in 1..z : b[i] = <<n + 1, i>>
      BY <1>sz, <3>1, BytesOf
    <3> HIDE DEF b
    <3>3. Len(block) = Len(b) /\ \A i \in 1..Len(block) : block[i] = b[i]
      BY <1>7, <1>8, <1>10, <3>2
    <3>4. block = b
      BY <1>8, <3>2, <3>3, SeqEqual
    <3>5. QED
      BY <3>4 DEF b
  <2>2. Opens(c, block, blocks)
    <3>1. n + 1 \in DOMAIN blocks
      BY <1>1, <1>2, LenProperties DEF N, Chunked
    <3>2. c.live
      BY <1>6 DEF Sound
    <3>3. QED
      BY <1>6, <2>1, <3>1, <3>2 DEF Opens
  <2>3. TextOf(block, blocks) = blocks[n + 1].text
    <3>1. 1 \in 1..z
      BY <1>2
    <3>2. block[1] = <<n + 1, 1>>
      BY <1>7, <1>8, <1>10, <3>1
    <3>3. QED
      BY <3>2 DEF TextOf
  <2> DEFINE rest == Drop(bytes, z)
  <2>4. /\ rest \in Seq(Byte) /\ Len(rest) = B - z
        /\ \A i \in 1..(B - z) : rest[i] = bytes[z + i]
    BY <1>2, <1>4, Dropped DEF B
  <2> HIDE DEF rest
  <2>5. /\ Len(rest) <= r /\ r - Len(rest) = q + z
    BY <1>2, <1>4, <2>4 DEF q
  <2>6. \A i \in 1..Len(rest) : rest[i] = wire[r - Len(rest) + i]
    <3> TAKE i \in 1..Len(rest)
    <3>1. z + i \in 1..B /\ q + (z + i) = (q + z) + i
      BY <1>2, <1>4, <1>5, <2>4
    <3>2. rest[i] = bytes[z + i] /\ bytes[z + i] = wire[q + (z + i)]
      BY <1>4, <2>4, <3>1
    <3>3. QED
      BY <2>5, <3>1, <3>2
  <2>7. Holds(rest, r)
    BY <2>4, <2>5, <2>6 DEF Holds
  <2>8. At(w, q + z, n + 1)
    <3>1. n + 1 \in 0..N /\ q + z \in IvLen..Len(w) /\ (n + 1) + 1 = n + 2
      BY <1>2, <1>3, <1>5, <1>7
    <3>2. QED
      BY <1>7, <3>1 DEF At, N
  <2>9. Sound(CtxInit(c)) /\ InUse(CtxInit(c)) = NonceIncrement(blocks[n + 1].nonce)
    BY <1>6, SoundOn
  <2>10. NonceAfter(blocks, cipher, n + 1) = NonceIncrement(blocks[n + 1].nonce)
    BY <1>1, <1>2 DEF Chained, N
  <2>11. QED
    BY <2>2, <2>3, <2>5, <2>7, <2>8, <2>9, <2>10 DEF rest, block
<1>11. CASE ~(\A i \in 1..z : wire[q + i] = w[q + i])
  <2>1. PICK i \in 1..z : wire[q + i] # w[q + i]
    BY <1>11
  <2>2. damaged /\ wire[q + i] = <<0, 0>>
    BY <1>9, <2>1 DEF Sending, Arrives, Arrived
  <2>3. ~Opens(c, block, blocks)
    <3>1. ASSUME NEW b \in DOMAIN blocks, block = BlockBytes(b, blocks[b])
          PROVE  FALSE
      <4>1. b \in 1..N
        BY <1>1, LenProperties DEF Chunked, N
      <4>2. b \in Nat /\ b >= 1 /\ blocks[b].size \in Nat
        BY <1>1, <1>2, <4>1, ChunkedUsable DEF N
      <4>3. /\ Len(block) = blocks[b].size
            /\ \A j \in 1..blocks[b].size : block[j] = <<b, j>>
        BY <3>1, <4>2, BytesOf
      <4>4. block[i] = <<b, i>>
        BY <1>8, <4>3
      <4>5. block[i] = <<0, 0>>
        BY <1>8, <2>2
      <4>6. QED
        BY <4>2, <4>4, <4>5
    <3>2. QED
      BY <3>1 DEF Opens
  <2>4. Met(w, c, r)
    <3>1. w[q + i][1] = n + 1
      BY <1>7
    <3>2. QED
      BY <1>6, <1>9, <2>1, <3>1 DEF Met
  <2>5. QED
    BY <2>2, <2>3, <2>4 DEF block
<1>12. QED
  BY <1>10, <1>11

(* Waiting for more does not move the decryptor.                           *)
LEMMA WaitGoes ==
    ASSUME NEW w, NEW r, NEW n \in 0..Len(blocks), NEW s, Standing(w, s, r, n),
           NEW t \in DecryptState, t.ok, t.mlen = Waited(n),
           t.data = s.data \o s.left, t.left = <<>>, t.cipher = s.cipher, t.out = s.out
    PROVE  Going(w, t, r)
<1>1. s.data \o s.left \in Seq(Byte)
  BY DEF Standing, Holds
<1>2. t.data \o t.left = s.data \o s.left
  BY <1>1, ConcatEmptySeq
<1>3. Standing(w, t, r, n)
  BY <1>2 DEF Standing
<1>4. QED
  BY <1>3 DEF Going

(* A refused block leaves the decryptor at its nonce for ever.             *)
LEMMA RefuseGoes ==
    ASSUME NEW w, NEW r, NEW s \in DecryptState, damaged, Met(w, s.cipher, r)
    PROVE  Going(w, Refuse(s), r)
<1> DEFINE t == Refuse(s)
<1>1. /\ t \in DecryptState /\ t.mlen = 0 /\ t.data = <<>> /\ t.ok = FALSE
      /\ InUse(t.cipher) = InUse(s.cipher)
  BY Refused
<1> HIDE DEF t
<1>2. Met(w, t.cipher, r)
  BY <1>1 DEF Met
<1>3. Stopped(w, t, r)
  BY <1>1, <1>2 DEF Stopped
<1>4. QED
  BY <1>3 DEF Going, t

(* The block of a payload.                                                 *)
LEMMA PayloadBlock ==
    ASSUME Chunked(blocks), NEW n \in 0..Len(blocks), n % 2 = 1
    PROVE  /\ n < Len(blocks) /\ n + 1 \in 0..Len(blocks) /\ Waited(n + 1) = 0
           /\ Waited(n) \in 1..Mask /\ Waited(n) \in Nat
           /\ HasSize(blocks, n + 1, Waited(n) + TagLen)
           /\ blocks[n + 1].text \in Seq(Nat) /\ Len(blocks[n + 1].text) = Waited(n)
           /\ Plain(blocks, n) \in Nat => Plain(blocks, n + 1) = Plain(blocks, n) + Waited(n)
           /\ \A i \in 1..Waited(n) : blocks[n + 1].text[i] = Plain(blocks, n) + i
<1> DEFINE x == blocks[n + 1].text
           m == Waited(n)
<1>1. Len(blocks) \in Nat /\ Len(blocks) % 2 = 0
  BY ChunkedUsable DEF Chunked
<1>2. /\ n \in Nat /\ n < Len(blocks) /\ n + 1 \in 1..Len(blocks) /\ n + 1 \in 0..Len(blocks)
      /\ (n + 1) % 2 # 1 /\ (n + 1) - 2 = n - 1 /\ n + 1 # 0
  BY <1>1
<1>3. m = Len(x) /\ Waited(n + 1) = 0
  BY <1>2 DEF Waited
<1>4. /\ blocks[n + 1].size \in Nat /\ blocks[n + 1].size >= 1 /\ x \in Seq(Nat)
  BY <1>2, ChunkedUsable DEF AnyBlock
<1>5. /\ Len(x) \in 1..Mask /\ blocks[n + 1].size = Len(x) + TagLen
      /\ \A i \in 1..Len(x) : x[i] = Plain(blocks, n - 1) + i
  BY <1>2 DEF Chunked
<1>6. Plain(blocks, n - 1) = Plain(blocks, n)
  <2>1. (n - 1) % 2 # 1
    BY <1>2
  <2>2. QED
    BY <2>1 DEF Plain
<1>7. Plain(blocks, n + 1) = x[1] + Len(x) - 1
  BY <1>2 DEF Plain
<1> DEFINE y == Plain(blocks, n)
<1> HIDE DEF x, m, y
<1>8. m \in Nat /\ m >= 1
  BY <1>3, <1>5, AeadConstants
<1>9. x[1] = y + 1
  BY <1>3, <1>5, <1>6, <1>8 DEF y
<1>10. y \in Nat => (y + 1) + m - 1 = y + m
  BY <1>8
<1>11. HasSize(blocks, n + 1, m + TagLen)
  BY <1>3, <1>4, <1>5 DEF HasSize
<1>12. QED
  BY <1>2, <1>3, <1>4, <1>5, <1>6, <1>7, <1>8, <1>9, <1>10, <1>11 DEF x, m, y

(* No block has plaintext that encrypt was not given.                      *)
LEMMA PlainType ==
    ASSUME EncryptInv, NEW n \in 0..Len(blocks)
    PROVE  Plain(blocks, n) \in 0..Len(plain) /\ Len(plain) \in Nat
<1>1. /\ Plain(blocks, n) \in 0..Len(plain)
      /\ Plain(blocks, Len(blocks)) = Len(plain)
      /\ Len(blocks) \in Nat
      /\ \A j \in 0..Len(blocks) : Plain(blocks, j) \in 0..Len(plain)
  BY ChunkedUsable DEF EncryptInv, Made
<1>2. Len(plain) \in 0..Len(plain)
  BY <1>1
<1>3. QED
  BY <1>1, <1>2

(* decrypt_chunk_payload waits, takes the next block, or was given a       *)
(* damaged one.                                                            *)
LEMMA PayloadGoes ==
    ASSUME NEW w, Sending(w), output \in Seq(Nat), NEW r \in Nat,
           NEW n \in 0..Len(blocks), n % 2 = 1,
           NEW s, Standing(w, s, r, n)
    PROVE  Going(w, DecryptPayload(s, Waited(n), blocks), r)
<1> DEFINE plen  == Waited(n)
           bytes == s.data \o s.left
           len   == plen + TagLen
           block == SubSeq(bytes, 1, len)
           t     == DecryptPayload(s, plen, blocks)
           text  == blocks[n + 1].text
<1>1. EncryptInv /\ Chunked(blocks)
  BY DEF Sending, EncryptInv, Made
<1>2. /\ n < Len(blocks) /\ n + 1 \in 0..Len(blocks) /\ Waited(n + 1) = 0
      /\ plen \in 1..Mask /\ plen \in Nat
      /\ HasSize(blocks, n + 1, len) /\ text \in Seq(Nat) /\ Len(text) = plen
      /\ Plain(blocks, n) \in Nat => Plain(blocks, n + 1) = Plain(blocks, n) + plen
      /\ \A i \in 1..plen : text[i] = Plain(blocks, n) + i
  BY <1>1, PayloadBlock
<1>3. Plain(blocks, n) \in Nat /\ n \in Nat
  <2>1. Plain(blocks, n) \in 0..Len(plain) /\ Len(plain) \in Nat
    BY <1>1, PlainType
  <2>2. QED
    BY <2>1
<1>4. /\ s \in DecryptState /\ s.ok /\ bytes \in Seq(Byte)
      /\ Holds(bytes, r) /\ At(w, r - Len(bytes), n)
      /\ Sound(s.cipher) /\ InUse(s.cipher) = NonceAfter(blocks, cipher, n)
      /\ output \o s.out = Count(Plain(blocks, n))
      /\ s.out \in Seq(Nat) /\ <<>> \in Seq(Byte)
  BY EmptySeq DEF Standing, Holds, DecryptState
<1>5. t = IF Len(bytes) < len
          THEN [s EXCEPT !.mlen = plen, !.data = bytes, !.left = <<>>]
          ELSE IF Opens(s.cipher, block, blocks)
          THEN [s EXCEPT !.mlen = 0, !.data = <<>>, !.left = Drop(bytes, len),
                         !.cipher = CtxInit(s.cipher),
                         !.out = s.out \o TextOf(block, blocks)]
          ELSE Refuse(s)
  BY DEF DecryptPayload
<1>6. ASSUME ~(Len(bytes) < len)
      PROVE  \/ /\ Opens(s.cipher, block, blocks)
                /\ TextOf(block, blocks) = text
                /\ Holds(Drop(bytes, len), r) /\ At(w, r - Len(Drop(bytes, len)), n + 1)
                /\ Sound(CtxInit(s.cipher))
                /\ InUse(CtxInit(s.cipher)) = NonceAfter(blocks, cipher, n + 1)
             \/ /\ ~Opens(s.cipher, block, blocks)
                /\ damaged /\ Met(w, s.cipher, r)
  <2> HIDE DEF bytes, len
  <2>1. QED
    BY <1>2, <1>3, <1>4, <1>6, BlockTaken
<1> HIDE DEF plen, bytes, len, block, t, text
<1>7. CASE Len(bytes) < len
  <2>1. /\ t \in DecryptState /\ t.ok /\ t.mlen = plen /\ t.data = bytes /\ t.left = <<>>
        /\ t.cipher = s.cipher /\ t.out = s.out
    BY <1>2, <1>4, <1>5, <1>7 DEF DecryptState
  <2>2. Going(w, t, r)
    BY <2>1, WaitGoes DEF plen, bytes
  <2>3. QED
    BY <2>2 DEF t, plen
<1>8. CASE ~(Len(bytes) < len) /\ Opens(s.cipher, block, blocks)
  <2> DEFINE rest == Drop(bytes, len)
             c    == CtxInit(s.cipher)
             out  == s.out \o TextOf(block, blocks)
  <2>1. /\ TextOf(block, blocks) = text
        /\ Holds(rest, r) /\ At(w, r - Len(rest), n + 1)
        /\ Sound(c) /\ InUse(c) = NonceAfter(blocks, cipher, n + 1)
    BY <1>6, <1>8
  <2>2. t = [s EXCEPT !.mlen = 0, !.data = <<>>, !.left = rest, !.cipher = c, !.out = out]
    BY <1>5, <1>8
  <2>3. rest \in Seq(Byte) /\ c \in Cipher /\ out \in Seq(Nat)
    <3>1. rest \in Seq(Byte) /\ c \in Cipher
      BY <2>1 DEF Holds, Sound
    <3>2. out \in Seq(Nat)
      BY <1>2, <1>4, <2>1, Joint
    <3>3. QED
      BY <3>1, <3>2
  <2>4. output \o out = Count(Plain(blocks, n + 1))
    <3>1. \A x, y, z \in Seq(Nat) : (x \o y) \o z = x \o (y \o z)
      BY ONLY Grouped, SMTT(30)
    <3>2. (output \o s.out) \o text = output \o (s.out \o text)
      BY <1>2, <1>4, <3>1
    <3> DEFINE m == Plain(blocks, n)
    <3>3. m \in Nat /\ plen \in Nat /\ \A i \in 1..plen : text[i] = m + i
      BY <1>2, <1>3
    <3>4. Plain(blocks, n + 1) = m + plen
      BY <1>2, <1>3
    <3> HIDE DEF m
    <3>5. Count(m) \o text = Count(m + plen)
      BY <1>2, <3>3, CountOn
    <3>6. output \o s.out = Count(m)
      BY <1>4 DEF m
    <3>7. QED
      BY <2>1, <3>2, <3>4, <3>5, <3>6
  <2> HIDE DEF rest, c, out
  <2>5. /\ t \in DecryptState /\ t.ok /\ t.mlen = 0 /\ t.data = <<>> /\ t.left = rest
        /\ t.cipher = c /\ t.out = out
    BY <1>4, <2>2, <2>3 DEF DecryptState
  <2>6. t.data \o t.left = rest
    BY <2>3, <2>5, ConcatEmptySeq
  <2>7. Standing(w, t, r, n + 1)
    BY <2>1, <2>4, <2>5, <2>6 DEF Standing
  <2>8. Going(w, t, r)
    BY <1>2, <2>5, <2>7 DEF Going
  <2>9. QED
    BY <2>8 DEF t, plen
<1>9. CASE ~(Len(bytes) < len) /\ ~Opens(s.cipher, block, blocks)
  <2>1. t = Refuse(s)
    BY <1>5, <1>9
  <2>2. damaged /\ Met(w, s.cipher, r)
    BY <1>6, <1>9
  <2>3. Going(w, t, r)
    BY <1>4, <2>1, <2>2, RefuseGoes
  <2>4. QED
    BY <2>3 DEF t, plen
<1>10. QED
  BY <1>7, <1>8, <1>9

(* The block of a header.                                                  *)
LEMMA HeaderBlock ==
    ASSUME Chunked(blocks), NEW n \in 0..Len(blocks), n < Len(blocks), n % 2 # 1
    PROVE  /\ n + 1 \in 0..Len(blocks) /\ (n + 1) % 2 = 1
           /\ Waited(n) = 0 /\ Waited(n + 1) \in 1..Mask
           /\ HasSize(blocks, n + 1, HeaderLen)
           /\ blocks[n + 1].text[1] = Waited(n + 1)
           /\ Plain(blocks, n + 1) = Plain(blocks, n)
<1>1. Len(blocks) \in Nat
  BY ChunkedUsable
<1>2. /\ n \in Nat /\ n + 1 \in 1..Len(blocks) /\ n + 1 \in 0..Len(blocks)
      /\ (n + 1) % 2 = 1 /\ (n + 1) + 1 = n + 2 /\ (n + 1) - 1 = n
  BY <1>1
<1>3. blocks[n + 1].text = <<Len(blocks[n + 2].text)>> /\ blocks[n + 1].size = HeaderLen
  BY <1>2 DEF Chunked
<1>4. Waited(n + 1) = Len(blocks[n + 2].text) /\ Waited(n) = 0
  BY <1>2 DEF Waited
<1>5. Waited(n + 1) \in 1..Mask
  BY <1>2, PayloadBlock
<1>6. blocks[n + 1].size \in Nat /\ blocks[n + 1].size >= 1
  BY <1>2, ChunkedUsable
<1>7. HasSize(blocks, n + 1, HeaderLen)
  BY <1>3, <1>6 DEF HasSize
<1>8. Plain(blocks, n + 1) = Plain(blocks, n)
  BY <1>2 DEF Plain
<1>9. QED
  BY <1>2, <1>3, <1>4, <1>5, <1>7, <1>8

(* So does decrypt_chunk, for a header and its payload.                    *)
LEMMA ChunkGoes ==
    ASSUME NEW w, Sending(w), output \in Seq(Nat), NEW r \in Nat, r <= Len(w),
           NEW n \in 0..Len(blocks), NEW s, Standing(w, s, r, n),
           s.mlen = Waited(n), s.left # <<>>
    PROVE  Going(w, DecryptChunk(s, blocks), r)
<1> DEFINE bytes  == s.data \o s.left
           header == SubSeq(bytes, 1, HeaderLen)
           plen   == TextOf(header, blocks)[1]
           rest   == Drop(bytes, HeaderLen)
           c      == CtxInit(s.cipher)
           opened == [s EXCEPT !.data = <<>>, !.left = rest, !.cipher = c]
           t      == DecryptChunk(s, blocks)
<1>1. EncryptInv /\ Chunked(blocks)
  BY DEF Sending, EncryptInv, Made
<1>2. /\ s \in DecryptState /\ s.ok /\ bytes \in Seq(Byte)
      /\ Holds(bytes, r) /\ At(w, r - Len(bytes), n)
      /\ Sound(s.cipher) /\ InUse(s.cipher) = NonceAfter(blocks, cipher, n)
      /\ output \o s.out = Count(Plain(blocks, n))
      /\ s.data \in Seq(Byte) /\ s.left \in Seq(Byte) /\ <<>> \in Seq(Byte)
  BY EmptySeq DEF Standing, Holds, DecryptState
<1>3. n \in Nat /\ n < Len(blocks)
  <2>1. Len(blocks) \in Nat
    BY <1>1, ChunkedUsable
  <2> DEFINE B == Len(bytes)
  <2>4. B \in Nat /\ B # 0
    BY <1>2, NotEmpty
  <2>5. At(w, r - B, n)
    BY <1>2
  <2> HIDE DEF B
  <2>6. n # Len(blocks)
    BY <2>4, <2>5 DEF At
  <2>7. QED
    BY <2>1, <2>6
<1>4. t = IF s.mlen > 0 THEN DecryptPayload(s, s.mlen, blocks)
          ELSE IF Len(bytes) < HeaderLen
          THEN [s EXCEPT !.data = bytes, !.left = <<>>]
          ELSE IF ~Opens(s.cipher, header, blocks) THEN Refuse(s)
          ELSE IF plen \in 1..Mask THEN DecryptPayload(opened, plen, blocks)
          ELSE [opened EXCEPT !.ok = FALSE,
                            !.cipher.live = s.cipher.live /\ s.cipher.backend = "sodium"]
  BY DEF DecryptChunk
<1>5. CASE n % 2 = 1
  <2>1. Waited(n) \in 1..Mask
    BY <1>1, <1>5, PayloadBlock
  <2>2. s.mlen > 0
    BY <2>1, AeadConstants
  <2> HIDE DEF bytes, header, plen, opened, rest, c
  <2>3. t = DecryptPayload(s, Waited(n), blocks)
    BY <1>4, <2>2
  <2>4. Going(w, DecryptPayload(s, Waited(n), blocks), r)
    BY <1>5, PayloadGoes
  <2>5. QED
    BY <2>3, <2>4
<1>6. CASE n % 2 # 1
  <2>1. /\ n + 1 \in 0..Len(blocks) /\ (n + 1) % 2 = 1
        /\ Waited(n) = 0 /\ Waited(n + 1) \in 1..Mask
        /\ HasSize(blocks, n + 1, HeaderLen)
        /\ blocks[n + 1].text[1] = Waited(n + 1)
        /\ Plain(blocks, n + 1) = Plain(blocks, n)
    BY <1>1, <1>3, <1>6, HeaderBlock
  <2>2. ~(s.mlen > 0)
    BY <2>1
  <2>3. ASSUME ~(Len(bytes) < HeaderLen)
        PROVE  \/ /\ Opens(s.cipher, header, blocks)
                  /\ TextOf(header, blocks) = blocks[n + 1].text
                  /\ Holds(rest, r) /\ At(w, r - Len(rest), n + 1)
                  /\ Sound(c) /\ InUse(c) = NonceAfter(blocks, cipher, n + 1)
               \/ /\ ~Opens(s.cipher, header, blocks)
                  /\ damaged /\ Met(w, s.cipher, r)
    <3> HIDE DEF bytes
    <3>1. QED
      BY <1>2, <1>3, <2>1, <2>3, BlockTaken
  <2> HIDE DEF bytes, header, plen, rest, c, opened, t
  <2>4. CASE Len(bytes) < HeaderLen
    <3>1. t = [s EXCEPT !.data = bytes, !.left = <<>>]
      BY <1>4, <2>2, <2>4
    <3>2. /\ t \in DecryptState /\ t.ok /\ t.mlen = s.mlen /\ t.data = bytes /\ t.left = <<>>
          /\ t.cipher = s.cipher /\ t.out = s.out
      BY <1>2, <3>1 DEF DecryptState
    <3>3. Going(w, t, r)
      BY <3>2, WaitGoes DEF bytes
    <3>4. QED
      BY <3>3 DEF t
  <2>5. CASE ~(Len(bytes) < HeaderLen) /\ Opens(s.cipher, header, blocks)
    <3>1. /\ TextOf(header, blocks) = blocks[n + 1].text
          /\ Holds(rest, r) /\ At(w, r - Len(rest), n + 1)
          /\ Sound(c) /\ InUse(c) = NonceAfter(blocks, cipher, n + 1)
      BY <2>3, <2>5
    <3>2. plen = Waited(n + 1)
      BY <2>1, <3>1 DEF plen
    <3>3. t = DecryptPayload(opened, Waited(n + 1), blocks)
      BY <1>4, <2>1, <2>2, <2>5, <3>2
    <3>4. rest \in Seq(Byte) /\ c \in Cipher
      BY <3>1 DEF Holds, Sound
    <3>5. /\ opened \in DecryptState /\ opened.ok /\ opened.data = <<>> /\ opened.left = rest
          /\ opened.cipher = c /\ opened.out = s.out
      BY <1>2, <3>4 DEF opened, DecryptState
    <3>6. opened.data \o opened.left = rest
      BY <3>4, <3>5, ConcatEmptySeq
    <3>7. Standing(w, opened, r, n + 1)
      BY <1>2, <2>1, <3>1, <3>5, <3>6 DEF Standing
    <3>8. Going(w, DecryptPayload(opened, Waited(n + 1), blocks), r)
      BY <2>1, <3>7, PayloadGoes
    <3>9. QED
      BY <3>3, <3>8 DEF t
  <2>6. CASE ~(Len(bytes) < HeaderLen) /\ ~Opens(s.cipher, header, blocks)
    <3>1. t = Refuse(s)
      BY <1>4, <2>2, <2>6
    <3>2. damaged /\ Met(w, s.cipher, r)
      BY <2>3, <2>6
    <3>3. Going(w, t, r)
      BY <1>2, <3>1, <3>2, RefuseGoes
    <3>4. QED
      BY <3>3 DEF t
  <2>7. QED
    BY <2>4, <2>5, <2>6
<1>7. QED
  BY <1>5, <1>6

-----------------------------------------------------------------------------
(* One call of decrypt.                                                    *)

(* So does a call of decrypt, which ends with all of the segment taken, or *)
(* an exception.                                                           *)
LEMMA CallGoes ==
    ASSUME NEW w, Sending(w), output \in Seq(Nat), NEW r \in Nat, r <= Len(w),
           NEW n \in 0..Len(blocks), NEW s, Standing(w, s, r, n), Ready(s),
           s.mlen = Waited(n), s.left # <<>>
    PROVE  LET t == AeadDecrypt(s, blocks)
           IN  Going(w, t, r) /\ Ready(t) /\ (~t.ok \/ t.left = <<>>)
<1> DEFINE S == {t \in DecryptState : Going(w, t, r)}
<1>1. Usable(blocks)
  BY ChunkedUsable DEF Sending, EncryptInv, Made
<1>2. \A t : Going(w, t, r) => t \in S
  BY DEF Going, Standing, Stopped
<1>3. DecryptChunk(s, blocks) \in S
  BY <1>2, ChunkGoes
<1>4. ASSUME NEW t \in S, Ready(t), t.ok, t.left # <<>>
      PROVE  DecryptChunk(t, blocks) \in S
  <2>1. ~Stopped(w, t, r)
    BY <1>4 DEF Stopped
  <2>2. PICK m \in 0..Len(blocks) : Standing(w, t, r, m) /\ t.mlen = Waited(m)
    BY <2>1 DEF Going
  <2>3. Going(w, DecryptChunk(t, blocks), r)
    BY <1>4, <2>2, ChunkGoes
  <2>4. QED
    BY <1>2, <2>3
<1>5. \A t \in S : Going(w, t, r)
  OBVIOUS
<1> HIDE DEF S
<1> DEFINE t == AeadDecrypt(s, blocks)
<1>6. t \in S /\ Ready(t) /\ (~t.ok \/ t.left = <<>>)
  BY <1>1, <1>3, <1>4, Looped
<1>7. QED
  BY <1>5, <1>6

(* When nothing opens, it waits or raises, and stays at its nonce.         *)
LEMMA CallCloses ==
    ASSUME NEW bl, Usable(bl), NEW s, Ready(s), s.ok, s.mlen = 0, s.left # <<>>,
           NEW bytes, bytes = s.data \o s.left,
           Len(bytes) < HeaderLen \/ ~Opens(s.cipher, SubSeq(bytes, 1, HeaderLen), bl)
    PROVE  LET t == AeadDecrypt(s, bl)
           IN  /\ Ready(t) /\ t.mlen = 0 /\ t.out = s.out
               /\ InUse(t.cipher) = InUse(s.cipher)
               /\ (t.ok /\ t.data = bytes) \/ (~t.ok /\ t.data = <<>>)
<1> DEFINE Closed(t) == /\ t.mlen = 0 /\ t.out = s.out
                        /\ InUse(t.cipher) = InUse(s.cipher)
                        /\ \/ t.ok /\ t.left = <<>> /\ t.data = bytes
                           \/ ~t.ok /\ t.data = <<>>
           S == {t \in DecryptState : Closed(t)}
           u == DecryptChunk(s, bl)
<1>1. /\ s \in DecryptState /\ s.data \in Seq(Byte) /\ s.left \in Seq(Byte)
      /\ bytes \in Seq(Byte) /\ <<>> \in Seq(Byte)
  <2>1. s \in DecryptState /\ s.data \in Seq(Byte) /\ s.left \in Seq(Byte)
    BY DEF Ready, DecryptState
  <2>2. QED
    BY <2>1, Joint, EmptySeq
<1>2. ~(s.mlen > 0)
  OBVIOUS
<1>3. u = IF Len(bytes) < HeaderLen THEN [s EXCEPT !.data = bytes, !.left = <<>>]
          ELSE Refuse(s)
  BY <1>2 DEF DecryptChunk
<1> HIDE DEF u
<1>4. u \in DecryptState /\ Closed(u)
  <2>1. CASE Len(bytes) < HeaderLen
    <3>1. u = [s EXCEPT !.data = bytes, !.left = <<>>]
      BY <1>3, <2>1
    <3>2. QED
      BY <1>1, <3>1 DEF DecryptState
  <2>2. CASE ~(Len(bytes) < HeaderLen)
    <3>1. u = Refuse(s)
      BY <1>3, <2>2
    <3>2. Refuse(s).out = s.out
      BY <1>1 DEF Refuse, DecryptState
    <3>3. QED
      BY <1>1, <3>1, <3>2, Refused
  <2>3. QED
    BY <2>1, <2>2
<1>5. \A t \in S : ~(t.ok /\ t.left # <<>>)
  OBVIOUS
<1>6. u \in S
  BY <1>4
<1>7. \A t \in S : Closed(t)
  OBVIOUS
<1> HIDE DEF Closed, S
<1> DEFINE t == AeadDecrypt(s, bl)
<1>8. t \in S /\ Ready(t)
  BY <1>5, <1>6, Looped DEF u
<1>9. QED
  BY <1>7, <1>8 DEF Closed

(* The segments.                                                           *)
LEMMA SegmentHeld ==
    ASSUME wire \in Seq(Byte), NEW p \in Nat, NEW k \in Nat, p + k <= Len(wire)
    PROVE  LET b == SubSeq(wire, p + 1, p + k) IN Holds(b, p + k) /\ Len(b) = k
<1> DEFINE r == p + k
           b == SubSeq(wire, p + 1, r)
<1>1. r \in Nat /\ p <= r /\ r <= Len(wire) /\ r - p = k /\ r - k = p
  OBVIOUS
<1> HIDE DEF r
<1>2. b \in Seq(Byte) /\ Len(b) = r - p /\ \A i \in 1..(r - p) : b[i] = wire[p + i]
  BY <1>1, Slice
<1> HIDE DEF b
<1>3. Len(b) = k /\ k <= r /\ \A i \in 1..k : b[i] = wire[r - k + i]
  BY <1>1, <1>2
<1>4. Holds(b, r)
  BY <1>2, <1>3 DEF Holds
<1>5. QED
  BY <1>3, <1>4 DEF b, r

(* The bytes of a segment behind its first m, where they were.             *)
LEMMA RestHeld ==
    ASSUME NEW b, NEW r \in Nat, Holds(b, r), NEW m \in Nat, m <= Len(b)
    PROVE  Holds(Drop(b, m), r) /\ Len(Drop(b, m)) = Len(b) - m
<1> DEFINE d == Drop(b, m)
           l == Len(b)
<1>1. /\ b \in Seq(Byte) /\ l \in Nat /\ l <= r /\ m <= l
      /\ \A i \in 1..l : b[i] = wire[r - l + i]
  BY LenProperties DEF Holds
<1>2. d \in Seq(Byte) /\ Len(d) = l - m /\ \A i \in 1..(l - m) : d[i] = b[m + i]
  BY <1>1, Dropped
<1> HIDE DEF d, l
<1>3. ASSUME NEW i \in 1..(l - m)
      PROVE  d[i] = wire[r - (l - m) + i]
  <2>1. m + i \in 1..l /\ r - l + (m + i) = r - (l - m) + i
    BY <1>1
  <2>2. QED
    BY <1>1, <1>2, <2>1
<1>4. l - m <= r
  BY <1>1
<1>5. Holds(d, r)
  BY <1>2, <1>3, <1>4 DEF Holds
<1>6. QED
  BY <1>2, <1>5 DEF d, l

(* What was kept and the next segment follow each other in the stream.     *)
LEMMA HeldOn ==
    ASSUME NEW p \in Nat, NEW r \in Nat, p <= r, NEW data, Holds(data, p),
           NEW b, Holds(b, r), Len(b) = r - p
    PROVE  Holds(data \o b, r) /\ r - Len(data \o b) = p - Len(data)
<1> DEFINE a == Len(data)
           l == Len(b)
           u == data \o b
<1>1. /\ data \in Seq(Byte) /\ a \in Nat /\ a <= p
      /\ \A i \in 1..a : data[i] = wire[p - a + i]
  BY LenProperties DEF Holds
<1>2. /\ b \in Seq(Byte) /\ l = r - p /\ l \in Nat
      /\ \A i \in 1..l : b[i] = wire[r - l + i]
  BY LenProperties DEF Holds
<1>3. /\ u \in Seq(Byte) /\ Len(u) = a + l
      /\ \A i \in 1..a : u[i] = data[i]
      /\ \A i \in 1..l : u[a + i] = b[i]
  <2>1. \A x, y \in Seq(Byte) :
           /\ x \o y \in Seq(Byte) /\ Len(x \o y) = Len(x) + Len(y)
           /\ \A i \in 1..Len(x) : (x \o y)[i] = x[i]
           /\ \A i \in 1..Len(y) : (x \o y)[Len(x) + i] = y[i]
    BY ONLY Joint
  <2>2. data \in Seq(Byte) /\ b \in Seq(Byte)
    BY <1>1, <1>2
  <2>3. QED
    BY <2>1, <2>2
<1> HIDE DEF a, l, u
<1>4. a + l <= r /\ r - (a + l) = p - a
  BY <1>1, <1>2
<1>5. ASSUME NEW i \in 1..(a + l)
      PROVE  u[i] = wire[r - (a + l) + i]
  <2>1. CASE i \in 1..a
    BY <1>1, <1>3, <1>4, <2>1
  <2>2. CASE i \notin 1..a
    <3> DEFINE j == i - a
    <3>1. j \in 1..l /\ i = a + j /\ r - l + j = r - (a + l) + i
      BY <1>1, <1>2, <2>2
    <3> HIDE DEF j
    <3>2. QED
      BY <1>2, <1>3, <3>1
  <2>3. QED
    BY <2>1, <2>2
<1>6. Holds(u, r)
  BY <1>3, <1>4, <1>5 DEF Holds
<1>7. QED
  BY <1>3, <1>4, <1>6 DEF a, u

(* What Run starts from.                                                   *)
Start(bytes) ==
    [mlen |-> decipher.mlen, data |-> decipher.data, cipher |-> decipher.cipher,
     left |-> bytes, out |-> <<>>, ok |-> TRUE]

Decipher == [mlen : 0..Mask, data : Seq(Byte), cipher : Cipher]

(* A call starts from what the last one kept.                              *)
LEMMA StartReady ==
    ASSUME decipher \in Decipher, Short(decipher.mlen, decipher.data),
           NEW bytes \in Seq(Byte)
    PROVE  /\ Ready(Start(bytes)) /\ Start(bytes) \in DecryptState
           /\ Start(bytes).mlen = decipher.mlen /\ Start(bytes).data = decipher.data
           /\ Start(bytes).cipher = decipher.cipher /\ Start(bytes).left = bytes
           /\ Start(bytes).out = <<>> /\ Start(bytes).ok
<1> DEFINE s == Start(bytes)
<1>1. /\ s.mlen = decipher.mlen /\ s.data = decipher.data
      /\ s.cipher = decipher.cipher /\ s.left = bytes
      /\ s.out = <<>> /\ s.ok
  BY DEF Start
<1>2. /\ decipher.mlen \in Nat /\ decipher.data \in Seq(Byte) /\ decipher.cipher \in Cipher
      /\ <<>> \in Seq(Nat) /\ TRUE \in BOOLEAN
  BY AeadConstants, EmptySeq DEF Decipher
<1>3. s \in DecryptState
  BY <1>2 DEF Start, DecryptState
<1> HIDE DEF s
<1>4. Ready(s)
  BY <1>1, <1>3 DEF Ready
<1>5. QED
  BY <1>1, <1>3, <1>4 DEF s

(* Run, by what the call returns.                                          *)
LEMMA RunIs ==
    ASSUME NEW key, NEW bytes, Run(key, bytes)
    PROVE  LET end == AeadDecrypt(Start(bytes), IF key = "right" THEN blocks ELSE <<>>)
           IN  /\ decipher' = [mlen |-> end.mlen, data |-> end.data, cipher |-> end.cipher]
               /\ raised' = (raised \/ ~end.ok)
               /\ output' = IF end.ok THEN output \o end.out ELSE output
BY DEF Run, Start

-----------------------------------------------------------------------------
(* The invariant.                                                          *)

(* The first n bytes of plaintext are a sequence of n numbers.             *)
LEMMA CountType ==
    ASSUME NEW n \in Nat
    PROVE  Count(n) \in Seq(Nat) /\ Len(Count(n)) = n /\ (n = 0 => Count(n) = <<>>)
<1>1. Count(n) \in [1..n -> Nat]
  BY DEF Count
<1>2. Count(n) \in Seq(Nat) /\ Len(Count(n)) = n
  BY <1>1, Listed
<1>3. n = 0 => Count(n) = <<>>
  BY <1>2, EmptySeq
<1>4. QED
  BY <1>2, <1>3

(* The invariant holds at first, when nothing was sent.                    *)
LEMMA InvInit ==
    ASSUME Init
    PROVE  Inv(<<>>)
<1>1. /\ Mask \in Nat /\ HeaderLen \in Nat /\ HeaderLen >= 1 /\ MaxPlain \in Nat
  BY AeadConstants, CryptorConstants DEF HeaderLen
<1>2. /\ plain = <<>> /\ output = <<>> /\ wire = <<>> /\ blocks = <<>>
      /\ iv_sent = FALSE /\ raised = FALSE /\ damaged = FALSE
      /\ read = 0 /\ keyed = "none"
  BY DEF Init
<1>3. /\ <<>> \in Seq(Nat) /\ <<>> \in Seq(Byte) /\ <<>> \in Seq(AnyBlock) /\ Len(<<>>) = 0
  BY EmptySeq
<1>4. Sound(cipher) /\ InUse(cipher) = ZeroNonce
  BY NewSound DEF Init
<1>5. /\ decipher \in Decipher /\ decipher.mlen = 0 /\ decipher.data = <<>>
      /\ Sound(decipher.cipher) /\ InUse(decipher.cipher) = ZeroNonce
  <2>1. PICK b \in Backends : decipher = [mlen |-> 0, data |-> <<>>, cipher |-> New(b)]
    BY DEF Init
  <2>2. Sound(New(b)) /\ InUse(New(b)) = ZeroNonce /\ New(b) \in Cipher
    BY NewSound, NewType
  <2>3. 0 \in 0..Mask
    BY <1>1
  <2>4. QED
    BY <1>3, <2>1, <2>2, <2>3 DEF Decipher
<1>6. TypeOK
  <2>1. cipher \in Cipher
    BY <1>4 DEF Sound
  <2>2. read \in 0..Len(wire)
    BY <1>2, <1>3
  <2>3. QED
    BY <1>2, <1>3, <1>5, <2>1, <2>2 DEF TypeOK, Decipher
<1>7. Short(decipher.mlen, decipher.data)
  BY <1>1, <1>3, <1>5 DEF Short, Need
<1>8. EncryptInv
  <2>1. Plain(blocks, 0) = 0
    BY DEF Plain
  <2>2. Chunked(blocks)
    <3>1. Len(blocks) % 2 = 0 /\ \A j \in 1..Len(blocks) : FALSE
      BY <1>2, <1>3
    <3>2. QED
      BY <1>2, <1>3, <3>1 DEF Chunked
  <2>3. Chained(blocks, cipher)
    <3>1. ~(0 < Len(blocks)) /\ \A j \in 1..Len(blocks) : FALSE
      BY <1>2, <1>3
    <3>2. QED
      BY <1>4, <3>1 DEF Chained, NonceAfter
  <2>4. Made(blocks, cipher, 0)
    <3>1. \A j \in 0..Len(blocks) : j = 0
      BY <1>2, <1>3
    <3>2. QED
      BY <1>2, <1>3, <1>4, <2>1, <2>2, <2>3, <3>1 DEF Made
  <2>5. plain = Count(Len(plain)) /\ Len(plain) = 0
    BY <1>2, <1>3, CountType
  <2>6. QED
    BY <1>1, <1>2, <2>4, <2>5 DEF EncryptInv
<1>9. Sending(<<>>)
  <2>1. Written(<<>>, blocks)
    BY <1>2 DEF Written
  <2>2. Arrives(<<>>)
    <3>1. \A p \in 1..Len(<<>>) : FALSE
      BY <1>3
    <3>2. QED
      BY <1>2, <3>1 DEF Arrives, Arrived
  <2>3. QED
    BY <1>2, <1>3, <1>8, <2>1, <2>2 DEF Sending
<1>10. DecryptInv(<<>>)
  BY <1>2, <1>5 DEF DecryptInv
<1>11. QED
  BY <1>6, <1>7, <1>9, <1>10 DEF Inv

(* Where the decipher is does not change when more is sent.                *)
LEMMA StillThere ==
    ASSUME NEW w, NEW v, Sending(w), Written(v, blocks'), Grown(w, v), EncryptInv',
           NEW n \in 0..Len(blocks), NEW p \in Nat, At(w, p, n)
    PROVE  /\ n \in 0..Len(blocks') /\ n < Len(blocks')
           /\ p \in IvLen..Len(v) /\ p < Len(v) /\ v[p + 1] = <<n + 1, 1>>
           /\ NonceAfter(blocks, cipher, n) = blocks'[n + 1].nonce
           /\ Plain(blocks', n) = Plain(blocks, n)
           /\ n % 2 = 1 => n + 1 \in 1..Len(blocks)
<1> DEFINE N == Len(blocks)
           M == Len(blocks')
<1>1. /\ Chunked(blocks) /\ Chained(blocks, cipher)
      /\ Chunked(blocks') /\ Chained(blocks', cipher')
  BY DEF Sending, EncryptInv, Made
<1>2. /\ N \in Nat /\ N % 2 = 0 /\ M \in Nat /\ N < M
      /\ \A j \in 1..N : blocks'[j] = blocks[j]
  BY <1>1, ChunkedUsable DEF Grown, Chunked
<1>3. /\ n \in Nat /\ n <= N /\ n \in 0..M /\ n < M /\ (n % 2 = 1 => n + 1 \in 1..N)
  BY <1>2
<1>4. /\ p \in IvLen..Len(w) /\ w \in Seq(Byte) /\ v \in Seq(Byte)
      /\ Len(w) \in Nat /\ Len(v) \in Nat /\ IvLen \in Nat /\ IvLen >= 1
      /\ Len(w) <= Len(v) /\ \A i \in 1..Len(w) : v[i] = w[i]
  <2>1. w \in Seq(Byte)
    <3>1. CASE blocks = <<>>
      BY <3>1, EmptySeq DEF Sending, Written
    <3>2. CASE blocks # <<>>
      BY <3>2 DEF Sending, Written, Wrote
    <3>3. QED
      BY <3>1, <3>2
  <2>2. QED
    BY <2>1, LenProperties, CryptorConstants DEF At, Grown
<1>5. Wrote(v, blocks', M) /\ Wrote(w, blocks, N) /\ N # 0
  <2>1. blocks' # <<>>
    BY <1>2, EmptySeq
  <2>2. blocks # <<>>
    <3>1. ASSUME blocks = <<>>
          PROVE  FALSE
      <4>1. Len(w) = 0
        BY <3>1, EmptySeq DEF Sending, Written
      <4>2. QED
        BY <1>4, <4>1
    <3>2. QED
      BY <3>1
  <2>3. blocks \in Seq(AnyBlock)
    BY <1>1 DEF Chunked
  <2>4. N # 0
    BY <2>2, <2>3, EmptySeq
  <2>5. QED
    BY <2>1, <2>2, <2>4 DEF Sending, Written
<1> HIDE DEF N, M
<1>6. p < Len(v) /\ v[p + 1] = <<n + 1, 1>>
  <2>1. CASE n = N
    <3>1. p = Len(w) /\ p > IvLen
      BY <1>5, <2>1 DEF At, Wrote, N
    <3>2. p \in (IvLen + 1)..Len(w) /\ p \in 1..Len(w) /\ p \in (IvLen + 1)..Len(v)
      BY <1>4, <3>1
    <3>3. Follows(w, p, blocks, N) /\ Follows(v, p, blocks', M) /\ v[p] = w[p]
      BY <1>4, <1>5, <3>2 DEF Wrote
    <3> DEFINE b == w[p][1]
               i == w[p][2]
    <3>4. /\ b \in 1..N /\ ~(i < blocks[b].size) /\ ~(b < N)
      BY <3>1, <3>3 DEF Follows
    <3>5. IF i < blocks'[b].size THEN p < Len(v) /\ v[p + 1] = <<b, i + 1>>
          ELSE IF b < M THEN p < Len(v) /\ v[p + 1] = <<b + 1, 1>>
          ELSE p = Len(v)
      BY <3>3 DEF Follows
    <3> HIDE DEF b, i
    <3>6. b = N /\ b < M /\ blocks'[b] = blocks[b]
      BY <1>2, <3>4
    <3>7. QED
      BY <2>1, <3>4, <3>5, <3>6
  <2>2. CASE n # N
    <3>1. p < Len(w) /\ w[p + 1] = <<n + 1, 1>>
      BY <2>2 DEF At, N
    <3>2. p + 1 \in 1..Len(w) /\ p < Len(v)
      BY <1>4, <3>1
    <3>3. QED
      BY <1>4, <3>1, <3>2
  <2>3. QED
    BY <2>1, <2>2
<1>7. NonceAfter(blocks, cipher, n) = blocks'[n + 1].nonce
  <2>1. CASE n = N
    <3>1. N \in 1..N /\ N \in 1..M
      BY <1>2, <1>5
    <3>2. NonceAfter(blocks, cipher, N) = NonceIncrement(blocks[N].nonce)
      BY <1>1, <3>1 DEF Chained, N
    <3>3. NonceAfter(blocks', cipher', N) = NonceIncrement(blocks'[N].nonce)
      BY <1>1, <3>1 DEF Chained, M
    <3>4. NonceAfter(blocks', cipher', N) = blocks'[N + 1].nonce
      BY <1>2 DEF NonceAfter, M
    <3>5. blocks'[N] = blocks[N]
      BY <1>2, <3>1
    <3>6. QED
      BY <2>1, <3>2, <3>3, <3>4, <3>5
  <2>2. CASE n # N
    <3>1. n < N /\ n + 1 \in 1..N
      BY <1>2, <1>3, <2>2
    <3>2. NonceAfter(blocks, cipher, n) = blocks[n + 1].nonce
      BY <3>1 DEF NonceAfter, N
    <3>3. QED
      BY <1>2, <3>1, <3>2
  <2>3. QED
    BY <2>1, <2>2
<1>8. Plain(blocks', n) = Plain(blocks, n)
  BY <1>2, PlainSame DEF N
<1>9. p \in IvLen..Len(v)
  BY <1>4
<1>10. QED
  BY <1>3, <1>6, <1>7, <1>8, <1>9 DEF N, M

(* encrypt preserves it, with a longer stream.                             *)
LEMMA EncryptKeeps ==
    ASSUME NEW w, Inv(w), NEW n \in 1..MaxPlain, Encrypt(n)
    PROVE  StreamInv'
<1>1. EncryptInv /\ wire \in Seq(Byte) /\ Written(w, blocks) /\ Arrives(w) /\ Sending(w)
  BY DEF Inv, Sending
<1>2. /\ TypeOK /\ Short(decipher.mlen, decipher.data) /\ DecryptInv(w)
      /\ decipher.data \in Seq(Byte) /\ read \in 0..Len(wire)
  BY DEF Inv, TypeOK
<1>3. EncryptInv' /\ Len(plain) <= Len(plain')
  BY <1>1, Encrypted
<1>4. PICK v : Written(v, blocks') /\ Arrived(v, wire', damaged') /\ Grown(w, v)
  BY <1>1, SentMore
<1>5. /\ UNCHANGED <<read, decipher, keyed, output, raised, damaged>>
      /\ iv_sent' = TRUE
  BY DEF Encrypt
<1>6. Sending(v)'
  <2>1. wire' \in Seq(Byte)
    BY <1>4 DEF Grown
  <2>2. QED
    BY <1>3, <1>4, <2>1 DEF Sending, Arrives
<1>7. /\ Len(w) = Len(wire) /\ Len(wire) \in Nat /\ Len(wire') \in Nat
      /\ Len(wire) <= Len(wire')
      /\ \A i \in 1..Len(w) : v[i] = w[i] /\ wire'[i] = wire[i]
      /\ \A j \in 1..Len(blocks) : blocks'[j] = blocks[j]
  <2>1. Len(w) = Len(wire) /\ Len(wire') = Len(v) /\ Len(w) <= Len(v)
    BY <1>1, <1>4 DEF Arrives, Arrived, Grown
  <2>2. Len(wire) \in Nat /\ Len(wire') \in Nat
    BY <1>1, <1>4, LenProperties DEF Grown
  <2>3. QED
    BY <1>4, <2>1, <2>2 DEF Grown
<1>8. TypeOK'
  <2>1. plain' \in Seq(Nat)
    <3>1. plain' = Count(Len(plain')) /\ Len(plain') \in Nat
      <4>1. plain' = Count(Len(plain'))
        BY <1>3 DEF EncryptInv
      <4>2. Plain(blocks', Len(blocks')) = Len(plain') /\ Len(blocks') \in Nat
        BY <1>3, ChunkedUsable DEF EncryptInv, Made
      <4>3. \A j \in 0..Len(blocks') : Plain(blocks', j) \in 0..Len(plain')
        BY <1>3 DEF EncryptInv, Made
      <4>4. QED
        BY <4>1, <4>2, <4>3
    <3>2. QED
      BY <3>1, CountType
  <2>2. cipher' \in Cipher
    BY <1>3 DEF EncryptInv, Made, Sound
  <2>3. read' \in 0..Len(wire')
    BY <1>2, <1>5, <1>7
  <2>4. wire' \in Seq(Byte)
    BY <1>4 DEF Grown
  <2>5. QED
    BY <1>2, <1>5, <2>1, <2>2, <2>3, <2>4 DEF TypeOK
<1>9. ASSUME NEW p \in Nat, p <= read, NEW i \in 1..p
      PROVE  wire'[i] = wire[i] /\ v[i] = w[i] /\ i \in 1..Len(w)
  <2>1. i \in 1..Len(w)
    BY <1>2, <1>7, <1>9
  <2>2. QED
    BY <1>7, <2>1
<1>10. ASSUME Holds(decipher.data, read)
       PROVE  Holds(decipher.data, read)' /\ read - Len(decipher.data) \in Nat
  <2> DEFINE d == decipher.data
             l == Len(d)
  <2>1. d \in Seq(Byte) /\ l \in Nat /\ l <= read /\ read \in Nat
    BY <1>2, <1>7, <1>10, LenProperties DEF Holds
  <2>2. \A i \in 1..l : d[i] = wire[read - l + i]
    BY <1>10 DEF Holds
  <2> HIDE DEF d, l
  <2>3. ASSUME NEW i \in 1..l
        PROVE  d[i] = wire'[read - l + i]
    <3>1. read - l + i \in 1..read
      BY <2>1
    <3>2. wire'[read - l + i] = wire[read - l + i]
      BY <1>9, <2>1, <3>1
    <3>3. QED
      BY <2>2, <3>2
  <2>4. read - l \in Nat
    BY <2>1
  <2>5. /\ d \in Seq(Byte) /\ Len(d) <= read
        /\ \A i \in 1..Len(d) : d[i] = wire'[read - Len(d) + i]
    BY <2>1, <2>3 DEF l
  <2>6. d' = d /\ read' = read
    BY <1>5 DEF d
  <2>7. Holds(d, read)'
    BY <2>5, <2>6 DEF Holds
  <2>8. QED
    BY <2>4, <2>7 DEF d, l
<1>11. ASSUME Aligned(w)
       PROVE  Aligned(v)'
  <2>1. PICK m \in 0..Len(blocks) :
           /\ At(w, read - Len(decipher.data), m)
           /\ Tuned(decipher.cipher, decipher.mlen, m)
           /\ output = Count(Plain(blocks, m))
    BY <1>11 DEF Aligned
  <2> DEFINE p == read - Len(decipher.data)
  <2>2. Holds(decipher.data, read)' /\ p \in Nat
    BY <1>10, <1>11 DEF Aligned
  <2>3. At(w, p, m)
    BY <2>1
  <2>4. /\ m \in 0..Len(blocks') /\ m < Len(blocks')
        /\ p \in IvLen..Len(v) /\ p < Len(v) /\ v[p + 1] = <<m + 1, 1>>
        /\ NonceAfter(blocks, cipher, m) = blocks'[m + 1].nonce
        /\ Plain(blocks', m) = Plain(blocks, m)
        /\ m % 2 = 1 => m + 1 \in 1..Len(blocks)
    <3> HIDE DEF p
    <3>1. QED
      BY <1>1, <1>3, <1>4, <2>2, <2>3, StillThere
  <2>5. p' = p
    BY <1>5
  <2> HIDE DEF p
  <2>6. At(v, p, m)'
    BY <2>4, <2>5 DEF At
  <2>7. NonceAfter(blocks', cipher', m) = NonceAfter(blocks, cipher, m)
    BY <2>4 DEF NonceAfter
  <2>8. Waited(m)' = Waited(m)
    BY <1>7, <2>4 DEF Waited
  <2>9. Tuned(decipher.cipher, decipher.mlen, m)'
    BY <1>5, <2>1, <2>7, <2>8 DEF Tuned
  <2>10. (output = Count(Plain(blocks, m)))'
    BY <1>5, <2>1, <2>4
  <2>11. QED
    BY <2>2, <2>4, <2>6, <2>9, <2>10 DEF Aligned, p
<1>12. ASSUME Fallen(w)
       PROVE  Fallen(v)'
  <2> DEFINE p == read - Len(decipher.data)
  <2>1. /\ decipher.mlen = 0 /\ Holds(decipher.data, read)
        /\ Met(w, decipher.cipher, p)
    BY <1>12 DEF Fallen
  <2>2. Holds(decipher.data, read)' /\ p \in Nat /\ p <= read
    <3>1. Len(decipher.data) \in Nat /\ read \in Nat
      BY <1>2, <1>7, LenProperties
    <3>2. QED
      BY <1>10, <2>1, <3>1
  <2>3. p' = p
    BY <1>5
  <2> HIDE DEF p
  <2>4. PICK d \in (IvLen + 1)..p :
           wire[d] # w[d] /\ InUse(decipher.cipher) = blocks[w[d][1]].nonce
    BY <2>1 DEF Met
  <2>5. IvLen \in Nat
    BY CryptorConstants
  <2>6. d \in 1..p
    BY <2>2, <2>4, <2>5
  <2>7. wire'[d] = wire[d] /\ v[d] = w[d] /\ d \in 1..Len(w)
    BY <1>9, <2>2, <2>6
  <2>8. w[d][1] \in 1..Len(blocks)
    <3>1. d \in (IvLen + 1)..Len(w)
      BY <1>7, <2>2, <2>4, <2>5, <2>7
    <3>2. blocks # <<>>
      <4>1. ASSUME blocks = <<>>
            PROVE  FALSE
        <5>1. Len(w) = 0
          BY <1>1, <4>1, EmptySeq DEF Written
        <5>2. QED
          BY <2>7, <5>1
      <4>2. QED
        BY <4>1
    <3>3. Follows(w, d, blocks, Len(blocks))
      BY <1>1, <3>1, <3>2 DEF Written, Wrote
    <3>4. QED
      BY <3>3 DEF Follows
  <2>9. Met(v, decipher.cipher, p)'
    <3>1. wire'[d] # v[d] /\ InUse(decipher'.cipher) = blocks'[v[d][1]].nonce
      BY <1>5, <1>7, <2>4, <2>7, <2>8
    <3>2. QED
      BY <2>3, <2>4, <3>1 DEF Met
  <2>10. (\E k \in 0..Len(plain) : output = Count(k))'
    <3>1. PICK k \in 0..Len(plain) : output = Count(k)
      BY <1>12 DEF Fallen
    <3>2. Len(plain) \in Nat /\ Len(plain') \in Nat
      <4>1. TypeOK /\ TypeOK'
        BY <1>2, <1>8
      <4>2. plain \in Seq(Nat) /\ plain' \in Seq(Nat)
        BY <4>1 DEF TypeOK
      <4>3. QED
        BY <4>2, LenProperties
    <3>3. k \in 0..Len(plain')
      BY <1>3, <3>1, <3>2
    <3>4. QED
      BY <1>5, <3>1, <3>3
  <2>11. (decipher.mlen = 0)'
    BY <1>5, <2>1
  <2>12. QED
    BY <2>2, <2>9, <2>10, <2>11 DEF Fallen, p
<1>13. ASSUME NoRepeat'
       PROVE  NoRepeat
  <2>1. Len(blocks) \in Nat /\ Len(blocks') \in Nat /\ Len(blocks) < Len(blocks')
    BY <1>1, <1>3, <1>4, ChunkedUsable DEF EncryptInv, Made, Grown
  <2>2. \A j \in 1..Len(blocks) : j \in 1..Len(blocks')
    BY <2>1
  <2>3. QED
    BY <1>7, <1>13, <2>2 DEF NoRepeat
<1>14. DecryptInv(v)'
  BY <1>2, <1>5, <1>11, <1>12, <1>13 DEF DecryptInv
<1>15. Short(decipher.mlen, decipher.data)'
  BY <1>2, <1>5 DEF Short, Need
<1>16. Inv(v)'
  BY <1>6, <1>8, <1>14, <1>15 DEF Inv
<1>17. QED
  BY <1>16 DEF StreamInv

(* Damage behind what was read preserves it.                               *)
LEMMA DamageKeeps ==
    ASSUME NEW w, Inv(w), NEW i \in 1..Len(wire), Damage(i)
    PROVE  Inv(w)'
<1>1. /\ TypeOK /\ Short(decipher.mlen, decipher.data) /\ DecryptInv(w) /\ Sending(w)
      /\ decipher.data \in Seq(Byte) /\ read \in 0..Len(wire) /\ wire \in Seq(Byte)
      /\ Len(wire) \in Nat
  BY LenProperties DEF Inv, TypeOK
<1>2. /\ ~damaged /\ i > read /\ i > IvLen /\ damaged' = TRUE
      /\ wire' = [wire EXCEPT ![i] = <<0, 0>>]
      /\ UNCHANGED <<plain, iv_sent, cipher, blocks, read, decipher, keyed, output, raised>>
  <2>1. i \in (read + 1)..Len(wire)
    BY DEF Damage
  <2>2. i > read
    BY <1>1, <2>1
  <2>3. QED
    BY <2>2 DEF Damage
<1>3. /\ wire' \in Seq(Byte) /\ Len(wire') = Len(wire)
      /\ \A j \in 1..Len(wire) : wire'[j] = IF j = i THEN <<0, 0>> ELSE wire[j]
  <2>1. <<0, 0>> \in Byte
    BY DEF Byte
  <2>2. QED
    BY <1>1, <1>2, <2>1, ExceptSeq
<1>4. \A j \in 1..read : wire'[j] = wire[j]
  <2> TAKE j \in 1..read
  <2>1. j \in 1..Len(wire) /\ j # i
    BY <1>1, <1>2
  <2>2. QED
    BY <1>3, <2>1
<1>5. EncryptInv'
  <2>1. EncryptInv
    BY <1>1 DEF Sending
  <2>2. QED
    BY <1>2, <2>1 DEF EncryptInv
<1>6. Sending(w)'
  <2>1. Arrived(w, wire', TRUE)
    <3>1. Len(wire') = Len(w)
      BY <1>1, <1>3 DEF Sending, Arrives, Arrived
    <3>2. ASSUME NEW p \in 1..Len(w)
          PROVE  wire'[p] = w[p] \/ (p > IvLen /\ wire'[p] = <<0, 0>>)
      <4>1. p \in 1..Len(wire)
        BY <1>1 DEF Sending, Arrives, Arrived
      <4>2. wire[p] = w[p]
        BY <1>1, <1>2 DEF Sending, Arrives, Arrived
      <4>3. QED
        BY <1>2, <1>3, <4>1, <4>2
    <3>3. QED
      BY <3>1, <3>2 DEF Arrived
  <2>2. QED
    BY <1>1, <1>2, <1>3, <1>5, <2>1 DEF Sending, Arrives
<1>7. TypeOK'
  BY <1>1, <1>2, <1>3 DEF TypeOK
<1>8. ASSUME Holds(decipher.data, read)
      PROVE  Holds(decipher.data, read)'
  <2> DEFINE d == decipher.data
             l == Len(d)
  <2>1. d \in Seq(Byte) /\ l \in Nat /\ l <= read /\ read \in Nat
    BY <1>1, <1>8, LenProperties DEF Holds
  <2>2. \A j \in 1..l : d[j] = wire[read - l + j]
    BY <1>8 DEF Holds
  <2> HIDE DEF d, l
  <2>3. ASSUME NEW j \in 1..l
        PROVE  d[j] = wire'[read - l + j]
    <3>1. read - l + j \in 1..read
      BY <2>1
    <3>2. wire'[read - l + j] = wire[read - l + j]
      BY <1>4, <3>1
    <3>3. QED
      BY <2>2, <3>2
  <2>4. /\ d \in Seq(Byte) /\ Len(d) <= read
        /\ \A j \in 1..Len(d) : d[j] = wire'[read - Len(d) + j]
    BY <2>1, <2>3 DEF l
  <2>5. d' = d /\ read' = read
    BY <1>2 DEF d
  <2>6. Holds(d, read)'
    BY <2>4, <2>5 DEF Holds
  <2>7. QED
    BY <2>6 DEF d
<1>9. ASSUME Aligned(w)
      PROVE  Aligned(w)'
  BY <1>2, <1>8, <1>9 DEF Aligned, At, Tuned, NonceAfter, Waited
<1>10. ASSUME Fallen(w)
       PROVE  Fallen(w)'
  <2> DEFINE p == read - Len(decipher.data)
  <2>1. /\ decipher.mlen = 0 /\ Holds(decipher.data, read)
        /\ Met(w, decipher.cipher, p)
    BY <1>10 DEF Fallen
  <2>2. p \in Int /\ p <= read
    <3>1. Len(decipher.data) \in Nat /\ read \in Nat
      BY <1>1, LenProperties
    <3>2. QED
      BY <3>1
  <2>3. p' = p
    BY <1>2
  <2> HIDE DEF p
  <2>4. PICK d \in (IvLen + 1)..p :
           wire[d] # w[d] /\ InUse(decipher.cipher) = blocks[w[d][1]].nonce
    BY <2>1 DEF Met
  <2>5. d \in 1..read
    BY <1>1, <2>2, <2>4, CryptorConstants
  <2>6. Met(w, decipher.cipher, p)'
    <3>1. wire'[d] # w[d] /\ InUse(decipher'.cipher) = blocks'[w[d][1]].nonce
      BY <1>2, <1>4, <2>4, <2>5
    <3>2. QED
      BY <2>3, <2>4, <3>1 DEF Met
  <2>7. (decipher.mlen = 0)' /\ (\E k \in 0..Len(plain) : output = Count(k))'
    BY <1>2, <1>10 DEF Fallen
  <2>8. QED
    BY <1>8, <2>1, <2>6, <2>7 DEF Fallen, p
<1>11. DecryptInv(w)'
  BY <1>1, <1>2, <1>9, <1>10 DEF DecryptInv, NoRepeat
<1>12. Short(decipher.mlen, decipher.data)'
  BY <1>1, <1>2 DEF Short, Need
<1>13. QED
  BY <1>6, <1>7, <1>11, <1>12 DEF Inv

(* A call of decrypt leaves less than it waits for, and domains.           *)
LEMMA RunTyped ==
    ASSUME TypeOK, Short(decipher.mlen, decipher.data), EncryptInv,
           NEW key, NEW bytes \in Seq(Byte), bytes # <<>>, Run(key, bytes)
    PROVE  LET end == AeadDecrypt(Start(bytes), IF key = "right" THEN blocks ELSE <<>>)
           IN  /\ decipher' \in Decipher
               /\ Short(decipher.mlen, decipher.data)'
               /\ output' \in Seq(Nat) /\ raised' \in BOOLEAN
               /\ decipher'.mlen = end.mlen /\ decipher'.data = end.data
               /\ decipher'.cipher = end.cipher /\ end.out \in Seq(Nat)
<1> DEFINE bl  == IF key = "right" THEN blocks ELSE <<>>
           s   == Start(bytes)
           end == AeadDecrypt(s, bl)
<1>1. Usable(bl)
  <2>1. Usable(blocks)
    BY ChunkedUsable DEF EncryptInv, Made
  <2>2. Usable(<<>>)
    <3>1. <<>> \in Seq(AnyBlock) /\ Len(<<>>) = 0
      BY EmptySeq
    <3>2. \A j \in 1..Len(<<>>) : FALSE
      BY <3>1
    <3>3. QED
      BY <3>1, <3>2 DEF Usable
  <2>3. QED
    BY <2>1, <2>2
<1>2. /\ decipher \in Decipher /\ output \in Seq(Nat) /\ raised \in BOOLEAN
  BY DEF TypeOK, Decipher
<1>3. Ready(s) /\ s.left = bytes
  BY <1>2, StartReady
<1>4. /\ decipher' = [mlen |-> end.mlen, data |-> end.data, cipher |-> end.cipher]
      /\ raised' = (raised \/ ~end.ok)
      /\ output' = IF end.ok THEN output \o end.out ELSE output
  BY RunIs
<1> HIDE DEF bl, s
<1>5. \A t : Ready(t) => DecryptChunk(t, bl) \in DecryptState
  <2> SUFFICES ASSUME NEW t, Ready(t) PROVE DecryptChunk(t, bl) \in DecryptState
    OBVIOUS
  <2>1. Takes(t, DecryptChunk(t, bl))
    BY <1>1, ChunkTaken
  <2>2. QED
    BY <2>1 DEF Takes, Ready
<1>6. Ready(end)
  <2>1. DecryptChunk(s, bl) \in DecryptState
    BY <1>3, <1>5
  <2>2. \A t \in DecryptState : Ready(t) /\ t.ok /\ t.left # <<>> => DecryptChunk(t, bl) \in DecryptState
    BY <1>5
  <2>3. QED
    BY <1>1, <1>3, <2>1, <2>2, Looped
<1> HIDE DEF end
<1>7. /\ end.mlen \in 0..Mask /\ end.data \in Seq(Byte) /\ end.cipher \in Cipher
      /\ end.out \in Seq(Nat) /\ end.ok \in BOOLEAN /\ Len(end.data) < Need(end.mlen)
  BY <1>6 DEF Ready, Short, DecryptState
<1>8. /\ decipher'.mlen = end.mlen /\ decipher'.data = end.data
      /\ decipher'.cipher = end.cipher
  BY <1>4
<1>9. decipher' \in Decipher
  BY <1>4, <1>7 DEF Decipher
<1>10. output \o end.out \in Seq(Nat)
  BY <1>2, <1>7, Joint
<1>11. output' \in Seq(Nat) /\ raised' \in BOOLEAN
  BY <1>2, <1>4, <1>7, <1>10
<1>12. Short(decipher.mlen, decipher.data)'
  <2>1. Short(decipher'.mlen, decipher'.data)
    BY <1>7, <1>8 DEF Short
  <2>2. QED
    BY <2>1 DEF Short, Need
<1>13. QED
  BY <1>7, <1>8, <1>9, <1>11, <1>12 DEF end, s, bl

(* The decipher has the sender's key, and was refused nothing yet.         *)
LEMMA RightRuns ==
    ASSUME NEW w, Inv(w), ~raised,
           NEW p \in Nat, NEW r \in Nat, p <= r, r <= Len(w),
           NEW bytes \in Seq(Byte), bytes # <<>>, Holds(bytes, r), Len(bytes) = r - p,
           Holds(decipher.data, p),
           NEW n \in 0..Len(blocks), At(w, p - Len(decipher.data), n),
           Tuned(decipher.cipher, decipher.mlen, n),
           output = Count(Plain(blocks, n)),
           Run("right", bytes), read' = r,
           UNCHANGED <<plain, iv_sent, cipher, blocks, wire, damaged>>
    PROVE  \/ Aligned(w)' /\ ~raised'
           \/ raised' /\ damaged' /\ Fallen(w)'
<1> DEFINE s   == Start(bytes)
           end == AeadDecrypt(s, blocks)
<1>1. /\ TypeOK /\ Short(decipher.mlen, decipher.data) /\ Sending(w) /\ EncryptInv
      /\ decipher \in Decipher /\ output \in Seq(Nat)
  BY DEF Inv, Sending, TypeOK, Decipher
<1>2. /\ Ready(s) /\ s \in DecryptState
      /\ s.mlen = decipher.mlen /\ s.data = decipher.data
      /\ s.cipher = decipher.cipher /\ s.left = bytes
      /\ s.out = <<>> /\ s.ok
  BY <1>1, StartReady
<1>3. /\ raised' = (raised \/ ~end.ok)
      /\ output' = IF end.ok THEN output \o end.out ELSE output
      /\ decipher'.mlen = end.mlen /\ decipher'.data = end.data
      /\ decipher'.cipher = end.cipher
  BY <1>1, RunIs, RunTyped
<1>4. Holds(s.data \o s.left, r) /\ At(w, r - Len(s.data \o s.left), n)
  <2>1. Holds(decipher.data \o bytes, r)
        /\ r - Len(decipher.data \o bytes) = p - Len(decipher.data)
    BY HeldOn
  <2>2. QED
    BY <1>2, <2>1
<1> HIDE DEF s
<1>5. Standing(w, s, r, n)
  <2>1. output \o <<>> = output
    BY <1>1, ConcatEmptySeq
  <2>2. QED
    BY <1>2, <1>4, <2>1 DEF Standing, Tuned
<1>6. Going(w, end, r) /\ Ready(end) /\ (~end.ok \/ end.left = <<>>)
  <2>1. s.mlen = Waited(n) /\ s.left # <<>>
    BY <1>2 DEF Tuned
  <2>2. QED
    BY <1>1, <1>2, <1>5, <2>1, CallGoes
<1> HIDE DEF end
<1>7. CASE end.ok
  <2>1. PICK m \in 0..Len(blocks) : Standing(w, end, r, m) /\ end.mlen = Waited(m)
    BY <1>6, <1>7 DEF Going, Stopped
  <2>2. end.data \in Seq(Byte) /\ end.left = <<>> /\ end.data \o end.left = end.data
    <3>1. end.data \in Seq(Byte) /\ end.left = <<>>
      BY <1>6, <1>7 DEF Ready, DecryptState
    <3>2. QED
      BY <3>1, ConcatEmptySeq
  <2>3. Holds(end.data, r) /\ At(w, r - Len(end.data), m)
    BY <2>1, <2>2 DEF Standing
  <2>4. Holds(decipher.data, read)'
    BY <1>3, <2>3 DEF Holds
  <2>5. At(w, read - Len(decipher.data), m)'
    BY <1>3, <2>3 DEF At
  <2>6. Tuned(decipher.cipher, decipher.mlen, m)'
    BY <1>3, <2>1 DEF Standing, Tuned, Waited, NonceAfter
  <2>7. (output = Count(Plain(blocks, m)))'
    BY <1>3, <1>7, <2>1 DEF Standing
  <2>8. m \in 0..Len(blocks')
    OBVIOUS
  <2>9. Aligned(w)'
    BY <2>4, <2>5, <2>6, <2>7, <2>8 DEF Aligned
  <2>10. QED
    BY <1>3, <1>7, <2>9
<1>8. CASE ~end.ok
  <2>1. Stopped(w, end, r)
    BY <1>6, <1>8 DEF Going, Standing
  <2>2. /\ end.mlen = 0 /\ end.data = <<>> /\ damaged /\ Met(w, end.cipher, r)
    BY <2>1 DEF Stopped
  <2>3. <<>> \in Seq(Byte) /\ Len(<<>>) = 0 /\ r - 0 = r /\ 0 <= r /\ \A i \in 1..0 : FALSE
    BY EmptySeq
  <2>4. Holds(decipher.data, read)'
    BY <1>3, <2>2, <2>3 DEF Holds
  <2>5. Met(w, decipher.cipher, read - Len(decipher.data))'
    BY <1>3, <2>2, <2>3 DEF Met
  <2>6. (\E k \in 0..Len(plain) : output = Count(k))'
    <3>1. Plain(blocks, n) \in 0..Len(plain)
      BY <1>1, PlainType
    <3>2. output' = Count(Plain(blocks, n))
      BY <1>3, <1>8
    <3>3. QED
      BY <3>1, <3>2
  <2>7. (decipher.mlen = 0)'
    BY <1>3, <2>2
  <2>8. Fallen(w)'
    BY <2>4, <2>5, <2>6, <2>7 DEF Fallen
  <2>9. QED
    BY <1>3, <1>8, <2>2, <2>8
<1>9. QED
  BY <1>7, <1>8

(* What was not refused begins behind the damaged byte it met, so it does  *)
(* not begin with the block of that byte.                                  *)
LEMMA NothingOpens ==
    ASSUME NEW w, Sending(w), NoRepeat,
           NEW c, NEW p \in Nat, Met(w, c, p),
           NEW r \in Nat, p <= r, r <= Len(w),
           NEW all, Holds(all, r), r - Len(all) = p, ~(Len(all) < HeaderLen)
    PROVE  ~Opens(c, SubSeq(all, 1, HeaderLen), blocks)
<1> DEFINE h == SubSeq(all, 1, HeaderLen)
<1> SUFFICES ASSUME Opens(c, h, blocks)
             PROVE  FALSE
  OBVIOUS
<1> HIDE DEF h
<1>1. /\ HeaderLen \in Nat /\ HeaderLen >= 1 /\ IvLen \in Nat
      /\ Len(all) \in Nat /\ all \in Seq(Byte) /\ Len(w) \in Nat
  <2>1. HeaderLen \in Nat /\ HeaderLen >= 1 /\ IvLen \in Nat
    BY AeadConstants, CryptorConstants DEF HeaderLen
  <2>2. all \in Seq(Byte) /\ Len(all) \in Nat
    BY LenProperties DEF Holds
  <2>3. Len(w) \in Nat
    BY LenProperties DEF Sending, Arrives, Arrived
  <2>4. QED
    BY <2>1, <2>2, <2>3
<1>2. PICK d \in (IvLen + 1)..p : wire[d] # w[d] /\ InUse(c) = blocks[w[d][1]].nonce
  BY DEF Met
<1>3. d \in Nat /\ d \in (IvLen + 1)..Len(w) /\ p + 1 \in (IvLen + 1)..Len(w) /\ d < p + 1
  BY <1>1, <1>2
<1>4. Wrote(w, blocks, Len(blocks)) /\ Len(blocks) \in Nat /\ Usable(blocks)
  <2>1. Usable(blocks)
    BY ChunkedUsable DEF Sending, EncryptInv, Made
  <2>2. Len(blocks) \in Nat
    BY <2>1, LenProperties DEF Usable
  <2>3. w # <<>>
    BY <1>1, <1>3, EmptySeq
  <2>4. QED
    BY <2>1, <2>2, <2>3 DEF Sending, Written
<1>5. w[d][1] \in 1..Len(blocks) /\ w[d][2] \in 1..blocks[w[d][1]].size
  BY <1>3, <1>4 DEF Wrote, Follows
<1>6. PICK b \in 1..Len(blocks) : blocks[b].nonce = InUse(c) /\ h = BlockBytes(b, blocks[b])
  BY <1>4, Opened
<1>7. b = w[d][1]
  BY <1>2, <1>5, <1>6 DEF NoRepeat
<1>8. h[1] = all[1] /\ Len(h) = HeaderLen
  <2>1. HeaderLen <= Len(all) /\ 1 \in 1..HeaderLen
    BY <1>1
  <2>2. QED
    BY <1>1, <2>1, Beginning DEF h
<1>9. all[1] = wire[p + 1]
  <2>1. 1 \in 1..Len(all) /\ r - Len(all) + 1 = p + 1
    BY <1>1
  <2>2. QED
    BY <2>1 DEF Holds
<1>10. h[1] = <<b, 1>>
  <2>1. 1 \in 1..blocks[b].size
    <3>1. blocks[b].size >= 1 /\ blocks[b] \in AnyBlock
      BY <1>4, <1>6, ElementOfSeq DEF Usable
    <3>2. QED
      BY <3>1 DEF AnyBlock
  <2>2. QED
    BY <1>6, <2>1 DEF BlockBytes
<1>11. w[p + 1] = <<b, 1>>
  <2>1. p + 1 \in 1..Len(w)
    BY <1>1, <1>3
  <2>2. wire[p + 1] = w[p + 1] \/ wire[p + 1] = <<0, 0>>
    BY <2>1 DEF Sending, Arrives, Arrived
  <2>3. <<b, 1>> # <<0, 0>>
    BY <1>6
  <2>4. QED
    BY <1>8, <1>9, <1>10, <2>2, <2>3
<1>12. b < b \/ (b = b /\ w[d][2] < 1)
  <2>1. \/ w[d][1] < w[p + 1][1]
        \/ w[d][1] = w[p + 1][1] /\ w[d][2] < w[p + 1][2]
    BY <1>3, <1>4, InOrder
  <2>2. w[p + 1][1] = b /\ w[p + 1][2] = 1
    BY <1>11
  <2>3. QED
    BY <1>7, <2>1, <2>2
<1>13. w[d][2] \in Nat /\ w[d][2] >= 1
  BY <1>5
<1>14. QED
  BY <1>6, <1>12, <1>13

(* The decipher has the sender's key, and was refused a block before.      *)
LEMMA FallenRuns ==
    ASSUME NEW w, Inv(w), NoRepeat, Fallen(w),
           NEW r \in Nat, read <= r, r <= Len(w),
           NEW bytes \in Seq(Byte), bytes # <<>>, Holds(bytes, r), Len(bytes) = r - read,
           Run("right", bytes), read' = r,
           UNCHANGED <<plain, iv_sent, cipher, blocks, wire, damaged>>
    PROVE  Fallen(w)'
<1> DEFINE s    == Start(bytes)
           end  == AeadDecrypt(s, blocks)
           data == decipher.data
           p    == read - Len(data)
           all  == data \o bytes
<1>1. /\ TypeOK /\ Short(decipher.mlen, data) /\ Sending(w) /\ EncryptInv
      /\ decipher \in Decipher /\ output \in Seq(Nat) /\ read \in Nat
      /\ Usable(blocks)
  <2>1. TypeOK /\ Short(decipher.mlen, data) /\ Sending(w) /\ EncryptInv
    BY DEF Inv, Sending
  <2>2. decipher \in Decipher /\ output \in Seq(Nat) /\ read \in Nat
    BY <2>1, LenProperties DEF TypeOK, Decipher
  <2>3. Usable(blocks)
    BY <2>1, ChunkedUsable DEF EncryptInv, Made
  <2>4. QED
    BY <2>1, <2>2, <2>3
<1>2. /\ Ready(s) /\ s.mlen = decipher.mlen /\ s.data = data
      /\ s.cipher = decipher.cipher /\ s.left = bytes
      /\ s.out = <<>> /\ s.ok
  BY <1>1, StartReady
<1>3. /\ output' = IF end.ok THEN output \o end.out ELSE output
      /\ decipher'.mlen = end.mlen /\ decipher'.data = end.data
      /\ decipher'.cipher = end.cipher
  BY <1>1, RunIs, RunTyped
<1>4. /\ decipher.mlen = 0 /\ Holds(data, read) /\ Met(w, decipher.cipher, p)
  BY DEF Fallen
<1>5. Holds(all, r) /\ r - Len(all) = p
  <2>1. read \in Nat
    BY <1>1
  <2>2. \A u : Holds(u, read) =>
           Holds(u \o bytes, r) /\ r - Len(u \o bytes) = read - Len(u)
    BY ONLY <2>1, HeldOn, r \in Nat, read <= r, Holds(bytes, r), Len(bytes) = r - read
  <2>3. QED
    BY <1>4, <2>2
<1>6. p \in Nat /\ p <= r
  <2>1. Len(data) \in Nat /\ Len(data) <= read
    BY <1>4, LenProperties DEF Holds
  <2>2. QED
    BY <1>1, <2>1
<1> HIDE DEF s, data, p, all
<1>7. Len(all) < HeaderLen \/ ~Opens(decipher.cipher, SubSeq(all, 1, HeaderLen), blocks)
  BY <1>1, <1>4, <1>5, <1>6, NothingOpens
<1>8. all = s.data \o s.left
  BY <1>2 DEF all
<1>9. /\ end.mlen = 0 /\ end.out = <<>>
      /\ InUse(end.cipher) = InUse(decipher.cipher)
      /\ end.data = all \/ end.data = <<>>
  <2>1. s.mlen = 0 /\ s.left # <<>>
    BY <1>2, <1>4
  <2>2. Len(all) < HeaderLen \/ ~Opens(s.cipher, SubSeq(all, 1, HeaderLen), blocks)
    BY <1>2, <1>7
  <2>3. /\ end.mlen = 0 /\ end.out = s.out
        /\ InUse(end.cipher) = InUse(s.cipher)
        /\ end.data = all \/ end.data = <<>>
    BY <1>1, <1>2, <1>8, <2>1, <2>2, CallCloses
  <2>4. QED
    BY <1>2, <2>3
<1> HIDE DEF end
<1>10. Holds(end.data, r) /\ Met(w, end.cipher, r - Len(end.data))
  <2>1. PICK d \in (IvLen + 1)..p : wire[d] # w[d] /\ InUse(decipher.cipher) = blocks[w[d][1]].nonce
    BY <1>4 DEF Met
  <2>2. CASE end.data = all
    <3>1. Met(w, end.cipher, p)
      BY <1>9, <2>1 DEF Met
    <3>2. QED
      BY <1>5, <2>2, <3>1
  <2>3. CASE end.data = <<>>
    <3>1. <<>> \in Seq(Byte) /\ Len(<<>>) = 0 /\ r - 0 = r /\ 0 <= r /\ \A i \in 1..0 : FALSE
      BY EmptySeq
    <3>2. Holds(end.data, r)
      BY <2>3, <3>1 DEF Holds
    <3>3. d \in (IvLen + 1)..r
      BY <1>6, <2>1, CryptorConstants
    <3>4. Met(w, end.cipher, r)
      BY <1>9, <2>1, <3>3 DEF Met
    <3>5. QED
      BY <2>3, <3>1, <3>2, <3>4
  <2>4. QED
    BY <1>9, <2>2, <2>3
<1>11. (decipher.mlen = 0)'
  BY <1>3, <1>9
<1>12. Holds(decipher.data, read)'
  BY <1>3, <1>10 DEF Holds
<1>13. Met(w, decipher.cipher, read - Len(decipher.data))'
  BY <1>3, <1>10 DEF Met
<1>14. output' = output
  <2>1. output \o <<>> = output
    BY <1>1, ConcatEmptySeq
  <2>2. QED
    BY <1>3, <1>9, <2>1
<1>15. (\E k \in 0..Len(plain) : output = Count(k))'
  BY <1>14 DEF Fallen
<1>16. QED
  BY <1>11, <1>12, <1>13, <1>15 DEF Fallen

(* The decipher has another key: nothing opens.                            *)
LEMMA WrongRuns ==
    ASSUME TypeOK, Short(decipher.mlen, decipher.data), EncryptInv, decipher.mlen = 0,
           NEW key, key # "right", NEW bytes \in Seq(Byte), bytes # <<>>, Run(key, bytes)
    PROVE  decipher'.mlen = 0 /\ output' = output
<1> DEFINE s    == Start(bytes)
           end  == AeadDecrypt(s, <<>>)
           all  == decipher.data \o bytes
<1>1. decipher \in Decipher /\ output \in Seq(Nat)
  BY DEF TypeOK, Decipher
<1>2. /\ Ready(s) /\ s.mlen = 0 /\ s.data = decipher.data
      /\ s.cipher = decipher.cipher /\ s.left = bytes
      /\ s.out = <<>> /\ s.ok
  BY <1>1, StartReady
<1>3. /\ output' = IF end.ok THEN output \o end.out ELSE output
      /\ decipher'.mlen = end.mlen
  <2> DEFINE bl == IF key = "right" THEN blocks ELSE <<>>
             t  == AeadDecrypt(s, bl)
  <2>1. /\ output' = IF t.ok THEN output \o t.out ELSE output
        /\ decipher'.mlen = t.mlen
    BY RunIs, RunTyped
  <2>2. bl = <<>>
    OBVIOUS
  <2> HIDE DEF bl, s
  <2>3. QED
    BY <2>1, <2>2
<1> HIDE DEF s
<1>4. <<>> \in Seq(AnyBlock) /\ Len(<<>>) = 0 /\ 1..Len(<<>>) = {}
  BY EmptySeq
<1>5. Usable(<<>>)
  BY <1>4 DEF Usable
<1>6. ~Opens(s.cipher, SubSeq(all, 1, HeaderLen), <<>>)
  <2>1. Opens(s.cipher, SubSeq(all, 1, HeaderLen), <<>>) => \E b \in 1..Len(<<>>) : TRUE
    BY <1>5, Opened
  <2>2. QED
    BY <1>4, <2>1
<1>7. end.mlen = 0 /\ end.out = <<>>
  <2>1. all = s.data \o s.left /\ s.left # <<>>
    BY <1>2
  <2> HIDE DEF all
  <2>2. end.mlen = 0 /\ end.out = s.out
    BY <1>2, <1>5, <1>6, <2>1, CallCloses
  <2>3. QED
    BY <1>2, <2>2
<1> HIDE DEF end
<1>8. output \o <<>> = output
  BY <1>1, ConcatEmptySeq
<1>9. QED
  BY <1>3, <1>7, <1>8

(* An empty buffer is the last bytes of any number.                        *)
LEMMA HoldsNothing ==
    ASSUME NEW r \in Nat
    PROVE  Holds(<<>>, r) /\ r - Len(<<>>) = r
<1>1. <<>> \in Seq(Byte) /\ Len(<<>>) = 0 /\ r - 0 = r /\ 0 <= r /\ \A i \in 1..0 : FALSE
  BY EmptySeq
<1>2. QED
  BY <1>1 DEF Holds

(* Behind the salt is the first block, under the nonce all begin with.     *)
LEMMA FirstBlock ==
    ASSUME NEW w, Sending(w), Len(w) # 0
    PROVE  /\ 0 \in 0..Len(blocks) /\ At(w, IvLen, 0) /\ NonceAfter(blocks, cipher, 0) = ZeroNonce
           /\ Waited(0) = 0 /\ Plain(blocks, 0) = 0
<1>1. Chunked(blocks) /\ NonceAfter(blocks, cipher, 0) = ZeroNonce
  BY DEF Sending, EncryptInv, Made, Chained
<1>2. Len(blocks) \in Nat /\ blocks \in Seq(AnyBlock)
  BY <1>1, LenProperties DEF Chunked
<1>3. blocks # <<>> /\ Wrote(w, blocks, Len(blocks))
  <2>1. blocks # <<>>
    BY EmptySeq DEF Sending, Written
  <2>2. QED
    BY <2>1 DEF Sending, Written
<1>4. Len(blocks) # 0
  BY <1>2, <1>3, EmptySeq
<1>5. IvLen < Len(w) /\ w[IvLen + 1] = <<1, 1>> /\ IvLen \in Nat /\ Len(w) \in Nat
  <2>1. w \in Seq(Byte) /\ Len(w) > IvLen /\ w[IvLen + 1] = <<1, 1>>
    BY <1>3, <1>4 DEF Wrote
  <2>2. Len(w) \in Nat /\ IvLen \in Nat
    BY <2>1, LenProperties, CryptorConstants
  <2>3. QED
    BY <2>1, <2>2
<1>6. 0 \in 0..Len(blocks) /\ 0 + 1 = 1 /\ IvLen \in IvLen..Len(w)
  BY <1>2, <1>5
<1>7. At(w, IvLen, 0)
  BY <1>4, <1>5, <1>6 DEF At
<1>8. 0 % 2 # 1
  OBVIOUS
<1>9. Waited(0) = 0 /\ Plain(blocks, 0) = 0
  BY <1>8 DEF Waited, Plain
<1>10. QED
  BY <1>1, <1>6, <1>7, <1>9

(* The segment a call of decrypt is given.                                 *)
LEMMA SegmentGiven ==
    ASSUME NEW w, Inv(w), NEW k, k \in 1..(Len(wire) - read)
    PROVE  LET buf == SubSeq(wire, read + 1, read + k) IN
           /\ read + k \in Nat /\ read + k <= Len(w) /\ read + k \in 0..Len(wire)
           /\ read + k >= IvLen \/ read < IvLen
           /\ read \in Nat /\ k \in Nat /\ read <= read + k /\ (read + k) - read = k
           /\ Holds(buf, read + k) /\ Len(buf) = k /\ buf \in Seq(Byte) /\ buf # <<>>
           /\ Len(w) # 0
<1> DEFINE r   == read + k
           buf == SubSeq(wire, read + 1, r)
<1>1. /\ wire \in Seq(Byte) /\ read \in 0..Len(wire) /\ Len(wire) = Len(w)
      /\ Len(wire) \in Nat /\ IvLen \in Nat
  <2>1. wire \in Seq(Byte) /\ read \in 0..Len(wire) /\ Len(wire) = Len(w)
    BY DEF Inv, TypeOK, Sending, Arrives, Arrived
  <2>2. QED
    BY <2>1, LenProperties, CryptorConstants
<1>2. /\ k \in Nat /\ k >= 1 /\ read \in Nat /\ r \in Nat /\ r <= Len(w) /\ r \in 0..Len(wire)
      /\ read <= r /\ r - read = k /\ (r >= IvLen \/ read < IvLen) /\ Len(w) # 0
  BY <1>1
<1>3. Holds(buf, r) /\ Len(buf) = k
  BY <1>1, <1>2, SegmentHeld
<1>4. buf \in Seq(Byte)
  BY <1>3 DEF Holds
<1>5. buf # <<>>
  BY <1>2, <1>3, EmptySeq
<1>6. QED
  BY <1>2, <1>3, <1>4, <1>5

(* What decrypt does not touch, and the domains.                           *)
LEMMA DecryptTyped ==
    ASSUME NEW w, Inv(w), UNCHANGED <<plain, iv_sent, cipher, blocks, wire, damaged>>,
           read' \in 0..Len(wire), keyed' \in {"none", "right", "wrong"},
           decipher' \in Decipher, Short(decipher.mlen, decipher.data)',
           output' \in Seq(Nat), raised' \in BOOLEAN, DecryptInv(w)'
    PROVE  Inv(w)'
<1>1. TypeOK'
  BY DEF Inv, TypeOK, Decipher
<1>2. EncryptInv'
  BY DEF Inv, Sending, EncryptInv
<1>3. Sending(w)'
  BY <1>2 DEF Inv, Sending, Arrives, Arrived
<1>4. QED
  BY <1>1, <1>3 DEF Inv

(* The first call of decrypt preserves the invariant: with the whole salt  *)
(* it has the key of the sender, and is where the first block begins.      *)
LEMMA FirstDecryptKeeps ==
    ASSUME NEW w, Inv(w), NEW k, Decrypt(k), keyed = "none"
    PROVE  Inv(w)'
<1> DEFINE r    == read + k
           buf  == SubSeq(wire, read + 1, r)
           rest == Drop(buf, IvLen)
           key  == IF k >= IvLen THEN "right" ELSE "wrong"
<1>1. /\ k \in 1..(Len(wire) - read) /\ read' = r /\ keyed' = key
      /\ IF rest = <<>> THEN UNCHANGED <<decipher, output, raised>> ELSE Run(key, rest)
      /\ UNCHANGED <<plain, iv_sent, cipher, blocks, wire, damaged>>
  BY DEF Decrypt
<1>2. /\ read = 0 /\ output = <<>> /\ ~raised
      /\ Sound(decipher.cipher) /\ InUse(decipher.cipher) = ZeroNonce
      /\ decipher.mlen = 0 /\ decipher.data = <<>>
  BY DEF Inv, DecryptInv
<1>3. /\ r \in Nat /\ r <= Len(w) /\ r \in 0..Len(wire) /\ k \in Nat
      /\ Holds(buf, r) /\ Len(buf) = k /\ buf \in Seq(Byte) /\ Len(w) # 0
  BY <1>1, SegmentGiven
<1>4. r = k
  BY <1>2, <1>3
<1>5. /\ TypeOK /\ Short(decipher.mlen, decipher.data) /\ Sending(w) /\ EncryptInv
      /\ decipher \in Decipher /\ output \in Seq(Nat) /\ raised \in BOOLEAN
      /\ IvLen \in Nat
  BY CryptorConstants DEF Inv, Sending, TypeOK, Decipher
<1>6. /\ 0 \in 0..Len(blocks) /\ At(w, IvLen, 0) /\ Tuned(decipher.cipher, decipher.mlen, 0)
      /\ Plain(blocks, 0) = 0 /\ output = Count(0)
  <2>1. /\ 0 \in 0..Len(blocks) /\ At(w, IvLen, 0) /\ NonceAfter(blocks, cipher, 0) = ZeroNonce
        /\ Waited(0) = 0 /\ Plain(blocks, 0) = 0
    BY <1>3, <1>5, FirstBlock
  <2>2. Count(0) = <<>>
    BY CountType
  <2>3. QED
    BY <1>2, <2>1, <2>2 DEF Tuned
<1> HIDE DEF r, buf
<1>7. CASE k < IvLen
  <2>1. rest = <<>>
    <3>1. IvLen + 1 > Len(buf) /\ IvLen + 1 \in Nat
      BY <1>3, <1>5, <1>7
    <3>2. SubSeq(buf, IvLen + 1, Len(buf)) = <<>>
      BY <1>3, <1>5, <1>7, <3>1
    <3>3. QED
      BY <3>2 DEF Drop
  <2>2. ~(k >= IvLen)
    BY <1>3, <1>5, <1>7
  <2>3. keyed' = "wrong" /\ UNCHANGED <<decipher, output, raised>>
    BY <1>1, <2>1, <2>2
  <2>4. DecryptInv(w)'
    BY <1>2, <2>3 DEF DecryptInv
  <2>5. Short(decipher.mlen, decipher.data)'
    BY <1>5, <2>3 DEF Short, Need
  <2>6. QED
    BY <1>1, <1>3, <1>5, <2>3, <2>4, <2>5, DecryptTyped
<1>8. CASE ~(k < IvLen)
  <2>1. k >= IvLen /\ IvLen <= Len(buf)
    BY <1>3, <1>5, <1>8
  <2>2. Holds(rest, r) /\ Len(rest) = r - IvLen /\ rest \in Seq(Byte)
    <3>1. Holds(rest, r) /\ Len(rest) = r - IvLen
      BY <1>3, <1>4, <1>5, <2>1, RestHeld
    <3>2. QED
      BY <3>1 DEF Holds
  <2>3. keyed' = "right" /\ key = "right"
    BY <1>1, <2>1
  <2>4. read' >= IvLen
    BY <1>1, <1>4, <2>1
  <2> HIDE DEF rest, key
  <2>5. CASE rest = <<>>
    <3>1. UNCHANGED <<decipher, output, raised>>
      BY <1>1, <2>5
    <3>2. r = IvLen
      <4>1. Len(rest) = 0
        BY <2>5, EmptySeq
      <4>2. QED
        BY <1>3, <1>5, <2>2, <4>1
    <3>3. Holds(decipher.data, r) /\ r - Len(decipher.data) = r
      BY <1>2, <1>3, HoldsNothing
    <3>4. Holds(decipher.data, read)'
      BY <1>1, <3>1, <3>3 DEF Holds
    <3>5. At(w, read - Len(decipher.data), 0)'
      BY <1>1, <1>6, <3>1, <3>2, <3>3 DEF At
    <3>6. Tuned(decipher.cipher, decipher.mlen, 0)'
      BY <1>1, <1>6, <3>1 DEF Tuned, Waited, NonceAfter
    <3>7. (output = Count(Plain(blocks, 0)))' /\ 0 \in 0..Len(blocks')
      BY <1>1, <1>6, <3>1
    <3>8. Aligned(w)'
      BY <3>4, <3>5, <3>6, <3>7 DEF Aligned
    <3>9. DecryptInv(w)'
      BY <1>2, <2>3, <2>4, <3>1, <3>8 DEF DecryptInv
    <3>10. Short(decipher.mlen, decipher.data)'
      BY <1>5, <3>1 DEF Short, Need
    <3>11. QED
      BY <1>1, <1>3, <1>5, <2>3, <3>1, <3>9, <3>10, DecryptTyped
  <2>6. CASE rest # <<>>
    <3>1. Run("right", rest)
      BY <1>1, <2>3, <2>6
    <3>2. Holds(decipher.data, IvLen) /\ IvLen - Len(decipher.data) = IvLen
      BY <1>2, <1>5, HoldsNothing
    <3>3. IvLen <= r /\ read' = r
      BY <1>1, <1>4, <2>1
    <3>4. At(w, IvLen - Len(decipher.data), 0) /\ output = Count(Plain(blocks, 0))
      BY <1>6, <3>2
    <3>5. \/ Aligned(w)' /\ ~raised'
          \/ raised' /\ damaged' /\ Fallen(w)'
      BY <1>1, <1>2, <1>3, <1>5, <1>6, <2>2, <2>6, <3>1, <3>2, <3>3, <3>4, RightRuns
    <3>6. DecryptInv(w)'
      BY <2>3, <2>4, <3>5 DEF DecryptInv
    <3>7. /\ decipher' \in Decipher /\ Short(decipher.mlen, decipher.data)'
          /\ output' \in Seq(Nat) /\ raised' \in BOOLEAN
      BY <1>5, <2>2, <2>6, <3>1, RunTyped
    <3>8. QED
      BY <1>1, <1>3, <2>3, <3>6, <3>7, DecryptTyped
  <2>7. QED
    BY <2>5, <2>6
<1>9. QED
  BY <1>7, <1>8

(* Every call of decrypt preserves it.                                     *)
LEMMA DecryptKeeps ==
    ASSUME NEW w, Inv(w), NEW k, Decrypt(k)
    PROVE  Inv(w)'
<1> DEFINE r    == read + k
           buf  == SubSeq(wire, read + 1, r)
<1>1. CASE keyed = "none"
  BY <1>1, FirstDecryptKeeps
<1>2. CASE keyed # "none"
  <2>1. /\ k \in 1..(Len(wire) - read) /\ read' = r /\ keyed' = keyed
        /\ Run(keyed, buf)
        /\ UNCHANGED <<plain, iv_sent, cipher, blocks, wire, damaged>>
    BY <1>2 DEF Decrypt
  <2>2. /\ r \in Nat /\ r <= Len(w) /\ r \in 0..Len(wire) /\ read \in Nat
        /\ read <= r /\ Holds(buf, r) /\ Len(buf) = r - read
        /\ buf \in Seq(Byte) /\ buf # <<>>
    <3>1. /\ r \in Nat /\ r <= Len(w) /\ r \in 0..Len(wire) /\ read \in Nat
          /\ read <= r /\ r - read = k /\ Holds(buf, r) /\ Len(buf) = k
          /\ buf \in Seq(Byte) /\ buf # <<>>
      BY <2>1, SegmentGiven
    <3>2. QED
      BY <3>1
  <2>3. /\ TypeOK /\ Short(decipher.mlen, decipher.data) /\ EncryptInv
        /\ keyed \in {"right", "wrong"}
    BY <1>2 DEF Inv, Sending, TypeOK
  <2> HIDE DEF r, buf
  <2>4. /\ decipher' \in Decipher /\ Short(decipher.mlen, decipher.data)'
        /\ output' \in Seq(Nat) /\ raised' \in BOOLEAN
    BY <2>1, <2>2, <2>3, RunTyped
  <2>5. DecryptInv(w)'
    <3>1. CASE keyed = "wrong"
      <4>1. output = <<>> /\ decipher.mlen = 0
        BY <3>1 DEF Inv, DecryptInv
      <4>2. keyed # "right"
        BY <3>1
      <4>3. decipher'.mlen = 0 /\ output' = output
        BY <2>1, <2>2, <2>3, <4>1, <4>2, WrongRuns
      <4>4. QED
        BY <2>1, <3>1, <4>1, <4>3 DEF DecryptInv
    <3>2. CASE keyed = "right"
      <4>1. /\ read >= IvLen
            /\ \/ Aligned(w) /\ ~raised
               \/ raised /\ damaged /\ (NoRepeat => Fallen(w))
        BY <3>2 DEF Inv, DecryptInv
      <4>2. read' >= IvLen /\ keyed' = "right" /\ Run("right", buf)
        BY <2>1, <2>2, <3>2, <4>1, CryptorConstants
      <4>3. CASE Aligned(w) /\ ~raised
        <5>1. Holds(decipher.data, read)
          BY <4>3 DEF Aligned
        <5>2. PICK n \in 0..Len(blocks) :
                 /\ At(w, read - Len(decipher.data), n)
                 /\ Tuned(decipher.cipher, decipher.mlen, n)
                 /\ output = Count(Plain(blocks, n))
          BY <4>3 DEF Aligned
        <5>3. \/ Aligned(w)' /\ ~raised'
              \/ raised' /\ damaged' /\ Fallen(w)'
          BY <2>1, <2>2, <4>2, <4>3, <5>1, <5>2, RightRuns
        <5>4. QED
          BY <4>2, <5>3 DEF DecryptInv
      <4>4. CASE raised /\ damaged /\ (NoRepeat => Fallen(w))
        <5>1. raised' /\ damaged'
          <6>1. raised'
            BY <2>1, <4>4 DEF Run
          <6>2. QED
            BY <2>1, <4>4, <6>1
        <5>2. NoRepeat' => Fallen(w)'
          <6>1. NoRepeat' => NoRepeat
            BY <2>1 DEF NoRepeat
          <6>2. NoRepeat => Fallen(w)'
            BY <2>1, <2>2, <4>2, <4>4, FallenRuns
          <6>3. QED
            BY <6>1, <6>2
        <5>3. QED
          BY <4>2, <5>1, <5>2 DEF DecryptInv
      <4>5. QED
        BY <4>1, <4>3, <4>4
    <3>3. QED
      BY <2>3, <3>1, <3>2
  <2>6. QED
    BY <2>1, <2>2, <2>3, <2>4, <2>5, DecryptTyped
<1>3. QED
  BY <1>1, <1>2

(* So does every step.                                                     *)
LEMMA StepKeeps ==
    ASSUME StreamInv, [Next]_vars
    PROVE  StreamInv'
<1>1. PICK w : Inv(w)
  BY DEF StreamInv
<1>2. ASSUME NEW i \in 1..Len(wire), Damage(i)
      PROVE  StreamInv'
  BY <1>1, <1>2, DamageKeeps DEF StreamInv
<1>3. ASSUME NEW n \in 1..MaxPlain, Encrypt(n)
      PROVE  StreamInv'
  BY <1>1, <1>3, EncryptKeeps
<1>4. ASSUME NEW k \in 1..Len(wire), Decrypt(k)
      PROVE  StreamInv'
  BY <1>1, <1>4, DecryptKeeps DEF StreamInv
<1>5. CASE UNCHANGED vars
  <2>1. UNCHANGED <<plain, iv_sent, cipher, blocks, wire, read, decipher, keyed, output, raised, damaged>>
    BY <1>5 DEF vars
  <2>2. TypeOK' /\ Short(decipher.mlen, decipher.data)'
    BY <1>1, <2>1 DEF Inv, TypeOK, Short, Need
  <2>3. Sending(w)'
    BY <1>1, <2>1 DEF Inv, Sending, EncryptInv, Arrives, Arrived
  <2>4. Aligned(w) => Aligned(w)'
    BY <2>1 DEF Aligned, Holds, At, Tuned, Waited, NonceAfter
  <2>5. Fallen(w) => Fallen(w)'
    BY <2>1 DEF Fallen, Holds, Met
  <2>6. NoRepeat' => NoRepeat
    BY <2>1 DEF NoRepeat
  <2>7. DecryptInv(w)'
    BY <1>1, <2>1, <2>4, <2>5, <2>6 DEF Inv, DecryptInv
  <2>8. Inv(w)'
    BY <2>2, <2>3, <2>7 DEF Inv
  <2>9. QED
    BY <2>8 DEF StreamInv
<1>6. QED
  BY <1>2, <1>3, <1>4, <1>5 DEF Next

(* The invariant: the encrypting side has sent its salt and blocks that    *)
(* alternate between headers and payloads of consecutive plaintext under   *)
(* consecutive nonces; the decrypting side is at the beginning of a block  *)
(* with its nonce, or was refused a damaged one and has stayed at its      *)
(* nonce (aead.py 103-322).                                                *)
THEOREM Invariance == Spec => []StreamInv
<1>1. Init => StreamInv
  BY InvInit DEF StreamInv
<1>2. StreamInv /\ [Next]_vars => StreamInv'
  BY StepKeeps
<1>3. QED
  BY <1>1, <1>2, PTL DEF Spec

-----------------------------------------------------------------------------
(* What follows from the invariant.                                        *)

(* Every variable stays in its domain, also when the nonces come round,    *)
(* after damage, and after an exception (aead.py 124-322).                 *)
THEOREM TypeCorrect == Spec => []TypeOK
<1>1. StreamInv => TypeOK
  BY DEF StreamInv, Inv
<1>2. QED
  BY <1>1, Invariance, PTL

(* What decrypt keeps of a segment is always less than the header or block *)
(* it waits for, whatever it was given (aead.py 248-294).                  *)
THEOREM WaitsForMore == Spec => []Waiting
<1>1. StreamInv => Waiting
  BY DEF StreamInv, Inv, Short, Need, Waiting
<1>2. QED
  BY <1>1, Invariance, PTL

(* Without damage, and with the whole salt in the first segment, no call   *)
(* of decrypt raises (cryptor.py 145-152, aead.py 248-322).                *)
THEOREM NoneRaises == Spec => []NeverRaises
<1>1. StreamInv => NeverRaises
  BY DEF StreamInv, Inv, TypeOK, DecryptInv, NeverRaises
<1>2. QED
  BY <1>1, Invariance, PTL

(* Without damage, the stream arrives as it was sent.                      *)
LEMMA Undamaged ==
    ASSUME NEW w, Inv(w), ~damaged
    PROVE  /\ Len(wire) = Len(w) /\ Len(wire) \in Nat /\ wire \in Seq(Byte)
           /\ \A p \in 1..Len(wire) : wire[p] = w[p]
<1>1. wire \in Seq(Byte) /\ Len(wire) = Len(w)
  BY DEF Inv, Sending, Arrives, Arrived
<1>2. Len(wire) \in Nat
  BY <1>1, LenProperties
<1>3. \A p \in 1..Len(wire) : wire[p] = w[p]
  BY <1>1 DEF Inv, Sending, Arrives, Arrived
<1>4. QED
  BY <1>1, <1>2, <1>3

(* The two sides work under the same nonce, whichever libraries they use   *)
(* (openssl.py 180-199, 259, 276, sodium.py 285, 308, mbedtls.py 332, 359).*)
THEOREM SameNonces == Spec => []SameNonce
<1>1. StreamInv => SameNonce
  <2> DEFINE p == read - Len(decipher.data)
  <2> SUFFICES ASSUME NEW w, Inv(w), keyed = "right", ~damaged, ~raised, p + 1 <= Len(wire)
               PROVE  wire[p + 1][2] = 1 /\ blocks[wire[p + 1][1]].nonce = InUse(decipher.cipher)
    BY DEF StreamInv, SameNonce
  <2>1. /\ Len(wire) = Len(w) /\ Len(wire) \in Nat
        /\ \A q \in 1..Len(wire) : wire[q] = w[q]
    BY Undamaged
  <2>2. Aligned(w)
    BY DEF Inv, DecryptInv
  <2>3. PICK n \in 0..Len(blocks) : At(w, p, n) /\ Tuned(decipher.cipher, decipher.mlen, n)
    BY <2>2 DEF Aligned
  <2> HIDE DEF p
  <2>4. p \in Nat
    BY <2>1, <2>3, CryptorConstants DEF At
  <2>5. n # Len(blocks) /\ w[p + 1] = <<n + 1, 1>>
    BY <2>1, <2>3, <2>4 DEF At
  <2>6. n < Len(blocks)
    <3>1. Len(blocks) \in Nat
      BY ChunkedUsable DEF Inv, Sending, EncryptInv, Made
    <3>2. QED
      BY <2>5, <3>1
  <2>7. wire[p + 1] = <<n + 1, 1>>
    BY <2>1, <2>4, <2>5
  <2>8. blocks[n + 1].nonce = InUse(decipher.cipher)
    BY <2>3, <2>6 DEF Tuned, NonceAfter
  <2>9. QED
    BY <2>7, <2>8
<1>2. QED
  BY <1>1, Invariance, PTL

(* What the decipher waits for is the next block, whole.                   *)
LEMMA NextBlock ==
    ASSUME Chunked(blocks), NEW n \in 0..Len(blocks), n < Len(blocks)
    PROVE  HasSize(blocks, n + 1, Need(Waited(n)))
<1>1. CASE n % 2 = 1
  <2>1. Waited(n) \in Nat /\ Waited(n) \in 1..Mask /\ HasSize(blocks, n + 1, Waited(n) + TagLen)
    BY <1>1, PayloadBlock
  <2>2. Waited(n) > 0
    BY <2>1
  <2>3. QED
    BY <2>1, <2>2 DEF Need
<1>2. CASE n % 2 # 1
  <2>1. Waited(n) = 0 /\ HasSize(blocks, n + 1, HeaderLen)
    BY <1>2, HeaderBlock
  <2>2. ~(0 > 0)
    OBVIOUS
  <2>3. QED
    BY <2>1, <2>2 DEF Need
<1>3. QED
  BY <1>1, <1>2

(* When every byte sent was read, all of the plaintext was returned, and   *)
(* the decipher keeps nothing (aead.py 248-322).                           *)
THEOREM AllReturned == Spec => []Prompt
<1>1. StreamInv => Prompt
  <2> DEFINE data == decipher.data
             l == Len(data)
             N == Len(blocks)
  <2> SUFFICES ASSUME NEW w, Inv(w), read = Len(wire), keyed # "wrong", ~damaged
               PROVE  output = plain /\ decipher.mlen = 0 /\ data = <<>>
    BY DEF StreamInv, Prompt
  <2>1. Len(wire) = Len(w) /\ Len(wire) \in Nat
    BY Undamaged
  <2>2. /\ Sending(w) /\ EncryptInv /\ Chunked(blocks) /\ N \in Nat /\ N % 2 = 0
        /\ Plain(blocks, N) = Len(plain) /\ plain = Count(Len(plain))
    <3>1. /\ Sending(w) /\ EncryptInv /\ Chunked(blocks) /\ N % 2 = 0
          /\ Plain(blocks, N) = Len(plain) /\ plain = Count(Len(plain))
      BY DEF Inv, Sending, EncryptInv, Made, Chunked
    <3>2. QED
      BY <3>1, ChunkedUsable
  <2>3. CASE keyed = "none"
    <3>1. read = 0 /\ output = <<>> /\ decipher.mlen = 0 /\ data = <<>>
      BY <2>3 DEF Inv, DecryptInv
    <3>2. Len(w) = 0
      BY <2>1, <3>1
    <3>3. ~Wrote(w, blocks, N)
      BY <3>2, CryptorConstants DEF Wrote
    <3>4. blocks = <<>>
      BY <2>2, <3>3 DEF Sending, Written
    <3>5. N = 0
      BY <3>4, EmptySeq
    <3>6. Len(plain) = 0
      BY <2>2, <3>5 DEF Plain
    <3>7. plain = <<>>
      BY <2>2, <3>6, CountType
    <3>8. QED
      BY <3>1, <3>7
  <2>4. CASE keyed = "right"
    <3>1. Aligned(w) /\ Short(decipher.mlen, data)
      BY <2>4 DEF Inv, DecryptInv
    <3>2. PICK n \in 0..N : /\ At(w, read - l, n) /\ Tuned(decipher.cipher, decipher.mlen, n)
                            /\ output = Count(Plain(blocks, n))
      BY <3>1 DEF Aligned
    <3>3. decipher.mlen = Waited(n) /\ l < Need(Waited(n))
      BY <3>1, <3>2 DEF Tuned, Short
    <3>4. data \in Seq(Byte) /\ l \in Nat
      BY LenProperties DEF Inv, TypeOK
    <3> HIDE DEF data, l, N
    <3>5. CASE n = N
      <4>1. read - l = Len(w)
        BY <3>2, <3>5 DEF At, N
      <4>2. l = 0
        BY <2>1, <3>4, <4>1
      <4>3. data = <<>>
        BY <3>4, <4>2, EmptySeq DEF l
      <4>4. Waited(N) = 0
        BY <2>2 DEF Waited
      <4>5. QED
        BY <2>2, <3>2, <3>3, <3>5, <4>3, <4>4
    <3>6. CASE n # N
      <4> DEFINE z == Need(Waited(n))
                 q == read - l
      <4>1. n < N /\ n \in Nat
        BY <2>2, <3>6
      <4>2. HasSize(blocks, n + 1, z)
        BY <2>2, <4>1, NextBlock DEF N
      <4>3. q \in Nat /\ IvLen <= q /\ q < Len(w) /\ w[q + 1] = <<n + 1, 1>>
        BY <2>1, <3>2, <3>6, CryptorConstants DEF At, N
      <4>4. Starts(w, q, n + 1)
        BY <4>3 DEF Starts
      <4>5. Wrote(w, blocks, N)
        <5>1. blocks # <<>>
          BY <2>2, <4>1, EmptySeq DEF N
        <5>2. QED
          BY <2>2, <5>1 DEF Sending, Written, N
      <4> HIDE DEF z
      <4>6. IsThere(w, q, n, z, N)
        BY <2>2, <4>1, <4>2, <4>4, <4>5, BlockAt
      <4>7. q + z <= Len(w)
        BY <4>6 DEF IsThere
      <4>8. l < z /\ z \in Nat
        BY <3>3, <4>2 DEF z, HasSize
      <4>9. QED
        BY <2>1, <3>4, <4>7, <4>8
    <3>7. QED
      BY <3>5, <3>6 DEF data
  <2>5. QED
    BY <2>3, <2>4 DEF Inv, TypeOK
<1>2. QED
  BY <1>1, Invariance, PTL

-----------------------------------------------------------------------------
(* How the nonces come round.  Nothing is multiplied here: a set of nonces *)
(* that has the next one of each has, digit by digit, every one.           *)

(* The first k digits of a nonce are all v.                                *)
Low(x, k, v) == \A i \in 1..k : x[i] = v

(* Two nonces have the same digits after the first k.                      *)
Agree(x, y, k) == \A i \in 1..NonceLen : i > k => x[i] = y[i]

Closed(S) == S \subseteq Nonce /\ \A x \in S : NonceIncrement(x) \in S

(* With one nonce of S whose first k digits are 0, S has every other.      *)
Fills(S, k) ==
    \A x \in S : Low(x, k, 0) => \A y \in Nonce : Agree(x, y, k) => y \in S

(* Division by the base, of what a digit and a carry add up to.            *)
LEMMA Digits ==
    ASSUME NEW a \in Nat
    PROVE  /\ NonceBase \in Nat /\ NonceBase >= 2
           /\ a < NonceBase => a \div NonceBase = 0 /\ a % NonceBase = a
           /\ a = NonceBase => a \div NonceBase = 1 /\ a % NonceBase = 0
<1>1. NonceBase \in Nat /\ NonceBase >= 2
  BY AeadConstants
<1>2. a < NonceBase => a \div NonceBase = 0 /\ a % NonceBase = a
  BY <1>1
<1>3. a = NonceBase => a \div NonceBase = 1 /\ a % NonceBase = 0
  BY <1>1
<1>4. QED
  BY <1>1, <1>2, <1>3

(* Digits that are all at their last value go to 0, the next one goes on,  *)
(* and those behind it stay, unless it goes to 0 as well.                  *)
LEMMA RollsOver ==
    ASSUME NEW nonce \in Nonce, NEW k \in 1..NonceLen, Low(nonce, k - 1, NonceBase - 1)
    PROVE  LET y == NonceIncrement(nonce) IN
           /\ y \in Nonce /\ Low(y, k - 1, 0)
           /\ nonce[k] = NonceBase - 1 => y[k] = 0
           /\ nonce[k] < NonceBase - 1 => y[k] = nonce[k] + 1 /\ Agree(nonce, y, k)
<1> DEFINE B == NonceBase
           y == NonceIncrement(nonce)
<1>1. /\ NonceLen \in Nat /\ B \in Nat /\ B >= 2 /\ k \in Nat
      /\ \A i \in 1..NonceLen : nonce[i] \in Nat /\ nonce[i] <= B - 1
  BY AeadConstants DEF Nonce
<1>2. PICK c : /\ Carries(c, nonce)
               /\ y = [i \in 1..NonceLen |-> (c[i - 1] + nonce[i]) % B]
  BY Incremented
<1>3. /\ c[0] = 1
      /\ \A i \in 1..NonceLen : c[i] = (c[i - 1] + nonce[i]) \div B
      /\ \A i \in 1..NonceLen : y[i] = (c[i - 1] + nonce[i]) % B
  BY <1>2 DEF Carries
<1>4. \A a \in Nat : /\ a < B => a \div B = 0 /\ a % B = a
                     /\ a = B => a \div B = 1 /\ a % B = 0
  BY ONLY Digits
<1> HIDE DEF B, y
<1>5. \A i \in 0..(k - 1) : c[i] = 1
  <2> DEFINE S == {i \in 0..(k - 1) : c[i] = 1}
  <2>1. 0 \in S
    BY <1>1, <1>3
  <2>2. ASSUME NEW i \in 1..(k - 1), i - 1 \in S
        PROVE  i \in S
    <3>1. i \in 1..NonceLen /\ nonce[i] = B - 1 /\ c[i - 1] = 1
      BY <1>1, <2>2 DEF Low, B
    <3>2. c[i - 1] + nonce[i] = B
      BY <1>1, <3>1
    <3>3. c[i] = 1
      BY <1>1, <1>3, <1>4, <3>1, <3>2
    <3>4. QED
      BY <1>1, <3>3
  <2>3. k - 1 \in Nat
    BY <1>1
  <2> HIDE DEF S
  <2>4. \A i \in 0..(k - 1) : i \in S
    BY ONLY <2>1, <2>2, <2>3, InductionTo
  <2>5. QED
    BY <2>4 DEF S
<1>6. ASSUME NEW i \in 1..(k - 1)
      PROVE  y[i] = 0
  <2>1. i \in 1..NonceLen /\ nonce[i] = B - 1 /\ c[i - 1] = 1
    BY <1>1, <1>5 DEF Low, B
  <2>2. c[i - 1] + nonce[i] = B
    BY <1>1, <2>1
  <2>3. QED
    BY <1>1, <1>3, <1>4, <2>1, <2>2
<1>7. c[k - 1] = 1 /\ 1 + nonce[k] \in Nat /\ nonce[k] \in Nat
  BY <1>1, <1>5
<1>8. y[k] = (1 + nonce[k]) % B /\ c[k] = (1 + nonce[k]) \div B
  BY <1>3, <1>7
<1>9. ASSUME nonce[k] = B - 1
      PROVE  y[k] = 0
  <2>1. 1 + nonce[k] = B
    BY <1>1, <1>9
  <2>2. QED
    BY <1>1, <1>4, <1>8, <2>1
<1>10. ASSUME nonce[k] < B - 1
       PROVE  y[k] = nonce[k] + 1 /\ Agree(nonce, y, k)
  <2>1. 1 + nonce[k] < B /\ 1 + nonce[k] = nonce[k] + 1
    BY <1>1, <1>7, <1>10
  <2>2. y[k] = nonce[k] + 1 /\ c[k] = 0
    BY <1>4, <1>7, <1>8, <2>1
  <2> DEFINE S == {i \in Nat : i <= NonceLen /\ i >= k => c[i] = 0}
  <2>3. 0 \in S
    BY <1>1
  <2>4. ASSUME NEW i \in 1..NonceLen, i - 1 \in S
        PROVE  i \in S
    <3>1. CASE i <= k
      BY <1>1, <2>2, <3>1
    <3>2. CASE ~(i <= k)
      <4>1. c[i - 1] = 0 /\ i \in Nat
        BY <1>1, <2>4, <3>2
      <4>2. 0 + nonce[i] \in Nat /\ 0 + nonce[i] < B
        BY <1>1
      <4>3. c[i] = 0
        BY <1>3, <1>4, <4>1, <4>2
      <4>4. QED
        BY <4>1, <4>3
    <3>3. QED
      BY <3>1, <3>2
  <2> HIDE DEF S
  <2>5. \A i \in 0..NonceLen : i \in S
    BY ONLY <2>3, <2>4, <1>1, InductionTo
  <2>6. ASSUME NEW i \in 1..NonceLen, i > k
        PROVE  nonce[i] = y[i]
    <3>1. i - 1 \in 0..NonceLen /\ i - 1 <= NonceLen /\ i - 1 >= k
      BY <1>1, <2>6
    <3>2. c[i - 1] = 0
      BY <2>5, <3>1 DEF S
    <3>3. nonce[i] \in Nat /\ 0 + nonce[i] = nonce[i] /\ nonce[i] < B
      BY <1>1
    <3>4. QED
      BY <1>3, <1>4, <3>2, <3>3
  <2>7. QED
    BY <2>2, <2>6 DEF Agree
<1>11. y \in Nonce
  BY IncrementType DEF y
<1>12. QED
  BY <1>6, <1>9, <1>10, <1>11 DEF Low, B, y

(* In a closed set, one digit goes on while those before it return to 0.   *)
LEMMA Turned ==
    ASSUME NEW S, Closed(S), NEW k \in 1..NonceLen, Fills(S, k - 1),
           NEW nonce \in S, Low(nonce, k - 1, 0)
    PROVE  \E y \in S :
              /\ Low(y, k - 1, 0)
              /\ nonce[k] = NonceBase - 1 => y[k] = 0
              /\ nonce[k] < NonceBase - 1 => y[k] = nonce[k] + 1 /\ Agree(nonce, y, k)
<1> DEFINE z == [i \in 1..NonceLen |-> IF i < k THEN NonceBase - 1 ELSE nonce[i]]
<1>1. /\ NonceLen \in Nat /\ NonceBase \in Nat /\ NonceBase >= 2 /\ k \in Nat
      /\ nonce \in Nonce /\ k \in 1..NonceLen
  BY AeadConstants DEF Closed
<1>2. z \in Nonce
  BY <1>1 DEF Nonce
<1>3. /\ \A i \in 1..NonceLen : z[i] = IF i < k THEN NonceBase - 1 ELSE nonce[i]
  OBVIOUS
<1> HIDE DEF z
<1>4. Agree(nonce, z, k - 1) /\ Agree(nonce, z, k) /\ z[k] = nonce[k]
  BY <1>1, <1>3 DEF Agree
<1>5. Low(z, k - 1, NonceBase - 1)
  BY <1>1, <1>3 DEF Low
<1>6. z \in S
  BY <1>2, <1>4 DEF Fills
<1> DEFINE y == NonceIncrement(z)
<1>7. y \in S
  BY <1>6 DEF Closed
<1>8. /\ Low(y, k - 1, 0)
      /\ z[k] = NonceBase - 1 => y[k] = 0
      /\ z[k] < NonceBase - 1 => y[k] = z[k] + 1 /\ Agree(z, y, k)
  BY <1>2, <1>5, RollsOver
<1> HIDE DEF y
<1>9. Agree(z, y, k) => Agree(nonce, y, k)
  BY <1>4 DEF Agree
<1>10. QED
  BY <1>4, <1>7, <1>8, <1>9

(* A set that has all nonces with any first k - 1 digits, once it has the  *)
(* one in which they are 0, has those with any k-th digit, too.            *)
LEMMA FillsNext ==
    ASSUME NEW S, Closed(S), NEW k \in 1..NonceLen, Fills(S, k - 1)
    PROVE  Fills(S, k)
<1>1. /\ NonceLen \in Nat /\ NonceBase \in Nat /\ NonceBase >= 2 /\ k \in Nat
      /\ NonceBase - 1 \in Nat /\ S \subseteq Nonce
  BY AeadConstants DEF Closed
<1> SUFFICES ASSUME NEW a \in S, Low(a, k, 0), NEW b \in Nonce, Agree(a, b, k)
             PROVE  b \in S
  BY DEF Fills
<1> DEFINE T == {d \in Nat : d <= NonceBase - 1 =>
                   \E y \in S : Low(y, k - 1, 0) /\ y[k] = d /\ Agree(a, y, k)}
<1>2. 0 \in T
  <2>1. Low(a, k - 1, 0) /\ a[k] = 0 /\ Agree(a, a, k)
    BY <1>1 DEF Low, Agree
  <2>2. QED
    BY <2>1
<1>3. ASSUME NEW d \in 1..(NonceBase - 1), d - 1 \in T
      PROVE  d \in T
  <2>1. d - 1 <= NonceBase - 1 /\ d - 1 < NonceBase - 1 /\ (d - 1) + 1 = d /\ d \in Nat
    BY <1>1
  <2>2. PICK y \in S : Low(y, k - 1, 0) /\ y[k] = d - 1 /\ Agree(a, y, k)
    BY <1>3, <2>1
  <2>3. PICK z \in S : Low(z, k - 1, 0) /\ z[k] = y[k] + 1 /\ Agree(y, z, k)
    BY <2>1, <2>2, Turned
  <2>4. Agree(a, z, k)
    BY <2>2, <2>3 DEF Agree
  <2>5. QED
    BY <2>1, <2>2, <2>3, <2>4
<1> HIDE DEF T
<1>4. \A d \in 0..(NonceBase - 1) : d \in T
  BY ONLY <1>1, <1>2, <1>3, InductionTo
<1>5. b[k] \in 0..(NonceBase - 1) /\ b[k] <= NonceBase - 1
  BY <1>1 DEF Nonce
<1>6. PICK y \in S : Low(y, k - 1, 0) /\ y[k] = b[k] /\ Agree(a, y, k)
  BY <1>4, <1>5 DEF T
<1>7. Agree(y, b, k - 1)
  <2> SUFFICES ASSUME NEW i \in 1..NonceLen, i > k - 1
               PROVE  y[i] = b[i]
    BY DEF Agree
  <2>1. i = k \/ i > k
    BY <1>1
  <2>2. QED
    BY <1>6, <2>1 DEF Agree
<1>8. QED
  BY <1>6, <1>7 DEF Fills

(* It has one in which the k-th digit is 0 as well.                        *)
LEMMA ZeroNext ==
    ASSUME NEW S, Closed(S), NEW k \in 1..NonceLen, Fills(S, k - 1),
           \E x \in S : Low(x, k - 1, 0)
    PROVE  \E x \in S : Low(x, k, 0)
<1>1. /\ NonceLen \in Nat /\ NonceBase \in Nat /\ NonceBase >= 2 /\ k \in Nat
      /\ NonceBase - 1 \in Nat /\ S \subseteq Nonce
  BY AeadConstants DEF Closed
<1> DEFINE T == {d \in Nat : \A x \in S : Low(x, k - 1, 0) /\ x[k] = NonceBase - 1 - d =>
                   \E y \in S : Low(y, k, 0)}
<1>2. ASSUME NEW a \in S, Low(a, k - 1, 0), a[k] = 0
      PROVE  Low(a, k, 0)
  BY <1>1, <1>2 DEF Low
<1>3. 0 \in T
  <2> SUFFICES ASSUME NEW a \in S, Low(a, k - 1, 0), a[k] = NonceBase - 1 - 0
               PROVE  \E y \in S : Low(y, k, 0)
    OBVIOUS
  <2>1. a[k] = NonceBase - 1
    BY <1>1
  <2>2. PICK y \in S : Low(y, k - 1, 0) /\ y[k] = 0
    BY <2>1, Turned
  <2>3. QED
    BY <1>2, <2>2
<1>4. ASSUME NEW d \in 1..(NonceBase - 1), d - 1 \in T
      PROVE  d \in T
  <2> SUFFICES ASSUME NEW a \in S, Low(a, k - 1, 0), a[k] = NonceBase - 1 - d
               PROVE  \E y \in S : Low(y, k, 0)
    BY <1>1
  <2>1. a[k] < NonceBase - 1 /\ a[k] + 1 = NonceBase - 1 - (d - 1)
    BY <1>1
  <2>2. PICK y \in S : Low(y, k - 1, 0) /\ y[k] = a[k] + 1
    BY <2>1, Turned
  <2>3. QED
    BY <1>4, <2>1, <2>2
<1> HIDE DEF T
<1>5. \A d \in 0..(NonceBase - 1) : d \in T
  BY ONLY <1>1, <1>3, <1>4, InductionTo
<1>6. PICK a \in S : Low(a, k - 1, 0)
  OBVIOUS
<1>7. a[k] \in 0..(NonceBase - 1)
  BY <1>1 DEF Nonce
<1> DEFINE d == NonceBase - 1 - a[k]
<1>8. d \in 0..(NonceBase - 1) /\ a[k] = NonceBase - 1 - d
  BY <1>1, <1>7
<1> HIDE DEF d
<1>9. d \in T
  BY <1>5, <1>8
<1>10. QED
  BY <1>6, <1>8, <1>9 DEF T

(* So a closed set of nonces is empty, or has all.                         *)
LEMMA AllNonces ==
    ASSUME NEW S, Closed(S), S # {}
    PROVE  Nonce \subseteq S
<1> DEFINE T == {k \in Nat : k <= NonceLen => Fills(S, k) /\ \E x \in S : Low(x, k, 0)}
<1>1. NonceLen \in Nat /\ S \subseteq Nonce
  BY AeadConstants DEF Closed
<1>2. 0 \in T
  <2>1. \A x \in S : Low(x, 0, 0)
    BY DEF Low
  <2>2. Fills(S, 0)
    <3> SUFFICES ASSUME NEW a \in S, NEW b \in Nonce, Agree(a, b, 0)
                 PROVE  b \in S
      BY DEF Fills
    <3>1. \A i \in 1..NonceLen : a[i] = b[i]
      BY <1>1 DEF Agree
    <3>2. a = b
      BY <1>1, <3>1 DEF Nonce
    <3>3. QED
      BY <3>2
  <2>3. QED
    BY <2>1, <2>2
<1>3. ASSUME NEW k \in 1..NonceLen, k - 1 \in T
      PROVE  k \in T
  <2>1. k - 1 <= NonceLen /\ k \in Nat
    BY <1>1
  <2>2. Fills(S, k - 1) /\ \E x \in S : Low(x, k - 1, 0)
    BY <1>3, <2>1
  <2>3. QED
    BY <2>1, <2>2, FillsNext, ZeroNext
<1> HIDE DEF T
<1>4. \A k \in 0..NonceLen : k \in T
  BY ONLY <1>1, <1>2, <1>3, InductionTo
<1>5. NonceLen \in 0..NonceLen /\ NonceLen <= NonceLen
  BY <1>1
<1>6. Fills(S, NonceLen) /\ \E x \in S : Low(x, NonceLen, 0)
  BY <1>4, <1>5 DEF T
<1>7. \A x, y : Agree(x, y, NonceLen)
  BY <1>1 DEF Agree
<1>8. QED
  BY <1>6, <1>7 DEF Fills

(* Before a nonce seals a second block under one key, every nonce sealed   *)
(* one: each block is under the next nonce, header or payload              *)
(* (aead.py 103-122, 164-182, 193-214).                                    *)
THEOREM NoncesOnce == Spec => []NonceOnce
<1>1. StreamInv => NonceOnce
  <2> SUFFICES ASSUME StreamInv, NEW i \in DOMAIN blocks, NEW j \in DOMAIN blocks,
                      i < j, blocks[i].nonce = blocks[j].nonce
               PROVE  Nonce \subseteq {blocks[k].nonce : k \in i..(j - 1)}
    BY DEF NonceOnce
  <2> DEFINE S == {blocks[k].nonce : k \in i..(j - 1)}
  <2>1. Chunked(blocks) /\ Chained(blocks, cipher)
    BY DEF StreamInv, Inv, Sending, EncryptInv, Made
  <2>2. /\ Len(blocks) \in Nat /\ DOMAIN blocks = 1..Len(blocks)
        /\ \A k \in 1..Len(blocks) : blocks[k] \in AnyBlock
    <3>1. blocks \in Seq(AnyBlock)
      BY <2>1 DEF Chunked
    <3>2. QED
      BY <2>1, <3>1, ChunkedUsable, LenProperties
  <2>3. S \subseteq Nonce
    <3>1. \A k \in i..(j - 1) : k \in 1..Len(blocks)
      BY <2>2
    <3>2. QED
      BY <2>2, <3>1 DEF AnyBlock
  <2>4. ASSUME NEW k \in i..(j - 1)
        PROVE  NonceIncrement(blocks[k].nonce) \in S
    <3>1. k \in 1..Len(blocks) /\ k < Len(blocks)
      BY <2>2
    <3>2. blocks[k + 1].nonce = NonceIncrement(blocks[k].nonce)
      BY <2>1, <3>1 DEF Chained, NonceAfter
    <3>3. CASE k = j - 1
      <4>1. k + 1 = j /\ i \in i..(j - 1)
        BY <2>2, <3>3
      <4>2. QED
        BY <3>2, <4>1
    <3>4. CASE k # j - 1
      <4>1. k + 1 \in i..(j - 1)
        BY <2>2, <3>4
      <4>2. QED
        BY <3>2, <4>1
    <3>5. QED
      BY <3>3, <3>4
  <2>5. S # {}
    <3>1. i \in i..(j - 1)
      BY <2>2
    <3>2. QED
      BY <3>1
  <2>6. Closed(S)
    BY <2>3, <2>4 DEF Closed
  <2>7. QED
    BY <2>5, <2>6, AllNonces
<1>2. QED
  BY <1>1, Invariance, PTL

-----------------------------------------------------------------------------
(* The stream.                                                             *)

(* The first m bytes of plaintext are the beginning of the first n.        *)
LEMMA CountBegins ==
    ASSUME NEW m \in Nat, NEW n \in Nat, m <= n
    PROVE  Stream!Begins(Count(m), Count(n))
<1> DEFINE a == Count(m)
           b == Count(n)
           c == SubSeq(b, 1, m)
<1>1. /\ a \in Seq(Nat) /\ Len(a) = m /\ \A i \in 1..m : a[i] = i
      /\ b \in Seq(Nat) /\ Len(b) = n /\ \A i \in 1..n : b[i] = i
  BY CountType DEF Count
<1> HIDE DEF a, b
<1>2. c \in Seq(Nat) /\ Len(c) = m /\ \A i \in 1..m : c[i] = b[i]
  BY <1>1, Beginning
<1> HIDE DEF c
<1>3. a = c
  <2>1. \A i \in 1..m : a[i] = c[i]
    BY <1>1, <1>2
  <2>2. QED
    BY <1>1, <1>2, <2>1, SeqEqual
<1>4. Len(a) <= Len(b) /\ a = SubSeq(b, 1, Len(a))
  BY <1>1, <1>3 DEF c
<1>5. QED
  BY <1>4 DEF a, b, Stream!Begins

(* What was returned, as long as nothing damaged meets a nonce used twice. *)
Unrepeated == damaged => NoRepeat

OutputInv == \E n \in 0..Len(plain) : output = Count(n)

(* decrypt has returned a first part of the plaintext.                     *)
LEMMA OutputIs ==
    ASSUME StreamInv, Unrepeated
    PROVE  OutputInv
<1> PICK w : Inv(w)
  BY DEF StreamInv
<1> USE DEF OutputInv
<1>1. EncryptInv /\ TypeOK /\ DecryptInv(w)
  BY DEF Inv, Sending
<1>2. Len(plain) \in Nat
  BY <1>1, LenProperties DEF TypeOK
<1>3. CASE output = <<>>
  <2>1. Count(0) = <<>> /\ 0 \in 0..Len(plain)
    BY <1>2, CountType
  <2>2. QED
    BY <1>3, <2>1
<1>4. CASE Aligned(w)
  <2>1. PICK n \in 0..Len(blocks) : output = Count(Plain(blocks, n))
    BY <1>4 DEF Aligned
  <2>2. Plain(blocks, n) \in 0..Len(plain)
    BY <1>1, PlainType
  <2>3. QED
    BY <2>1, <2>2
<1>5. CASE Fallen(w)
  BY <1>5 DEF Fallen
<1>6. QED
  BY <1>1, <1>3, <1>4, <1>5 DEF DecryptInv, Unrepeated, TypeOK

(* decrypt takes nothing back.                                             *)
LEMMA OutputGrows ==
    ASSUME NEW w, Inv(w), NEW k, Decrypt(k)
    PROVE  Len(output) <= Len(output')
<1> DEFINE buf  == SubSeq(wire, read + 1, read + k)
           rest == Drop(buf, IvLen)
<1>1. /\ TypeOK /\ Short(decipher.mlen, decipher.data) /\ EncryptInv
      /\ output \in Seq(Nat) /\ Len(output) \in Nat
  BY LenProperties DEF Inv, TypeOK, Sending
<1>2. ASSUME NEW key, NEW bytes \in Seq(Byte), bytes # <<>>, Run(key, bytes)
      PROVE  Len(output) <= Len(output')
  <2> DEFINE end == AeadDecrypt(Start(bytes), IF key = "right" THEN blocks ELSE <<>>)
  <2>1. end.out \in Seq(Nat)
    BY <1>1, <1>2, RunTyped
  <2>2. output' = IF end.ok THEN output \o end.out ELSE output
    BY <1>2, RunIs
  <2> HIDE DEF end
  <2>3. Len(output) <= Len(output \o end.out)
    <3>1. Len(output \o end.out) = Len(output) + Len(end.out) /\ Len(end.out) \in Nat
      BY <1>1, <2>1, Joint
    <3>2. QED
      BY <1>1, <3>1
  <2>4. QED
    BY <1>1, <2>2, <2>3
<1>3. buf \in Seq(Byte) /\ buf # <<>> /\ Len(buf) = k /\ k \in Nat
  <2>1. k \in 1..(Len(wire) - read)
    BY DEF Decrypt
  <2>2. QED
    BY <2>1, SegmentGiven
<1>4. rest \in Seq(Byte)
  <2>1. IvLen \in Nat
    BY CryptorConstants
  <2>2. CASE IvLen <= Len(buf)
    BY <1>3, <2>1, <2>2, Dropped
  <2>3. CASE ~(IvLen <= Len(buf))
    <3>1. rest = <<>>
      BY <1>3, <2>1, <2>3 DEF Drop
    <3>2. QED
      BY <3>1, EmptySeq
  <2>4. QED
    BY <2>2, <2>3
<1> HIDE DEF buf, rest
<1>5. \/ UNCHANGED output
      \/ rest # <<>> /\ \E key : Run(key, rest)
      \/ \E key : Run(key, buf)
  BY DEF Decrypt, buf, rest
<1>6. QED
  BY <1>1, <1>2, <1>3, <1>4, <1>5

(* Every step sends, delivers, or is a stutter of the abstract channel.    *)
LEMMA StreamStep ==
    ASSUME StreamInv, OutputInv, OutputInv', [Next]_vars
    PROVE  [Stream!Send \/ Stream!Deliver]_<<plain, output>>
<1>1. PICK w : Inv(w)
  BY DEF StreamInv
<1>2. /\ EncryptInv /\ plain = Count(Len(plain)) /\ Len(plain) \in Nat
  BY <1>1, LenProperties DEF Inv, Sending, EncryptInv, TypeOK
<1>3. ASSUME NEW n \in 1..MaxPlain, Encrypt(n)
      PROVE  Stream!Send
  <2>1. EncryptInv' /\ Len(plain) <= Len(plain')
    BY <1>2, <1>3, Encrypted
  <2>2. plain' = Count(Len(plain')) /\ Len(plain') \in Nat
    <3>1. plain' = Count(Len(plain'))
      BY <2>1 DEF EncryptInv
    <3>2. Len(plain') \in Nat
      <4>1. Plain(blocks, Len(blocks))' = Len(plain') /\ (\A j \in 0..Len(blocks) : Plain(blocks, j) \in 0..Len(plain))'
            /\ Chunked(blocks)'
        BY <2>1 DEF EncryptInv, Made
      <4>2. Len(blocks') \in Nat
        BY <4>1, ChunkedUsable
      <4>3. Len(plain') \in 0..Len(plain')
        BY <4>1, <4>2
      <4>4. QED
        BY <4>3
    <3>3. QED
      BY <3>1, <3>2
  <2>3. Stream!Begins(Count(Len(plain)), Count(Len(plain')))
    BY <1>2, <2>1, <2>2, CountBegins
  <2>4. output' = output
    BY <1>3 DEF Encrypt
  <2>5. QED
    BY <1>2, <2>2, <2>3, <2>4 DEF Stream!Send
<1>4. ASSUME NEW k \in 1..Len(wire), Decrypt(k)
      PROVE  Stream!Deliver
  <2>2. plain' = plain
    BY <1>4 DEF Decrypt
  <2>3. PICK n \in 0..Len(plain) : output = Count(n)
    BY DEF OutputInv
  <2>4. PICK m \in 0..Len(plain) : output' = Count(m)
    BY <2>2 DEF OutputInv
  <2>5. n <= m /\ m <= Len(plain) /\ n \in Nat /\ m \in Nat
    <3>1. Len(output) <= Len(output')
      BY <1>1, <1>4, OutputGrows
    <3>2. n \in Nat /\ m \in Nat
      BY <1>2
    <3>3. QED
      BY <1>2, <2>3, <2>4, <3>1, <3>2, CountType
  <2>6. Stream!Begins(Count(n), Count(m)) /\ Stream!Begins(Count(m), Count(Len(plain)))
    BY <1>2, <2>5, CountBegins
  <2>7. QED
    BY <1>2, <2>2, <2>3, <2>4, <2>6 DEF Stream!Deliver
<1>5. ASSUME NEW i \in 1..Len(wire), Damage(i)
      PROVE  UNCHANGED <<plain, output>>
  BY <1>5 DEF Damage
<1>6. CASE UNCHANGED vars
  BY <1>6 DEF vars
<1>7. QED
  BY <1>3, <1>4, <1>5, <1>6 DEF Next

(* Whatever the segments, and with a byte damaged and calls after the      *)
(* exception, decrypt returns the plaintext from its beginning, without a  *)
(* gap, as long as no nonce was used twice when a byte is damaged          *)
(* (aead.py 124-322, cryptor.py 124-152).                                  *)
THEOREM StreamUntilRepeat == Spec /\ []Unrepeated => IsStream
<1>1. Init => Stream!Init
  BY DEF Init, Stream!Init
<1>2. StreamInv /\ Unrepeated => OutputInv
  BY OutputIs
<1>3. StreamInv /\ OutputInv /\ OutputInv' /\ [Next]_vars
         => [Stream!Send \/ Stream!Deliver]_<<plain, output>>
  BY StreamStep
<1>4. QED
  BY <1>1, <1>2, <1>3, Invariance, PTL DEF Spec, IsStream, Stream!Spec

(* Each chunk has at least a byte of plaintext.                            *)
LEMMA BlocksBound ==
    ASSUME EncryptInv
    PROVE  Len(blocks) \in Nat /\ Len(blocks) <= 2 * Len(plain) /\ Len(plain) \in Nat
<1> DEFINE N == Len(blocks)
           T == {h \in Nat : 2 * h <= N => h <= Plain(blocks, 2 * h)}
<1>1. Chunked(blocks) /\ N \in Nat /\ N % 2 = 0 /\ Plain(blocks, N) = Len(plain)
  BY ChunkedUsable DEF EncryptInv, Made, Chunked
<1>2. \A n \in 0..N : Plain(blocks, n) \in 0..Len(plain) /\ Len(plain) \in Nat
  BY PlainType
<1>3. 0 \in T
  BY DEF Plain
<1>4. ASSUME NEW h \in 1..N, h - 1 \in T
      PROVE  h \in T
  <2> SUFFICES ASSUME 2 * h <= N
               PROVE  h <= Plain(blocks, 2 * h)
    BY <1>1
  <2> DEFINE n == 2 * h - 2
  <2>1. /\ n \in 0..N /\ n < N /\ n % 2 # 1 /\ n = 2 * (h - 1) /\ n <= N
        /\ (n + 1) \in 0..N /\ (n + 1) % 2 = 1 /\ (n + 1) + 1 = 2 * h
    BY <1>1
  <2>2. h - 1 <= Plain(blocks, n)
    BY <1>4, <2>1
  <2> HIDE DEF n
  <2>3. Plain(blocks, n + 1) = Plain(blocks, n)
    BY <1>1, <2>1, HeaderBlock
  <2>4. Plain(blocks, n) \in Nat
    BY <1>2, <2>1
  <2>5. /\ Waited(n + 1) \in 1..Mask
        /\ Plain(blocks, n + 1) \in Nat => Plain(blocks, (n + 1) + 1) = Plain(blocks, n + 1) + Waited(n + 1)
    BY <1>1, <2>1, PayloadBlock
  <2> DEFINE z == Waited(n + 1)
             a == Plain(blocks, n)
             b == Plain(blocks, 2 * h)
  <2>6. b = a + z /\ z \in 1..Mask /\ a \in Nat /\ h - 1 <= a
    BY <2>1, <2>2, <2>3, <2>4, <2>5
  <2> HIDE DEF z, a, b
  <2>7. h <= b
    BY <2>6, AeadConstants
  <2>8. QED
    BY <2>7 DEF b
<1> HIDE DEF T
<1>5. \A h \in 0..N : h \in T
  BY ONLY <1>1, <1>3, <1>4, InductionTo
<1>6. PICK h \in 0..N : N = 2 * h
  <2>1. N \div 2 \in 0..N /\ N = 2 * (N \div 2)
    BY <1>1
  <2>2. QED
    BY <2>1
<1>7. h <= Plain(blocks, 2 * h)
  BY <1>1, <1>5, <1>6 DEF T
<1>8. N \in 0..N
  BY <1>1
<1>9. Len(plain) \in Nat
  BY <1>2, <1>8
<1>10. QED
  BY <1>1, <1>6, <1>7, <1>9

(* Two blocks of the stream would have to share a nonce after all others.  *)
LEMMA EnoughNonces ==
    ASSUME StreamInv, NonceOnce, 2 * MaxPlain <= Cardinality(Nonce)
    PROVE  NoRepeat
<1>1. EncryptInv
  BY DEF StreamInv, Inv, Sending
<1>2. Len(blocks) \in Nat /\ Len(blocks) <= 2 * MaxPlain
  <2>1. Len(plain) <= MaxPlain /\ MaxPlain \in Nat
    BY <1>1, CryptorConstants DEF EncryptInv
  <2>2. QED
    BY <1>1, <2>1, BlocksBound
<1>3. DOMAIN blocks = 1..Len(blocks)
  BY <1>1, LenProperties DEF EncryptInv, Made, Chunked
<1>4. ASSUME NEW i \in 1..Len(blocks), NEW j \in 1..Len(blocks), i < j,
             blocks[i].nonce = blocks[j].nonce
      PROVE  FALSE
  <2> DEFINE I == i..(j - 1)
             S == {blocks[k].nonce : k \in I}
             f == [k \in I |-> blocks[k].nonce]
  <2>1. Nonce \subseteq S
    BY <1>3, <1>4 DEF NonceOnce
  <2>2. IsFiniteSet(I) /\ Cardinality(I) = j - i
    <3>1. i \in Int /\ j - 1 \in Int /\ ~(i > j - 1) /\ (j - 1) - i + 1 = j - i
      BY <1>2, <1>4
    <3>2. QED
      BY <3>1, FS_Interval
  <2>3. f \in Surjection(I, S)
    <3> HIDE DEF I
    <3>1. f \in [I -> S] /\ \A t \in S : \E k \in I : f[k] = t
      OBVIOUS
    <3> HIDE DEF f, S
    <3>2. QED
      BY <3>1 DEF Surjection
  <2> HIDE DEF f, S, I
  <2>4. IsFiniteSet(S) /\ Cardinality(S) <= Cardinality(I)
    BY <2>2, <2>3, FS_Surjection
  <2>5. IsFiniteSet(Nonce) /\ Cardinality(Nonce) <= Cardinality(S)
    BY <2>1, <2>4, FS_Subset
  <2>6. Cardinality(Nonce) \in Nat /\ Cardinality(S) \in Nat /\ MaxPlain \in Nat
    BY <2>4, <2>5, FS_CardinalityType, CryptorConstants
  <2>7. QED
    BY <1>2, <1>4, <2>2, <2>4, <2>5, <2>6
<1>5. QED
  BY <1>2, <1>4 DEF NoRepeat

(* So it implements the abstract channel, when there are nonces for all    *)
(* the blocks: one of 12 bytes has 2^96 values.                            *)
THEOREM Streams ==
    ASSUME 2 * MaxPlain <= Cardinality(Nonce)
    PROVE  Spec => IsStream
<1>1. StreamInv /\ NonceOnce => Unrepeated
  BY EnoughNonces DEF Unrepeated
<1>2. QED
  BY <1>1, Invariance, NoncesOnce, StreamUntilRepeat, PTL
=============================================================================
