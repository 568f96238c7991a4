------------------------- MODULE SodiumStreamProofs -------------------------
(***************************************************************************)
(* Theorems about SodiumStream, for every block size, initial buffer and   *)
(* amount of data.                                                         *)
(***************************************************************************)
EXTENDS SodiumStream, SequenceTheorems, TLAPS

-----------------------------------------------------------------------------
(* One call of update.                                                     *)

(* A counter is its block and its place in the block.                      *)
LEMMA BlockAndPlace ==
    ASSUME NEW counter \in Nat
    PROVE  /\ Padding(counter) \in Nat
           /\ counter \div BLOCK_SIZE \in Nat
           /\ (counter \div BLOCK_SIZE) * BLOCK_SIZE + Padding(counter) = counter
BY SodiumConstants DEF Padding

(* Zero bytes.                                                             *)
LEMMA ZerosType ==
    ASSUME NEW n \in Nat
    PROVE  Zeros(n) \in Seq(Byte) /\ Len(Zeros(n)) = n
<1>1. <<0, 0>> \in Byte
  BY DEF Byte
<1>2. Zeros(n) \in [1..n -> Byte]
  BY <1>1 DEF Zeros
<1>3. Zeros(n) \in Seq(Byte)
  BY <1>2, SeqDef
<1>4. QED
  BY <1>2, <1>3, LenProperties

(* A keyed or unkeyed byte is a byte.                                      *)
LEMMA XorType ==
    ASSUME NEW byte \in Byte, NEW k \in Nat
    PROVE  Xor(byte, k) \in Byte
<1>1. byte[1] \in Nat /\ byte[2] \in Nat
  BY DEF Byte
<1>2. <<byte[1], k>> \in Byte /\ <<byte[1], 0>> \in Byte /\ <<0, 0>> \in Byte
  BY <1>1 DEF Byte
<1>3. QED
  BY <1>2 DEF Xor

(* The buffer is large enough for the call and never shrinks.              *)
LEMMA GrownType ==
    ASSUME buf \in Seq(Byte), Len(buf) >= InitialSize, NEW n \in Nat
    PROVE  /\ Grown(n) \in Seq(Byte)
           /\ Len(Grown(n)) \in Nat
           /\ Len(Grown(n)) >= n
           /\ Len(Grown(n)) >= InitialSize
<1>1. Len(buf) \in Nat /\ InitialSize \in Nat /\ 2 * n \in Nat /\ 2 * n >= n
  BY SodiumConstants, LenProperties
<1>2. Zeros(2 * n) \in Seq(Byte) /\ Len(Zeros(2 * n)) = 2 * n
  BY <1>1, ZerosType
<1>3. CASE Len(buf) < n
  BY <1>1, <1>2, <1>3 DEF Grown
<1>4. CASE ~(Len(buf) < n)
  BY <1>1, <1>4 DEF Grown
<1>5. QED
  BY <1>3, <1>4

(* update keys byte i of its data with keystream byte counter + i, wherever *)
(* in a block the counter is and whatever the buffer held.                 *)
LEMMA UpdateKeys ==
    ASSUME buf \in Seq(Byte), Len(buf) >= InitialSize,
           NEW counter \in Nat, NEW data \in Seq(Byte)
    PROVE  LET new == Updated(counter, data)
               out == CutOut(new, counter, Len(data))
           IN  /\ new \in Seq(Byte) /\ Len(new) >= InitialSize
               /\ out \in Seq(Byte) /\ Len(out) = Len(data)
               /\ \A i \in 1..Len(data) : out[i] = Xor(data[i], counter + i)
<1> DEFINE n      == Len(data)
           p      == Padding(counter)
           ic     == counter \div BLOCK_SIZE
           padded == Zeros(p) \o data
           room   == Grown(Len(padded))
           new    == Updated(counter, data)
           out    == CutOut(new, counter, n)
<1>1. n \in Nat /\ p \in Nat /\ ic \in Nat /\ ic * BLOCK_SIZE + p = counter
      /\ BLOCK_SIZE \in Nat /\ ic * BLOCK_SIZE \in Nat
  <2>1. n \in Nat /\ p \in Nat /\ ic \in Nat /\ ic * BLOCK_SIZE + p = counter
    BY BlockAndPlace, LenProperties
  <2>2. BLOCK_SIZE \in Nat
    BY SodiumConstants
  <2> HIDE DEF n, p, ic
  <2>3. ic * BLOCK_SIZE \in Nat
    BY <2>1, <2>2
  <2>4. QED
    BY <2>1, <2>2, <2>3
<1>2. Zeros(p) \in Seq(Byte) /\ Len(Zeros(p)) = p
  BY <1>1, ZerosType
<1>3. /\ padded \in Seq(Byte) /\ Len(padded) = p + n
      /\ \A i \in 1..(p + n) : padded[i] = IF i <= p THEN Zeros(p)[i] ELSE data[i - p]
  BY <1>2, ConcatProperties
<1>4. /\ room \in Seq(Byte) /\ Len(room) \in Nat
      /\ Len(room) >= p + n /\ Len(room) >= InitialSize
  <2>1. Len(padded) \in Nat
    BY <1>3, LenProperties
  <2>2. QED
    BY <1>3, <2>1, GrownType
<1>5. DOMAIN room = 1..Len(room)
  BY <1>4, LenProperties
<1>6. new = [i \in 1..Len(room) |->
                IF i <= p + n THEN Xor(padded[i], ic * BLOCK_SIZE + i) ELSE room[i]]
  BY <1>3, <1>5 DEF Updated, XorIc
<1> HIDE DEF n, p, ic, padded, room
<1>7. ASSUME NEW i \in 1..Len(room)
      PROVE  (IF i <= p + n THEN Xor(padded[i], ic * BLOCK_SIZE + i) ELSE room[i]) \in Byte
  <2>1. room[i] \in Byte
    BY <1>4, <1>5
  <2>2. CASE i <= p + n
    <3>1. padded[i] \in Byte
      BY <1>1, <1>3, <2>2
    <3>2. ic * BLOCK_SIZE + i \in Nat
      BY <1>1
    <3>3. QED
      BY <2>2, <3>1, <3>2, XorType
  <2>3. QED
    BY <2>1, <2>2
<1>8. new \in Seq(Byte) /\ Len(new) = Len(room)
  <2>1. new \in [1..Len(room) -> Byte]
    BY <1>6, <1>7
  <2>2. new \in Seq(Byte)
    BY <1>4, <2>1, SeqDef
  <2>3. QED
    BY <1>4, <2>1, <2>2, LenProperties
<1>9. \A i \in (p + 1)..(p + n) : new[i] \in Byte
  BY <1>1, <1>4, <1>6, <1>7
<1>10. out = SubSeq(new, p + 1, p + n)
  BY DEF CutOut, p
<1> HIDE DEF new, out
<1>11. /\ out \in Seq(Byte) /\ Len(out) = n
       /\ \A i \in 1..n : out[i] = new[p + i]
  <2>1. p + 1 \in Int /\ p + n \in Int /\ (p + n) - (p + 1) + 1 = n
        /\ (p + 1 <= p + n <=> n > 0)
    BY <1>1
  <2>2. /\ SubSeq(new, p + 1, p + n) \in Seq(Byte)
        /\ Len(SubSeq(new, p + 1, p + n)) =
              IF p + 1 <= p + n THEN (p + n) - (p + 1) + 1 ELSE 0
        /\ \A i \in 1..((p + n) - (p + 1) + 1) :
              SubSeq(new, p + 1, p + n)[i] = new[(p + 1) + i - 1]
    BY <1>9, <2>1, SubSeqProperties
  <2>3. Len(out) = n
    BY <1>1, <1>10, <2>1, <2>2
  <2>4. ASSUME NEW i \in 1..n
        PROVE  out[i] = new[p + i]
    <3>1. (p + 1) + i - 1 = p + i
      BY <1>1
    <3>2. out[i] = new[(p + 1) + i - 1]
      BY <1>10, <2>1, <2>2
    <3>3. QED
      BY <3>1, <3>2
  <2>5. QED
    BY <1>10, <2>2, <2>3, <2>4
<1>12. ASSUME NEW i \in 1..n
       PROVE  out[i] = Xor(data[i], counter + i)
  <2>1. p + i \in 1..Len(room) /\ p + i <= p + n /\ p + i \in 1..(p + n)
        /\ ~(p + i <= p) /\ (p + i) - p = i
        /\ ic * BLOCK_SIZE + (p + i) = counter + i
    BY <1>1, <1>4
  <2>2. new[p + i] = Xor(padded[p + i], ic * BLOCK_SIZE + (p + i))
    BY <1>6, <2>1
  <2>3. padded[p + i] = data[(p + i) - p]
    BY <1>3, <2>1
  <2>4. QED
    BY <1>11, <2>1, <2>2, <2>3
<1>13. Len(new) >= InitialSize
  BY <1>4, <1>8
<1>14. QED
  BY <1>8, <1>11, <1>12, <1>13 DEF n, new, out

-----------------------------------------------------------------------------
(* The two ciphers.                                                        *)

(* The counters count the bytes each cipher was given, so that the one     *)
(* that decrypts is at the place the other was at for the same byte.       *)
StreamInv ==
    /\ TypeOK
    /\ cipher = Len(plain) /\ Len(wire) = Len(plain)
    /\ decipher = read /\ Len(output) = read
    /\ \A i \in 1..Len(plain) : plain[i] = <<i, 0>> /\ wire[i] = <<i, i>>
    /\ \A i \in 1..read : output[i] = <<i, 0>>

(* The same byte under the keystream, and back.                            *)
LEMMA XorKeys ==
    ASSUME NEW k \in Nat \ {0}
    PROVE  Xor(<<k, 0>>, k) = <<k, k>> /\ Xor(<<k, k>>, k) = <<k, 0>>
BY DEF Xor

(* Byte i of the plaintext in the clear and on the wire.                   *)
Clear == [i \in Nat |-> <<i, 0>>]
Keyed == [i \in Nat |-> <<i, i>>]

LEMMA ClearAndKeyed == \A i \in Nat : Clear[i] = <<i, 0>> /\ Keyed[i] = <<i, i>>
BY DEF Clear, Keyed

(* The bytes of s are those of f from k + 1 on.                            *)
Follows(s, f, k) == \A i \in 1..Len(s) : s[i] = f[k + i]

(* A sequence that follows a function keeps to it when the next values of  *)
(* the function are appended.                                              *)
LEMMA FollowOn ==
    ASSUME NEW f, NEW s \in Seq(Byte), NEW t \in Seq(Byte),
           Follows(s, f, 0), Follows(t, f, Len(s))
    PROVE  Follows(s \o t, f, 0)
<1>1. /\ Len(s) \in Nat /\ Len(t) \in Nat
      /\ s \o t \in Seq(Byte) /\ Len(s \o t) = Len(s) + Len(t)
      /\ \A i \in 1..(Len(s) + Len(t)) :
            (s \o t)[i] = IF i <= Len(s) THEN s[i] ELSE t[i - Len(s)]
  BY ConcatProperties, LenProperties
<1>2. ASSUME NEW i \in 1..(Len(s) + Len(t))
      PROVE  (s \o t)[i] = f[0 + i]
  <2>1. CASE i <= Len(s)
    BY <1>1, <2>1 DEF Follows
  <2>2. CASE i > Len(s)
    <3>1. i - Len(s) \in 1..Len(t) /\ Len(s) + (i - Len(s)) = 0 + i
      BY <1>1, <2>2
    <3>2. t[i - Len(s)] = f[Len(s) + (i - Len(s))]
      BY <3>1 DEF Follows
    <3>3. QED
      BY <1>1, <2>2, <3>1, <3>2
  <2>3. i <= Len(s) \/ i > Len(s)
    BY <1>1
  <2>4. QED
    BY <2>1, <2>2, <2>3
<1>3. QED
  BY <1>1, <1>2 DEF Follows

(* Of two sequences that agree as far as the shorter one goes, that one is *)
(* the beginning of the other.                                             *)
LEMMA BeginsWith ==
    ASSUME NEW s \in Seq(Byte), NEW t \in Seq(Byte), Len(s) <= Len(t),
           \A i \in 1..Len(s) : s[i] = t[i]
    PROVE  Stream!Begins(s, t)
<1> DEFINE front == SubSeq(t, 1, Len(s))
<1>1. Len(s) \in Nat /\ Len(t) \in Nat /\ \A i \in 1..Len(s) : t[i] \in Byte
  BY LenProperties, ElementOfSeq
<1>2. /\ front \in Seq(Byte)
      /\ Len(front) = IF 1 <= Len(s) THEN Len(s) - 1 + 1 ELSE 0
      /\ \A i \in 1..(Len(s) - 1 + 1) : front[i] = t[1 + i - 1]
  BY <1>1, SubSeqProperties
<1>3. Len(front) = Len(s)
  BY <1>1, <1>2
<1>4. ASSUME NEW i \in 1..Len(s)
      PROVE  front[i] = s[i]
  <2>1. 1 + i - 1 = i /\ i \in 1..(Len(s) - 1 + 1)
    BY <1>1
  <2>2. QED
    BY <1>2, <2>1
<1> HIDE DEF front
<1>5. s = front
  BY <1>2, <1>3, <1>4, SeqEqual
<1>6. QED
  BY <1>5 DEF Stream!Begins, front

-----------------------------------------------------------------------------
(* What encrypt and decrypt do, in full.                                   *)

LEMMA EncryptStep ==
    ASSUME StreamInv, NEW n \in Nat, Encrypt(n)
    PROVE  StreamInv' /\ Stream!Send
<1> DEFINE data == [i \in 1..n |-> <<Len(plain) + i, 0>>]
           out  == CutOut(Updated(cipher, data), cipher, n)
           L    == Len(plain)
<1>1. /\ TypeOK /\ cipher = L /\ Len(wire) = L /\ decipher = read /\ Len(output) = read
      /\ \A i \in 1..L : plain[i] = <<i, 0>> /\ wire[i] = <<i, i>>
      /\ \A i \in 1..read : output[i] = <<i, 0>>
  BY DEF StreamInv
<1>2. /\ L \in Nat /\ cipher \in Nat /\ read \in Nat /\ read <= L
      /\ plain \in Seq(Byte) /\ wire \in Seq(Byte) /\ output \in Seq(Byte)
      /\ buf \in Seq(Byte) /\ Len(buf) >= InitialSize
  BY <1>1, LenProperties DEF TypeOK
<1>3. data \in Seq(Byte) /\ Len(data) = n /\ \A i \in 1..n : data[i] = <<L + i, 0>>
  <2>1. \A i \in 1..n : <<L + i, 0>> \in Byte
    BY <1>2 DEF Byte
  <2>2. data \in [1..n -> Byte]
    BY <2>1
  <2>3. data \in Seq(Byte)
    BY <2>2, SeqDef
  <2>4. QED
    BY <2>2, <2>3, LenProperties
<1>4. /\ plain' = plain \o data
      /\ buf' = Updated(cipher, data)
      /\ wire' = wire \o out
      /\ cipher' = cipher + n
      /\ UNCHANGED <<decipher, read, output>>
  BY DEF Encrypt
<1> HIDE DEF data
<1>5. /\ buf' \in Seq(Byte) /\ Len(buf') >= InitialSize
      /\ out \in Seq(Byte) /\ Len(out) = n
      /\ \A i \in 1..n : out[i] = Xor(data[i], cipher + i)
  BY <1>2, <1>3, <1>4, UpdateKeys
<1> HIDE DEF out
<1>6. ASSUME NEW i \in 1..n
      PROVE  /\ data[i] = Clear[L + i]
             /\ out[i] = Keyed[L + i]
  <2>1. L + i \in Nat \ {0} /\ cipher + i = L + i
    BY <1>1, <1>2
  <2>2. out[i] = Xor(<<L + i, 0>>, L + i)
    BY <1>3, <1>5, <2>1
  <2>3. QED
    BY <1>3, <2>1, <2>2, XorKeys, ClearAndKeyed
<1>7. ASSUME NEW i \in 1..L
      PROVE  plain[i] = Clear[i] /\ wire[i] = Keyed[i]
  <2>1. i \in Nat
    BY <1>2
  <2>2. QED
    BY <1>1, <2>1, ClearAndKeyed
<1>8. /\ plain' \in Seq(Byte) /\ Len(plain') = L + n
      /\ \A i \in 1..(L + n) : plain'[i] = Clear[i]
  <2>1. Follows(plain, Clear, 0)
    <3>1. \A i \in 1..Len(plain) : 0 + i = i /\ plain[i] = Clear[i]
      BY <1>2, <1>7
    <3>2. QED
      BY <3>1 DEF Follows
  <2>2. Follows(data, Clear, Len(plain))
    BY <1>3, <1>6 DEF Follows
  <2>3. Follows(plain \o data, Clear, 0)
    BY <1>2, <1>3, <2>1, <2>2, FollowOn
  <2>4. plain \o data \in Seq(Byte) /\ Len(plain \o data) = Len(plain) + Len(data)
    BY <1>2, <1>3, ConcatProperties
  <2>5. \A i \in 1..Len(plain \o data) : 0 + i = i /\ (plain \o data)[i] = Clear[i]
    <3>1. \A i \in 1..Len(plain \o data) : 0 + i = i
      OBVIOUS
    <3>2. QED
      BY <2>3, <3>1 DEF Follows
  <2>6. QED
    BY <1>3, <1>4, <2>4, <2>5
<1>9. /\ wire' \in Seq(Byte) /\ Len(wire') = L + n
      /\ \A i \in 1..(L + n) : wire'[i] = Keyed[i]
  <2>1. Follows(wire, Keyed, 0)
    <3>1. \A i \in 1..Len(wire) : 0 + i = i /\ wire[i] = Keyed[i]
      BY <1>1, <1>2, <1>7
    <3>2. QED
      BY <3>1 DEF Follows
  <2>2. Follows(out, Keyed, Len(wire))
    BY <1>1, <1>5, <1>6 DEF Follows
  <2>3. Follows(wire \o out, Keyed, 0)
    BY <1>2, <1>5, <2>1, <2>2, FollowOn
  <2>4. wire \o out \in Seq(Byte) /\ Len(wire \o out) = Len(wire) + Len(out)
    BY <1>2, <1>5, ConcatProperties
  <2>5. \A i \in 1..Len(wire \o out) : 0 + i = i /\ (wire \o out)[i] = Keyed[i]
    <3>1. \A i \in 1..Len(wire \o out) : 0 + i = i
      OBVIOUS
    <3>2. QED
      BY <2>3, <3>1 DEF Follows
  <2>6. QED
    BY <1>1, <1>4, <1>5, <2>4, <2>5
<1> HIDE DEF L
<1>10. ASSUME NEW i \in 1..(L + n)
       PROVE  plain'[i] = <<i, 0>> /\ wire'[i] = <<i, i>>
  <2>1. i \in Nat
    BY <1>2
  <2>2. QED
    BY <1>8, <1>9, <2>1, ClearAndKeyed
<1>11. TypeOK'
  <2>1. cipher' \in Nat /\ decipher' \in Nat /\ read' \in 0..Len(wire')
    BY <1>1, <1>2, <1>4, <1>9 DEF TypeOK
  <2>2. QED
    BY <1>2, <1>4, <1>5, <1>8, <1>9, <2>1 DEF TypeOK
<1>12. StreamInv'
  BY <1>1, <1>4, <1>8, <1>9, <1>10, <1>11 DEF StreamInv
<1>13. Stream!Begins(plain, plain')
  <2>1. Len(plain) <= Len(plain')
    BY <1>2, <1>8 DEF L
  <2>2. ASSUME NEW i \in 1..Len(plain)
        PROVE  plain[i] = plain'[i]
    <3>1. i \in 1..(L + n)
      BY <1>2 DEF L
    <3>2. QED
      BY <1>7, <1>8, <3>1 DEF L
  <2>3. QED
    BY <1>2, <1>8, <2>1, <2>2, BeginsWith
<1>14. QED
  BY <1>4, <1>12, <1>13 DEF Stream!Send

LEMMA DecryptStep ==
    ASSUME StreamInv, NEW n \in Nat, Decrypt(n)
    PROVE  StreamInv' /\ Stream!Deliver
<1> DEFINE data == SubSeq(wire, read + 1, read + n)
           out  == CutOut(Updated(decipher, data), decipher, n)
<1>1. /\ TypeOK /\ cipher = Len(plain) /\ Len(wire) = Len(plain)
      /\ decipher = read /\ Len(output) = read
      /\ \A i \in 1..Len(plain) : plain[i] = <<i, 0>> /\ wire[i] = <<i, i>>
      /\ \A i \in 1..read : output[i] = <<i, 0>>
  BY DEF StreamInv
<1>2. /\ Len(plain) \in Nat /\ decipher \in Nat /\ read \in Nat
      /\ plain \in Seq(Byte) /\ wire \in Seq(Byte) /\ output \in Seq(Byte)
      /\ buf \in Seq(Byte) /\ Len(buf) >= InitialSize
      /\ n >= 1 /\ read + n <= Len(plain)
  <2>1. /\ Len(plain) \in Nat /\ decipher \in Nat /\ read \in Nat
        /\ plain \in Seq(Byte) /\ wire \in Seq(Byte) /\ output \in Seq(Byte)
        /\ buf \in Seq(Byte) /\ Len(buf) >= InitialSize
    BY <1>1, LenProperties DEF TypeOK
  <2>2. n \in 1..(Len(wire) - read)
    BY DEF Decrypt
  <2>3. QED
    BY <1>1, <2>1, <2>2
<1>3. /\ data \in Seq(Byte) /\ Len(data) = n
      /\ \A i \in 1..n : data[i] = <<read + i, read + i>>
  <2>1. read + 1 \in Int /\ read + n \in Int /\ read + 1 <= read + n
        /\ (read + n) - (read + 1) + 1 = n
    BY <1>2
  <2>2. \A i \in (read + 1)..(read + n) : i \in 1..Len(wire) /\ wire[i] \in Byte
    <3>1. \A i \in (read + 1)..(read + n) : i \in 1..Len(wire)
      BY <1>1, <1>2
    <3>2. QED
      BY <1>2, <3>1, ElementOfSeq
  <2>3. /\ data \in Seq(Byte)
        /\ Len(data) = (read + n) - (read + 1) + 1
        /\ \A i \in 1..((read + n) - (read + 1) + 1) : data[i] = wire[(read + 1) + i - 1]
    BY <2>1, <2>2, SubSeqProperties
  <2>4. ASSUME NEW i \in 1..n
        PROVE  data[i] = <<read + i, read + i>>
    <3>1. (read + 1) + i - 1 = read + i /\ read + i \in 1..Len(plain)
      BY <1>2
    <3>2. data[i] = wire[read + i]
      BY <2>1, <2>3, <3>1
    <3>3. QED
      BY <1>1, <3>1, <3>2
  <2>5. QED
    BY <2>1, <2>3, <2>4
<1>4. /\ read' = read + n
      /\ buf' = Updated(decipher, data)
      /\ output' = output \o out
      /\ decipher' = decipher + n
      /\ UNCHANGED <<cipher, plain, wire>>
  BY DEF Decrypt
<1> HIDE DEF data
<1>5. /\ buf' \in Seq(Byte) /\ Len(buf') >= InitialSize
      /\ out \in Seq(Byte) /\ Len(out) = n
      /\ \A i \in 1..n : out[i] = Xor(data[i], decipher + i)
  BY <1>2, <1>3, <1>4, UpdateKeys
<1> HIDE DEF out
<1>6. ASSUME NEW i \in 1..n
      PROVE  out[i] = Clear[read + i]
  <2>1. read + i \in Nat \ {0} /\ decipher + i = read + i
    BY <1>1, <1>2
  <2>2. out[i] = Xor(<<read + i, read + i>>, read + i)
    BY <1>3, <1>5, <2>1
  <2>3. QED
    BY <2>1, <2>2, XorKeys, ClearAndKeyed
<1>7. ASSUME NEW i \in 1..read
      PROVE  output[i] = Clear[i]
  <2>1. i \in Nat
    BY <1>2
  <2>2. QED
    BY <1>1, <2>1, ClearAndKeyed
<1>8. /\ output' \in Seq(Byte) /\ Len(output') = read + n
      /\ \A i \in 1..(read + n) : output'[i] = Clear[i]
  <2>1. Follows(output, Clear, 0)
    <3>1. \A i \in 1..Len(output) : 0 + i = i /\ output[i] = Clear[i]
      BY <1>1, <1>2, <1>7
    <3>2. QED
      BY <3>1 DEF Follows
  <2>2. Follows(out, Clear, Len(output))
    BY <1>1, <1>5, <1>6 DEF Follows
  <2>3. Follows(output \o out, Clear, 0)
    BY <1>2, <1>5, <2>1, <2>2, FollowOn
  <2>4. output \o out \in Seq(Byte) /\ Len(output \o out) = Len(output) + Len(out)
    BY <1>2, <1>5, ConcatProperties
  <2>5. \A i \in 1..Len(output \o out) : 0 + i = i /\ (output \o out)[i] = Clear[i]
    <3>1. \A i \in 1..Len(output \o out) : 0 + i = i
      OBVIOUS
    <3>2. QED
      BY <2>3, <3>1 DEF Follows
  <2>6. QED
    BY <1>1, <1>4, <1>5, <2>4, <2>5
<1>9. ASSUME NEW i \in 1..(read + n)
      PROVE  output'[i] = <<i, 0>>
  <2>1. i \in Nat
    BY <1>2
  <2>2. QED
    BY <1>8, <2>1, ClearAndKeyed
<1>10. TypeOK'
  <2>1. cipher' \in Nat /\ decipher' \in Nat /\ read' \in 0..Len(wire')
    BY <1>1, <1>2, <1>4 DEF TypeOK
  <2>2. QED
    BY <1>2, <1>4, <1>5, <1>8, <2>1 DEF TypeOK
<1>11. StreamInv'
  BY <1>1, <1>4, <1>8, <1>9, <1>10 DEF StreamInv
<1>12. Stream!Begins(output, output')
  <2>1. Len(output) <= Len(output') /\ \A i \in 1..Len(output) : output[i] = output'[i]
    BY <1>1, <1>2, <1>7, <1>8
  <2>2. QED
    BY <1>2, <1>8, <2>1, BeginsWith
<1>13. Stream!Begins(output', plain)
  <2>1. Len(output') <= Len(plain)
    BY <1>2, <1>8
  <2>2. ASSUME NEW i \in 1..Len(output')
        PROVE  output'[i] = plain[i]
    <3>1. i \in 1..(read + n) /\ i \in 1..Len(plain)
      BY <1>2, <1>8
    <3>2. QED
      BY <1>1, <1>9, <3>1
  <2>3. QED
    BY <1>2, <1>8, <2>1, <2>2, BeginsWith
<1>14. QED
  BY <1>4, <1>11, <1>12, <1>13 DEF Stream!Deliver

-----------------------------------------------------------------------------
(* The properties.                                                         *)

LEMMA InitStream == Init => StreamInv /\ Stream!Init
<1> SUFFICES ASSUME Init PROVE StreamInv /\ Stream!Init
  OBVIOUS
<1>1. InitialSize \in Nat /\ <<>> \in Seq(Byte) /\ Len(<<>>) = 0
  BY SodiumConstants, EmptySeq
<1>2. buf \in Seq(Byte) /\ Len(buf) = InitialSize
  BY <1>1, ZerosType DEF Init
<1>3. QED
  BY <1>1, <1>2 DEF Init, StreamInv, TypeOK, Stream!Init

LEMMA NextStream ==
    StreamInv /\ [Next]_vars =>
        StreamInv' /\ [Stream!Send \/ Stream!Deliver]_<<plain, output>>
<1> SUFFICES ASSUME StreamInv, [Next]_vars
             PROVE  StreamInv' /\ [Stream!Send \/ Stream!Deliver]_<<plain, output>>
  OBVIOUS
<1>1. ASSUME NEW n \in 1..MaxPlain, Encrypt(n) \/ Decrypt(n)
      PROVE  StreamInv' /\ [Stream!Send \/ Stream!Deliver]_<<plain, output>>
  <2>1. n \in Nat
    BY SodiumConstants
  <2>2. QED
    BY <1>1, <2>1, EncryptStep, DecryptStep
<1>2. CASE UNCHANGED vars
  BY <1>2 DEF vars, StreamInv, TypeOK
<1>3. QED
  BY <1>1, <1>2 DEF Next

(* The counters of both ciphers, and with them every byte encrypted and    *)
(* decrypted, for pieces of any length in any order.                       *)
THEOREM StreamInvariant == Spec => []StreamInv
BY InitStream, NextStream, PTL DEF Spec

(* Every variable keeps to its domain, and the shared buffer never shrinks *)
(* below its first size.                                                   *)
THEOREM TypeCorrect == Spec => []TypeOK
<1>1. StreamInv => TypeOK
  BY DEF StreamInv
<1>2. QED
  BY <1>1, StreamInvariant, PTL

(* No byte of the keystream is used twice and none is skipped.             *)
THEOREM KeyedInOrder == Spec => []KeyedOnce
<1>1. StreamInv => KeyedOnce
  <2> SUFFICES ASSUME StreamInv PROVE KeyedOnce
    OBVIOUS
  <2>1. DOMAIN wire = 1..Len(plain)
    BY LenProperties DEF StreamInv, TypeOK
  <2>2. QED
    BY <2>1 DEF StreamInv, KeyedOnce
<1>2. QED
  BY <1>1, StreamInvariant, PTL

(* Encrypting in pieces and decrypting in others implements a FIFO of the  *)
(* plaintext.                                                              *)
THEOREM StreamIsFifo == Spec => IsStream
BY InitStream, NextStream, PTL DEF Spec, IsStream, Stream!Spec
=============================================================================
