-------------------------- MODULE DestinationProofs --------------------------
(***************************************************************************)
(* Theorems about Destination, for any number of connections, any names    *)
(* and answers, and any requests.                                          *)
(***************************************************************************)
EXTENDS Destination, SequenceTheorems, WellFoundedInduction, TLAPS

-----------------------------------------------------------------------------
(* Bytes.                                                                  *)

(* Induction over the naturals, for sets of them: if there were one not in *)
(* the set, then a least one.                                              *)
LEMMA Induction ==
    ASSUME NEW S, 0 \in S, \A n \in Nat : n \in S => n + 1 \in S
    PROVE  \A n \in Nat : n \in S
<1> DEFINE R == {p \in Nat \X Nat : p[1] < p[2]}
           T == {n \in Nat : n \notin S}
<1> SUFFICES ASSUME T # {} PROVE FALSE
  OBVIOUS
<1>1. IsWellFoundedOn(R, Nat)
  BY NatLessThanWellFounded DEF OpToRel
<1>2. T \subseteq Nat
  OBVIOUS
<1> HIDE DEF R
<1>3. PICK x \in T : \A y \in T : ~(<<y, x>> \in R)
  BY <1>1, <1>2, WFMin
<1>4. x \in Nat /\ x # 0 /\ x \notin S
  OBVIOUS
<1>5. x - 1 \in Nat /\ (x - 1) + 1 = x
  BY <1>4
<1>6. <<x - 1, x>> \in R
  BY <1>4, <1>5 DEF R
<1>7. x - 1 \in S
  BY <1>3, <1>5, <1>6
<1>8. QED
  BY <1>4, <1>5, <1>7

(* What FlattenSeq computes: the strings joined, one by one.               *)
Joins(f, s) == f = [i \in 1..Len(s) |-> IF i = 1 THEN s[i] ELSE f[i - 1] \o s[i]]

LEMMA Flattened ==
    ASSUME NEW T, NEW s \in Seq(Seq(T)), s # <<>>
    PROVE  \E f : /\ FlattenSeq(s) = f[Len(s)] /\ f[1] = s[1]
                  /\ \A i \in 1..Len(s) : f[i] \in Seq(T)
                  /\ \A i \in 2..Len(s) : f[i] = f[i - 1] \o s[i]
<1>1. Len(s) \in Nat /\ Len(s) >= 1 /\ \A i \in 1..Len(s) : s[i] \in Seq(T)
  BY LenProperties, ElementOfSeq, EmptySeq
<1> DEFINE Some(n) == \E f : f = [i \in 1..n |-> IF i = 1 THEN s[i] ELSE f[i - 1] \o s[i]]
           S == {n \in Nat : Some(n)}
<1>2. \A n \in Nat : n \in S
  <2>1. 0 \in S
    <3>1. <<>> = [i \in 1..0 |-> IF i = 1 THEN s[i] ELSE <<>>[i - 1] \o s[i]]
      OBVIOUS
    <3>2. QED
      BY <3>1
  <2>2. ASSUME NEW n \in Nat, n \in S
        PROVE  n + 1 \in S
    <3>1. PICK f : f = [i \in 1..n |-> IF i = 1 THEN s[i] ELSE f[i - 1] \o s[i]]
      BY <2>2
    <3> DEFINE g == [i \in 1..(n + 1) |->
                        IF i = n + 1 THEN IF i = 1 THEN s[i] ELSE f[n] \o s[i] ELSE f[i]]
    <3>2. ASSUME NEW i \in 1..(n + 1)
          PROVE  g[i] = IF i = 1 THEN s[i] ELSE g[i - 1] \o s[i]
      <4>1. CASE i = 1 /\ i = n + 1
        BY <4>1
      <4>2. CASE i # 1 /\ i = n + 1
        <5>1. i - 1 = n /\ n \in 1..(n + 1) /\ n # n + 1
          BY <4>2
        <5>2. QED
          BY <4>2, <5>1
      <4>3. CASE i # n + 1
        <5>1. i \in 1..n /\ (i # 1 => i - 1 \in 1..(n + 1) /\ i - 1 # n + 1)
          BY <4>3
        <5>2. f[i] = IF i = 1 THEN s[i] ELSE f[i - 1] \o s[i]
          BY <3>1, <5>1
        <5>3. QED
          BY <4>3, <5>1, <5>2
      <4>4. QED
        BY <4>1, <4>2, <4>3
    <3>3. g = [i \in 1..(n + 1) |-> g[i]]
      OBVIOUS
    <3> HIDE DEF g
    <3>4. g = [i \in 1..(n + 1) |-> IF i = 1 THEN s[i] ELSE g[i - 1] \o s[i]]
      BY <3>2, <3>3
    <3>5. Some(n + 1)
      BY <3>4, Zenon
    <3> HIDE DEF Some
    <3>6. n + 1 \in Nat
      OBVIOUS
    <3>7. QED
      BY <3>5, <3>6
  <2> HIDE DEF S
  <2>3. QED
    BY ONLY <2>1, <2>2, Induction
<1> DEFINE f == CHOOSE f : f = [i \in 1..Len(s) |-> IF i = 1 THEN s[i] ELSE f[i - 1] \o s[i]]
<1>3. f = [i \in 1..Len(s) |-> IF i = 1 THEN s[i] ELSE f[i - 1] \o s[i]]
  BY <1>1, <1>2
<1>4. FlattenSeq(s) = f[Len(s)]
  BY <1>1 DEF FlattenSeq
<1> HIDE DEF f
<1>5. \A i \in 1..Len(s) : f[i] = IF i = 1 THEN s[i] ELSE f[i - 1] \o s[i]
  BY <1>3
<1> DEFINE P == {n \in Nat : n + 1 <= Len(s) => f[n + 1] \in Seq(T)}
<1>6. \A n \in Nat : n \in P
  <2>1. 0 \in P
    BY <1>1, <1>5
  <2>2. ASSUME NEW n \in Nat, n \in P
        PROVE  n + 1 \in P
    <3> SUFFICES ASSUME (n + 1) + 1 <= Len(s)
                 PROVE  f[(n + 1) + 1] \in Seq(T)
      OBVIOUS
    <3>1. f[n + 1] \in Seq(T) /\ s[(n + 1) + 1] \in Seq(T)
      BY <1>1, <2>2
    <3>2. f[(n + 1) + 1] = f[n + 1] \o s[(n + 1) + 1]
      <4>1. /\ (n + 1) + 1 \in 1..Len(s) /\ (n + 1) + 1 # 1
            /\ ((n + 1) + 1) - 1 = n + 1
        BY <1>1
      <4>2. QED
        BY <1>5, <4>1
    <3>3. QED
      BY <3>1, <3>2, ConcatProperties
  <2> HIDE DEF P
  <2>3. QED
    BY ONLY <2>1, <2>2, Induction
<1>7. ASSUME NEW i \in 1..Len(s)
      PROVE  f[i] \in Seq(T)
  <2>1. i - 1 \in Nat /\ (i - 1) + 1 = i /\ i <= Len(s)
    BY <1>1
  <2>2. QED
    BY <1>6, <2>1
<1>8. f[1] = s[1]
  BY <1>1, <1>5
<1>9. ASSUME NEW i \in 2..Len(s)
      PROVE  f[i] = f[i - 1] \o s[i]
  <2>1. i \in 1..Len(s) /\ i # 1
    BY <1>1
  <2>2. QED
    BY <1>5, <2>1
<1>10. QED
  BY ONLY <1>4, <1>7, <1>8, <1>9, Zenon

(* A string as the list of its characters' bytes.                          *)
Spelt(h) == [i \in DOMAIN h |-> Encoding[h[i]]]

(* The encoding of a string's beginnings, one character after the other.   *)
Spells(f, h) ==
    /\ f[0] = <<>> /\ Encode(h) = f[Len(h)]
    /\ \A i \in 0..Len(h) : f[i] \in Seq(Byte)
    /\ \A i \in 1..Len(h) : f[i] = f[i - 1] \o Encoding[h[i]]

LEMMA Character ==
    ASSUME NEW h \in Host, NEW i \in 1..Len(h)
    PROVE  /\ h[i] \in DOMAIN Encoding
           /\ Encoding[h[i]] \in Seq(Byte) /\ Len(Encoding[h[i]]) \in Nat
           /\ Len(Encoding[h[i]]) >= 1
<1>1. h[i] \in DOMAIN Encoding
  BY ElementOfSeq DEF Host
<1>2. Encoding[h[i]] \in Seq(Byte) /\ Encoding[h[i]] # <<>>
  BY <1>1, DestinationConstants
<1>3. QED
  BY <1>1, <1>2, LenProperties, EmptySeq

LEMMA Spelling ==
    ASSUME NEW h \in Host
    PROVE  Len(h) \in Nat /\ \E f : Spells(f, h)
<1>1. h \in Seq(DOMAIN Encoding) /\ Len(h) \in Nat /\ DOMAIN h = 1..Len(h)
  BY LenProperties DEF Host
<1>2. Encode(h) = FlattenSeq(Spelt(h))
  BY DEF Encode, Spelt
<1>3. Spelt(h) \in Seq(Seq(Byte)) /\ Len(Spelt(h)) = Len(h)
  <2>1. Spelt(h) \in [1..Len(h) -> Seq(Byte)]
    BY <1>1, Character DEF Spelt
  <2>2. Spelt(h) \in Seq(Seq(Byte))
    BY <1>1, <2>1, SeqDef
  <2>3. QED
    BY <1>1, <2>1, <2>2, LenProperties
<1>4. \A i \in 1..Len(h) : Spelt(h)[i] = Encoding[h[i]]
  BY <1>1 DEF Spelt
<1>5. CASE h = <<>>
  <2>1. Len(h) = 0 /\ Spelt(h) = <<>>
    BY <1>5 DEF Spelt
  <2>2. Encode(h) = <<>>
    BY <1>2, <2>1 DEF FlattenSeq
  <2> DEFINE f == [i \in 0..0 |-> <<>>]
  <2>3. /\ f[0] = <<>> /\ Encode(h) = f[Len(h)]
        /\ \A i \in 0..Len(h) : f[i] \in Seq(Byte)
    BY <2>1, <2>2, EmptySeq
  <2>4. Spells(f, h)
    BY <2>1, <2>3 DEF Spells
  <2>5. QED
    BY <1>1, <2>4
<1>6. CASE h # <<>>
  <2>1. Len(h) >= 1 /\ Spelt(h) # <<>>
    BY <1>1, <1>3, <1>6, EmptySeq
  <2>2. PICK g : /\ Encode(h) = g[Len(h)] /\ g[1] = Spelt(h)[1]
                 /\ \A i \in 1..Len(h) : g[i] \in Seq(Byte)
                 /\ \A i \in 2..Len(h) : g[i] = g[i - 1] \o Spelt(h)[i]
    <3> DEFINE s == Spelt(h)
    <3>1. s \in Seq(Seq(Byte)) /\ s # <<>> /\ Len(s) = Len(h) /\ Encode(h) = FlattenSeq(s)
      BY <1>2, <1>3, <2>1
    <3> HIDE DEF s
    <3>2. \E g : /\ FlattenSeq(s) = g[Len(s)] /\ g[1] = s[1]
                 /\ \A i \in 1..Len(s) : g[i] \in Seq(Byte)
                 /\ \A i \in 2..Len(s) : g[i] = g[i - 1] \o s[i]
      BY <3>1, Flattened
    <3>3. QED
      BY <3>1, <3>2 DEF s
  <2> DEFINE f == [i \in 0..Len(h) |-> IF i = 0 THEN <<>> ELSE g[i]]
  <2>3. f[0] = <<>> /\ \A i \in 1..Len(h) : f[i] = g[i]
    BY <1>1
  <2> HIDE DEF f
  <2>4. Encode(h) = f[Len(h)]
    BY <1>1, <2>1, <2>2, <2>3
  <2>5. \A i \in 0..Len(h) : f[i] \in Seq(Byte)
    <3>1. \A i \in 0..Len(h) : i = 0 \/ i \in 1..Len(h)
      BY <1>1
    <3>2. QED
      BY <2>2, <2>3, <3>1, EmptySeq
  <2>6. ASSUME NEW i \in 1..Len(h)
        PROVE  f[i] = f[i - 1] \o Encoding[h[i]]
    <3>1. CASE i = 1
      <4>1. f[i] = Encoding[h[i]] /\ f[i - 1] = <<>>
        BY <1>4, <2>1, <2>2, <2>3, <3>1
      <4>2. QED
        BY <4>1, Character, ConcatEmptySeq
    <3>2. CASE i # 1
      <4>1. i \in 2..Len(h) /\ i - 1 \in 1..Len(h)
        BY <1>1, <3>2
      <4>2. QED
        BY <1>4, <2>2, <2>3, <4>1
    <3>3. QED
      BY <3>1, <3>2
  <2>7. Spells(f, h)
    BY <2>3, <2>4, <2>5, <2>6 DEF Spells
  <2>8. QED
    BY <1>1, <2>7
<1>7. QED
  BY <1>5, <1>6

(* Each character takes a byte or more.                                    *)
LEMMA EncodesToBytes ==
    ASSUME NEW h \in Host
    PROVE  Encode(h) \in Seq(Byte) /\ Len(Encode(h)) >= Len(h)
<1>1. Len(h) \in Nat
  BY Spelling
<1>2. PICK f : Spells(f, h)
  BY Spelling
<1> DEFINE P == {n \in Nat : n <= Len(h) => Len(f[n]) >= n}
<1>3. 0 \in P
  BY <1>2 DEF Spells
<1>4. ASSUME NEW n \in Nat, n \in P
      PROVE  n + 1 \in P
  <2> SUFFICES ASSUME n + 1 <= Len(h)
               PROVE  Len(f[n + 1]) >= n + 1
    OBVIOUS
  <2>1. n \in 0..Len(h) /\ n + 1 \in 1..Len(h) /\ (n + 1) - 1 = n
    BY <1>1
  <2>2. f[n] \in Seq(Byte) /\ f[n + 1] = f[n] \o Encoding[h[n + 1]]
    BY <1>2, <2>1 DEF Spells
  <2>3. Len(f[n]) >= n /\ Len(f[n]) \in Nat
    BY <1>4, <2>1, <2>2, LenProperties
  <2>4. /\ Encoding[h[n + 1]] \in Seq(Byte) /\ Len(Encoding[h[n + 1]]) \in Nat
        /\ Len(Encoding[h[n + 1]]) >= 1
    BY <2>1, Character
  <2>5. Len(f[n + 1]) = Len(f[n]) + Len(Encoding[h[n + 1]])
    BY <2>2, <2>4, ConcatProperties
  <2>6. \A a, b \in Nat : a >= n /\ b >= 1 => a + b >= n + 1
    OBVIOUS
  <2>7. QED
    BY <2>3, <2>4, <2>5, <2>6
<1> HIDE DEF P
<1>5. \A n \in Nat : n \in P
  BY ONLY <1>3, <1>4, Induction
<1>6. Len(h) \in P /\ Len(h) \in 0..Len(h)
  BY <1>1, <1>5
<1>7. QED
  BY <1>1, <1>2, <1>6 DEF P, Spells

(* What is written of a string so far is how its encoding begins.          *)
LEMMA SpellsOn ==
    ASSUME NEW h \in Host, NEW f, Spells(f, h), NEW j \in 0..Len(h)
    PROVE  /\ Len(f[j]) \in Nat /\ Len(Encode(h)) \in Nat
           /\ Len(f[j]) <= Len(Encode(h))
           /\ \A k \in 1..Len(f[j]) : Encode(h)[k] = f[j][k]
<1> DEFINE e == Encode(h)
           len == Len(h)
           From(i) == /\ Len(f[i]) \in Nat /\ Len(f[i]) <= Len(e)
                      /\ \A k \in 1..Len(f[i]) : e[k] = f[i][k]
           P == {n \in Nat : n <= len => From(len - n)}
<1>1. len \in Nat
  BY Spelling
<1>2. e \in Seq(Byte) /\ Len(e) \in Nat /\ e = f[len]
  BY EncodesToBytes, LenProperties DEF Spells
<1>3. 0 \in P
  <2>1. len - 0 = len
    BY <1>1
  <2>2. From(len)
    BY <1>2
  <2>3. QED
    BY <2>1, <2>2
<1>4. ASSUME NEW n \in Nat, n \in P
      PROVE  n + 1 \in P
  <2> SUFFICES ASSUME n + 1 <= len
               PROVE  From(len - (n + 1))
    OBVIOUS
  <2> DEFINE i == len - n
  <2>1. /\ i \in 1..len /\ i - 1 \in 0..len /\ i - 1 = len - (n + 1) /\ n <= len
    BY <1>1
  <2>2. From(i)
    BY <1>4, <2>1
  <2> HIDE DEF i, e, len
  <2> DEFINE a == f[i - 1]
             b == Encoding[h[i]]
  <2>3. a \in Seq(Byte) /\ f[i] = a \o b
    BY <2>1 DEF Spells, len
  <2>4. b \in Seq(Byte)
    BY <2>1, Character DEF len
  <2> HIDE DEF a, b
  <2>5. /\ Len(f[i]) = Len(a) + Len(b)
        /\ \A k \in 1..(Len(a) + Len(b)) : f[i][k] = IF k <= Len(a) THEN a[k] ELSE b[k - Len(a)]
    BY <2>3, <2>4, ConcatProperties
  <2>6. Len(a) \in Nat /\ Len(b) \in Nat
    BY <2>3, <2>4, LenProperties
  <2>7. \A k \in 1..Len(a) :
           k \in 1..(Len(a) + Len(b)) /\ k \in 1..Len(f[i]) /\ k <= Len(a)
    BY <2>5, <2>6
  <2>8. From(i - 1)
    <3>1. Len(a) <= Len(e)
      BY <1>2, <2>2, <2>5, <2>6
    <3>2. \A k \in 1..Len(a) : e[k] = a[k]
      BY <2>2, <2>5, <2>7
    <3>3. QED
      BY <2>6, <3>1, <3>2 DEF a
  <2>9. QED
    BY <2>1, <2>8
<1> HIDE DEF P
<1>5. \A n \in Nat : n \in P
  BY ONLY <1>3, <1>4, Induction
<1>6. len - j \in Nat /\ len - j <= len /\ len - (len - j) = j
  BY <1>1
<1>7. From(j)
  BY <1>5, <1>6 DEF P
<1>8. QED
  BY <1>2, <1>7

(* No two strings are written alike: the first character they differ in    *)
(* would show in a byte.                                                   *)
LEMMA SameBytes ==
    ASSUME NEW g \in Host, NEW h \in Host, Encode(g) = Encode(h)
    PROVE  Len(h) <= Len(g) /\ \A j \in 1..Len(h) : g[j] = h[j]
<1>1. Len(g) \in Nat /\ Len(h) \in Nat
  BY Spelling
<1>2. PICK f : Spells(f, g)
  BY Spelling
<1>3. PICK e : Spells(e, h)
  BY Spelling
<1> DEFINE Alike(n) == f[n] = e[n] /\ \A j \in 1..n : g[j] = h[j]
           P == {n \in Nat : n <= Len(g) /\ n <= Len(h) => Alike(n)}
<1>4. 0 \in P
  BY <1>2, <1>3 DEF Spells
<1>5. ASSUME NEW n \in Nat, n \in P
      PROVE  n + 1 \in P
  <2> SUFFICES ASSUME n + 1 <= Len(g), n + 1 <= Len(h)
               PROVE  Alike(n + 1)
    OBVIOUS
  <2> DEFINE m == n + 1
             a == Encoding[g[m]]
             b == Encoding[h[m]]
             l == Len(f[n])
  <2>1. /\ n \in 0..Len(g) /\ n \in 0..Len(h) /\ m \in 1..Len(g) /\ m \in 1..Len(h)
        /\ m \in 0..Len(g) /\ m \in 0..Len(h) /\ m - 1 = n
    BY <1>1
  <2>2. Alike(n)
    BY <1>5, <2>1
  <2>3. /\ f[n] \in Seq(Byte) /\ l \in Nat
        /\ f[m] = f[n] \o a /\ e[m] = f[n] \o b
    <3>1. f[m] = f[m - 1] \o a /\ e[m] = e[m - 1] \o b /\ f[n] \in Seq(Byte)
      BY <1>2, <1>3, <2>1 DEF Spells
    <3>2. QED
      BY <2>1, <2>2, <3>1, LenProperties
  <2>4. /\ g[m] \in DOMAIN Encoding /\ h[m] \in DOMAIN Encoding
        /\ a \in Seq(Byte) /\ b \in Seq(Byte)
        /\ DOMAIN a = 1..Len(a) /\ DOMAIN b = 1..Len(b)
        /\ Len(a) \in Nat /\ Len(b) \in Nat
    BY <2>1, Character, LenProperties
  <2>5. /\ \A k \in 1..Len(f[m]) : Encode(g)[k] = f[m][k]
        /\ \A k \in 1..Len(e[m]) : Encode(g)[k] = e[m][k]
    <3>1. \A k \in 1..Len(f[m]) : Encode(g)[k] = f[m][k]
      BY <1>2, <2>1, SpellsOn
    <3>2. \A k \in 1..Len(e[m]) : Encode(h)[k] = e[m][k]
      BY <1>3, <2>1, SpellsOn
    <3>3. QED
      BY <3>1, <3>2
  <2> HIDE DEF m, a, b
  <2>6. /\ Len(f[m]) = l + Len(a)
        /\ \A k \in 1..(l + Len(a)) : f[m][k] = IF k <= l THEN f[n][k] ELSE a[k - l]
    BY <2>3, <2>4, ConcatProperties
  <2>7. /\ Len(e[m]) = l + Len(b)
        /\ \A k \in 1..(l + Len(b)) : e[m][k] = IF k <= l THEN f[n][k] ELSE b[k - l]
    BY <2>3, <2>4, ConcatProperties
  <2> HIDE DEF l
  <2>8. ASSUME NEW i \in DOMAIN a \cap DOMAIN b
        PROVE  a[i] = b[i]
    <3>0. /\ l \in Nat /\ Len(a) \in Nat /\ Len(b) \in Nat /\ i \in 1..Len(a) /\ i \in 1..Len(b)
      BY <2>3, <2>4, LenProperties
    <3>1. /\ l + i \in 1..(l + Len(a)) /\ l + i \in 1..(l + Len(b))
          /\ ~(l + i <= l) /\ (l + i) - l = i
      BY ONLY <3>0
    <3>2. Encode(g)[l + i] = a[i]
      BY <2>5, <2>6, <3>1
    <3>3. Encode(g)[l + i] = b[i]
      BY <2>5, <2>7, <3>1
    <3>4. QED
      BY <3>2, <3>3
  <2>9. g[m] = h[m]
    BY <2>4, <2>8, EncodingConstants DEF a, b
  <2>10. f[m] = e[m]
    BY <2>3, <2>9 DEF a, b
  <2>11. \A j \in 1..m : j \in 1..n \/ j = m
    BY DEF m
  <2>12. QED
    BY <2>2, <2>9, <2>10, <2>11 DEF m
<1> HIDE DEF P
<1>6. \A n \in Nat : n \in P
  BY ONLY <1>4, <1>5, Induction
<1>7. Len(h) <= Len(g)
  <2> SUFFICES ASSUME Len(g) < Len(h) PROVE FALSE
    BY <1>1
  <2> DEFINE n == Len(g)
             b == Encoding[h[n + 1]]
  <2>1. /\ n \in Nat /\ n \in 0..Len(h) /\ n + 1 \in 1..Len(h) /\ n + 1 \in 0..Len(h)
        /\ (n + 1) - 1 = n /\ n <= Len(g) /\ n <= Len(h)
    BY <1>1
  <2>2. f[n] = e[n] /\ Encode(h) = f[n]
    BY <1>2, <1>6, <2>1 DEF P, Spells
  <2>3. e[n] \in Seq(Byte) /\ e[n + 1] = e[n] \o b
    BY <1>3, <2>1 DEF Spells
  <2>4. b \in Seq(Byte) /\ Len(b) \in Nat /\ Len(b) >= 1
    BY <2>1, Character
  <2>5. Len(e[n + 1]) <= Len(Encode(h)) /\ Len(Encode(h)) \in Nat
    BY <1>3, <2>1, SpellsOn
  <2> HIDE DEF n, b
  <2>6. Len(e[n + 1]) = Len(e[n]) + Len(b)
    BY <2>3, <2>4, ConcatProperties
  <2>7. QED
    BY <2>2, <2>4, <2>5, <2>6
<1>8. \A j \in 1..Len(h) : g[j] = h[j]
  BY <1>1, <1>6, <1>7 DEF P
<1>9. QED
  BY <1>7, <1>8

LEMMA Injective ==
    ASSUME NEW g \in Host, NEW h \in Host, Encode(g) = Encode(h)
    PROVE  g = h
<1>1. /\ Len(h) <= Len(g) /\ Len(g) <= Len(h) /\ Len(g) \in Nat /\ Len(h) \in Nat
      /\ \A j \in 1..Len(h) : g[j] = h[j]
  BY SameBytes, Spelling
<1>2. Len(g) = Len(h)
  BY <1>1
<1>3. g \in Seq(DOMAIN Encoding) /\ h \in Seq(DOMAIN Encoding)
  BY DEF Host
<1>4. QED
  BY <1>1, <1>2, <1>3, SeqEqual

-----------------------------------------------------------------------------
(* Messages.                                                               *)

LEMMA Decoded ==
    ASSUME NEW bytes \in Seq(Byte), NEW h \in Decode(bytes)
    PROVE  h \in Host /\ Encode(h) = bytes
<1>1. Len(bytes) \in Nat
  OBVIOUS
<1>2. PICK n \in 0..Len(bytes) : h \in [1..n -> DOMAIN Encoding]
  BY DEF Decode
<1>3. n \in Nat
  BY <1>1
<1>4. h \in Seq(DOMAIN Encoding)
  BY <1>2, <1>3, SeqDef
<1>5. QED
  BY <1>4 DEF Decode, Host

LEMMA PortAsBytes ==
    ASSUME NEW port \in 0..MaxPort
    PROVE  /\ PortBytes(port) \in Seq(Byte) /\ Len(PortBytes(port)) = 2
           /\ PortOf(PortBytes(port)) = port
<1>1. Base \in Nat /\ Base > 5 /\ port \in Nat /\ port <= Base * Base - 1
  BY DestinationConstants DEF MaxPort
<1>2. port % Base \in 0..(Base - 1) /\ port \div Base \in Nat
  BY <1>1
<1>3. port = Base * (port \div Base) + (port % Base)
  BY <1>1
<1>4. port \div Base <= Base - 1
  BY <1>1, <1>2, <1>3
<1>5. port \div Base \in Byte /\ port % Base \in Byte
  BY <1>1, <1>2, <1>4 DEF Byte
<1>6. (port \div Base) * Base + (port % Base) = port
  BY <1>1, <1>2, <1>3
<1>7. PortBytes(port)[1] = port \div Base /\ PortBytes(port)[2] = port % Base
  BY DEF PortBytes
<1>8. QED
  BY <1>5, <1>6, <1>7 DEF PortBytes, PortOf

LEMMA BytesAsPort ==
    ASSUME NEW bytes \in Seq(Byte), Len(bytes) = 2
    PROVE  PortOf(bytes) \in 0..MaxPort
<1>1. bytes[1] \in 0..(Base - 1) /\ bytes[2] \in 0..(Base - 1) /\ Base \in Nat /\ Base > 5
  <2>1. \A i \in 1..Len(bytes) : bytes[i] \in Byte
    BY ElementOfSeq
  <2>2. 1 \in 1..2 /\ 2 \in 1..2
    OBVIOUS
  <2>3. bytes[1] \in Byte /\ bytes[2] \in Byte
    BY <2>1, <2>2
  <2>4. QED
    BY <2>3, DestinationConstants DEF Byte
<1> DEFINE x == bytes[1]
           y == bytes[2]
<1>2. x \in Int /\ y \in Int /\ 0 <= x /\ x <= Base - 1 /\ 0 <= y /\ y <= Base - 1
  BY <1>1
<1> HIDE DEF x, y
<1>3. x * Base \in Int /\ 0 <= x * Base /\ x * Base <= (Base - 1) * Base
  BY <1>1, <1>2
<1>4. (Base - 1) * Base = Base * Base - Base
  BY <1>1
<1>5. x * Base + y \in 0..(Base * Base - 1)
  BY <1>1, <1>2, <1>3, <1>4
<1>6. QED
  BY <1>5 DEF PortOf, MaxPort, x, y

(* A part of a message that is known item by item.                         *)
LEMMA Piece ==
    ASSUME NEW data \in Seq(Byte), NEW piece \in Seq(Byte), NEW m \in Nat,
           m + Len(piece) <= Len(data), \A i \in 1..Len(piece) : data[m + i] = piece[i]
    PROVE  SubSeq(data, m + 1, m + Len(piece)) = piece
<1> DEFINE k    == Len(piece)
           lo   == m + 1
           hi   == m + k
           part == SubSeq(data, lo, hi)
<1>1. k \in Nat /\ Len(data) \in Nat
  BY LenProperties
<1>2. /\ lo \in Int /\ hi \in Int /\ hi - lo + 1 = k /\ (lo <= hi \/ k = 0)
      /\ \A i \in lo..hi : data[i] \in Byte
      /\ \A i \in 1..k : data[lo + i - 1] = piece[i]
  <2>1. \A i \in lo..hi : data[i] \in Byte
    BY <1>1, ElementOfSeq
  <2>2. \A i \in 1..k : lo + i - 1 = m + i
    BY <1>1
  <2>3. QED
    BY <1>1, <2>1, <2>2
<1> HIDE DEF lo, hi
<1>3. /\ part \in Seq(Byte)
      /\ Len(part) = IF lo <= hi THEN hi - lo + 1 ELSE 0
      /\ \A i \in 1..(hi - lo + 1) : part[i] = data[lo + i - 1]
  <2>1. lo \in Int /\ hi \in Int /\ \A i \in lo..hi : data[i] \in Byte
    BY <1>2
  <2>2. QED
    BY <2>1, SubSeqProperties
<1> HIDE DEF k, part
<1>4. Len(part) = k
  BY <1>1, <1>2, <1>3
<1>5. \A i \in 1..k : part[i] = piece[i]
  BY <1>2, <1>3
<1>6. part = piece
  BY <1>3, <1>4, <1>5, SeqEqual DEF k
<1>7. QED
  BY <1>6 DEF part, lo, hi, k

(* A message of a head, a host and a port.                                 *)
LEMMA Pieces ==
    ASSUME NEW head \in Seq(Byte), NEW host \in Seq(Byte), NEW port \in Seq(Byte)
    PROVE  LET data == head \o host \o port
               n    == Len(head) + Len(host)
           IN  /\ data \in Seq(Byte) /\ Len(data) = n + Len(port)
               /\ \A i \in 1..Len(head) : data[i] = head[i]
               /\ SubSeq(data, Len(head) + 1, n) = host
               /\ SubSeq(data, n + 1, n + Len(port)) = port
<1> DEFINE front == head \o host
           data  == front \o port
           h     == Len(head)
           n     == h + Len(host)
<1>1. h \in Nat /\ Len(host) \in Nat /\ Len(port) \in Nat
  BY LenProperties
<1>2. /\ front \in Seq(Byte) /\ Len(front) = n
      /\ \A i \in 1..n : front[i] = IF i <= h THEN head[i] ELSE host[i - h]
  BY ConcatProperties
<1> HIDE DEF front
<1>3. /\ data \in Seq(Byte) /\ Len(data) = n + Len(port)
      /\ \A i \in 1..(n + Len(port)) : data[i] = IF i <= n THEN front[i] ELSE port[i - n]
  <2>1. /\ data \in Seq(Byte) /\ Len(data) = Len(front) + Len(port)
        /\ \A i \in 1..(Len(front) + Len(port)) :
              data[i] = IF i <= Len(front) THEN front[i] ELSE port[i - Len(front)]
    <3>1. front \in Seq(Byte)
      BY <1>2
    <3>2. QED
      BY <3>1, ConcatProperties
  <2> HIDE DEF data
  <2>2. QED
    BY <1>2, <2>1
<1> HIDE DEF data
<1>4. \A i \in 1..h : data[i] = head[i]
  <2>1. TAKE i \in 1..h
  <2>2. i \in 1..n /\ i \in 1..(n + Len(port)) /\ i <= n /\ i <= h
    BY <1>1
  <2>3. QED
    BY <1>2, <1>3, <2>2
<1>5. \A i \in 1..Len(host) : data[h + i] = host[i]
  <2>1. TAKE i \in 1..Len(host)
  <2> DEFINE k == h + i
  <2>2. k \in 1..n /\ k \in 1..(n + Len(port)) /\ k <= n /\ ~(k <= h) /\ k - h = i
    BY <1>1
  <2> HIDE DEF k
  <2>3. data[k] = host[i]
    BY <1>2, <1>3, <2>2
  <2>4. QED
    BY <2>3 DEF k
<1>6. \A i \in 1..Len(port) : data[n + i] = port[i]
  <2>1. TAKE i \in 1..Len(port)
  <2> DEFINE k == n + i
  <2>2. k \in 1..(n + Len(port)) /\ ~(k <= n) /\ k - n = i
    BY <1>1
  <2> HIDE DEF k
  <2>3. data[k] = port[i]
    BY <1>3, <2>2
  <2>4. QED
    BY <2>3 DEF k
<1>7. SubSeq(data, h + 1, h + Len(host)) = host
  <2>1. h \in Nat /\ h + Len(host) <= Len(data)
    BY <1>1, <1>3
  <2> HIDE DEF h
  <2>2. QED
    BY <1>3, <1>5, <2>1, Piece
<1>8. SubSeq(data, n + 1, n + Len(port)) = port
  <2>1. n \in Nat /\ n + Len(port) <= Len(data)
    BY <1>1, <1>3
  <2>2. QED
    BY <1>3, <1>6, <2>1, Piece
<1>9. QED
  BY <1>3, <1>4, <1>7, <1>8 DEF data, front

(* A segment of a message.                                                 *)
LEMMA Slice ==
    ASSUME NEW S, NEW s \in Seq(S), NEW m \in Nat, NEW n \in Int, m >= 1, n <= Len(s)
    PROVE  SubSeq(s, m, n) \in Seq(S) /\ Len(SubSeq(s, m, n)) = IF m <= n THEN n - m + 1 ELSE 0
<1>1. \A i \in m..n : s[i] \in S
  BY ElementOfSeq
<1>2. m \in Int
  OBVIOUS
<1>3. QED
  BY <1>1, <1>2, SubSeqProperties

(* What the server reads of a first message is an address, though perhaps  *)
(* another: the same if the characters of the name take a byte each.       *)
LEMMA FirstMessageRead ==
    ASSUME NEW addr \in Address, Fits(addr),
           NEW back \in AddrFromFirstData(CreateFirstData(addr))
    PROVE  /\ back \in Address /\ back.port \in 0..MaxPort
           /\ Len(Encode(addr.host)) = Len(addr.host) => back = addr
<1> DEFINE len  == Len(addr.host)
           head == <<3, len>>
           name == Encode(addr.host)
           port == PortBytes(addr.port)
           data == head \o name \o port
<1>1. addr.host \in Host /\ addr.port \in 0..MaxPort
  BY DEF Address, Fits
<1>2. len \in 0..(Base - 1) /\ Base \in Nat /\ Base > 5
  BY <1>1, DestinationConstants DEF Fits, MaxHost, Host
<1>3. head \in Seq(Byte) /\ Len(head) = 2 /\ head[2] = len
  <2>1. 3 \in Byte /\ len \in Byte
    BY <1>2 DEF Byte
  <2> HIDE DEF len
  <2>2. QED
    BY <2>1
<1>4. name \in Seq(Byte) /\ Len(name) >= len /\ Len(name) \in Nat
  BY <1>1, EncodesToBytes
<1>5. port \in Seq(Byte) /\ Len(port) = 2 /\ PortOf(port) = addr.port
  BY <1>1, PortAsBytes
<1> HIDE DEF head, name, port
<1>6. /\ data \in Seq(Byte) /\ Len(data) = 2 + Len(name) + 2 /\ data[2] = len
      /\ SubSeq(data, 3, 2 + Len(name)) = name
      /\ SubSeq(data, 2 + Len(name) + 1, 2 + Len(name) + 2) = port
  <2> HIDE DEF len
  <2>1. /\ data \in Seq(Byte) /\ Len(data) = (Len(head) + Len(name)) + Len(port)
        /\ \A i \in 1..Len(head) : data[i] = head[i]
        /\ SubSeq(data, Len(head) + 1, Len(head) + Len(name)) = name
        /\ SubSeq(data, (Len(head) + Len(name)) + 1, (Len(head) + Len(name)) + Len(port)) = port
    <3>1. head \in Seq(Byte) /\ name \in Seq(Byte) /\ port \in Seq(Byte)
      BY <1>3, <1>4, <1>5
    <3>2. QED
      BY ONLY <3>1, Pieces
  <2>2. 2 \in 1..2 /\ 2 + 1 = 3
    OBVIOUS
  <2> HIDE DEF data
  <2>3. QED
    BY <1>3, <1>5, <2>1, <2>2
<1>7. CreateFirstData(addr) = data
  BY DEF CreateFirstData, data, head, name, port
<1> HIDE DEF data, len
<1> DEFINE host == SubSeq(data, 3, 2 + len)
           last == SubSeq(data, 3 + len, 4 + len)
<1>8. PICK h \in Decode(host) : back = [host |-> h, port |-> PortOf(last)]
  BY <1>6, <1>7 DEF AddrFromFirstData
<1>9. host \in Seq(Byte)
  <2>1. 3 \in Nat /\ 2 + len \in Int /\ 3 >= 1 /\ 2 + len <= Len(data)
    BY <1>2, <1>4, <1>6
  <2>2. QED
    BY <1>6, <2>1, Slice
<1>10. last \in Seq(Byte) /\ Len(last) = 2
  <2>1. /\ 3 + len \in Nat /\ 4 + len \in Int /\ 3 + len >= 1 /\ 4 + len <= Len(data)
        /\ 3 + len <= 4 + len /\ (4 + len) - (3 + len) + 1 = 2
    BY <1>2, <1>4, <1>6
  <2>2. QED
    BY <1>6, <2>1, Slice
<1> HIDE DEF host, last
<1>11. h \in Host /\ Encode(h) = host
  BY <1>9, Decoded
<1>12. PortOf(last) \in 0..MaxPort
  BY <1>10, BytesAsPort
<1>13. ASSUME Len(Encode(addr.host)) = Len(addr.host)
       PROVE  back = addr
  <2>1. Len(name) = len
    BY <1>13 DEF name, len
  <2>2. host = name /\ last = port
    <3>1. 3 + len = 2 + Len(name) + 1 /\ 4 + len = 2 + Len(name) + 2 /\ 2 + len = 2 + Len(name)
      BY <1>2, <2>1
    <3>2. QED
      BY <1>6, <3>1 DEF host, last
  <2>3. h = addr.host
    BY <1>1, <1>11, <1>13, <2>2, Injective DEF name
  <2>4. QED
    BY <1>5, <1>8, <2>2, <2>3 DEF Address
<1>14. PortOf(last) \in Nat
  <2>1. MaxPort \in Int
    BY DestinationConstants DEF MaxPort
  <2>2. QED
    BY <1>12, <2>1
<1>15. QED
  BY <1>8, <1>11, <1>12, <1>13, <1>14 DEF Address

(* What a client reads of a request, whole or cut, is an address.          *)
LEMMA ParsedType ==
    ASSUME NEW r \in Requests, NEW addr \in Parsed(r)
    PROVE  addr \in Address
<1>1. /\ r \in Request /\ r.host \in Host /\ r.port \in Nat
      /\ r.via = "socks5" => r.port <= MaxPort
      /\ Base \in Nat /\ Base > 5
  BY DestinationConstants DEF Request
<1>2. CASE r.via = "socks5"
  <2> DEFINE name == Encode(r.host)
             head == <<5, 1, 0, r.atyp, Len(name) % Base>>
             port == PortBytes(r.port)
             data == head \o name \o port
  <2>1. name \in Seq(Byte) /\ Len(name) \in Nat
    BY <1>1, EncodesToBytes
  <2>2. port \in Seq(Byte)
    <3>1. r.port \in 0..MaxPort
      BY <1>1, <1>2
    <3>2. QED
      BY <3>1, PortAsBytes
  <2> HIDE DEF name, port
  <2>3. head \in Seq(Byte)
    <3>1. 5 \in Byte /\ 1 \in Byte /\ 0 \in Byte /\ r.atyp \in Byte
      BY <1>1 DEF Byte, Request
    <3>2. Len(name) % Base \in Byte
      BY <1>1, <2>1 DEF Byte
    <3>3. QED
      BY <3>1, <3>2
  <2> HIDE DEF head
  <2>4. data \in Seq(Byte)
    BY <2>1, <2>2, <2>3, Pieces
  <2>5. Socks5Bytes(r) = data
    BY DEF Socks5Bytes, data, head, name, port
  <2> HIDE DEF data
  <2>6. PICK n \in 4..Len(data) : addr \in Socks5Addr(SubSeq(data, 1, n))
    BY <1>2, <2>5 DEF Parsed
  <2> DEFINE seg == SubSeq(data, 1, n)
  <2>7. n \in Nat /\ n >= 4 /\ n <= Len(data)
    BY <2>4
  <2>8. seg \in Seq(Byte) /\ Len(seg) = n
    <3>1. 1 \in Nat /\ n \in Int /\ 1 >= 1 /\ 1 <= n /\ n - 1 + 1 = n
      BY <2>7
    <3>2. QED
      BY <2>4, <2>7, <3>1, Slice
  <2>9. PICK h \in Decode(SubSeq(seg, 6, Len(seg) - 2)) :
           addr = [host |-> h, port |-> PortOf(LastTwo(seg))]
    BY <2>6 DEF Socks5Addr
  <2> HIDE DEF seg
  <2>10. SubSeq(seg, 6, Len(seg) - 2) \in Seq(Byte)
    <3>1. 6 \in Nat /\ Len(seg) - 2 \in Int /\ 6 >= 1 /\ Len(seg) - 2 <= Len(seg)
      BY <2>7, <2>8
    <3>2. QED
      BY <2>8, <3>1, Slice
  <2>11. h \in Host
    BY <2>10, Decoded
  <2>12. LastTwo(seg) \in Seq(Byte) /\ Len(LastTwo(seg)) = 2
    <3>1. /\ Len(seg) - 1 \in Nat /\ Len(seg) \in Int /\ Len(seg) - 1 >= 1
          /\ Len(seg) - 1 <= Len(seg) /\ Len(seg) - (Len(seg) - 1) + 1 = 2
      BY <2>7, <2>8
    <3>2. QED
      BY <2>8, <3>1, Slice DEF LastTwo
  <2>13. PortOf(LastTwo(seg)) \in Nat
    <3>1. PortOf(LastTwo(seg)) \in 0..MaxPort /\ MaxPort \in Int
      BY <1>1, <2>12, BytesAsPort DEF MaxPort
    <3>2. QED
      BY <3>1
  <2>14. QED
    BY <2>9, <2>11, <2>13 DEF Address
<1>3. CASE r.via # "socks5"
  <2>1. addr \in HttpAddr(r)
    BY <1>3 DEF Parsed
  <2>2. ASSUME NEW p \in {r.port} \cup DigitsCut(r.port)
        PROVE  [host |-> r.host, port |-> p] \in Address
    <3>1. p \in Nat
      BY <1>1 DEF DigitsCut
    <3>2. QED
      BY <1>1, <3>1 DEF Address
  <2>3. ASSUME NEW k \in 0..Len(r.host)
        PROVE  [host |-> SubSeq(r.host, 1, k), port |-> DefaultPort] \in Address
    <3>1. r.host \in Seq(DOMAIN Encoding)
      BY <1>1 DEF Host
    <3>2. Len(r.host) \in Nat
      BY <3>1, LenProperties
    <3>3. 1 \in Nat /\ k \in Int /\ 1 >= 1 /\ k <= Len(r.host)
      BY <3>2
    <3>4. SubSeq(r.host, 1, k) \in Seq(DOMAIN Encoding)
      BY <3>1, <3>3, Slice
    <3>5. QED
      BY <3>4 DEF Address, Host, DefaultPort
  <2>4. QED
    BY <2>1, <2>2, <2>3 DEF HttpAddr
<1>4. QED
  BY <1>2, <1>3

-----------------------------------------------------------------------------
(* Types.                                                                  *)

Ip          == UNION {Answers[n] : n \in DOMAIN Answers}
WithAddress == {"scheduled", "connecting", "connected"}
Resolved    == [ip : Ip, port : 0..MaxPort, parts : {2, 4}]

(* A connection by itself.  What waits for a lookup has an address to look *)
(* up, and a port that pack('!H') took.                                    *)
Typed(c) ==
    /\ status[c] # "idle" => asked[c] \in Requests
    /\ status[c] \notin {"idle", "raised", "cut"} => given[c] \in Address /\ Fits(given[c])
    /\ raw_addr[c] \in Address \cup {<<>>}
    /\ status[c] = "resolving" => raw_addr[c] \in Address /\ raw_addr[c].port \in 0..MaxPort
    /\ status[c] \in WithAddress => resolved_addr[c] \in Resolved

Functions ==
    /\ status \in [Connections -> Status]
    /\ DOMAIN asked = Connections /\ DOMAIN given = Connections
    /\ DOMAIN raw_addr = Connections /\ DOMAIN resolved_addr = Connections

TypeInv ==
    /\ Functions
    /\ \A c \in Connections : Typed(c)
    /\ \A n \in DOMAIN dns_cache : dns_cache[n] \in Ip

(* A step of connection c leaves the others as they are.                   *)
OnlyOf(c) ==
    \A d \in Connections \ {c} :
        /\ status'[d] = status[d] /\ asked'[d] = asked[d] /\ given'[d] = given[d]
        /\ raw_addr'[d] = raw_addr[d] /\ resolved_addr'[d] = resolved_addr[d]

Asks(c) ==
    \E r \in Requests :
        AskRaises(c, r) \/ AskCut(c, r) \/ \E addr \in Parsed(r) : Ask(c, r, addr)

LEMMA StepsOfOne ==
    ASSUME Functions, NEW c \in Connections, Asks(c) \/ Server(c)
    PROVE  Functions' /\ OnlyOf(c)
<1>1. CASE Asks(c)
  BY <1>1 DEF Asks, AskRaises, AskCut, Ask, Functions, OnlyOf, Status, Pending
<1>2. CASE FirstMessage(c)
  BY <1>2 DEF FirstMessage, HandleDns, Functions, OnlyOf, Status, Pending
<1>3. CASE FirstMessageShort(c) \/ FirstMessageRefused(c) \/ ResolveDnsFails(c)
  BY <1>3 DEF FirstMessageShort, FirstMessageRefused, ResolveDnsFails, Functions, OnlyOf, Status, Pending
<1>4. ASSUME NEW ip \in Ip, ResolveDns(c, ip)
      PROVE  Functions' /\ OnlyOf(c)
  BY <1>4 DEF ResolveDns, Outcome, Functions, OnlyOf, Status, Pending
<1>5. CASE CreateSender(c) \/ SenderCreated(c)
  BY <1>5 DEF CreateSender, SenderCreated, Outcome, Functions, OnlyOf, Status, Pending
<1>6. QED
  BY <1>1, <1>2, <1>3, <1>4, <1>5 DEF Server, Lookup, Ip

LEMMA AsksTyped ==
    ASSUME TypeInv, NEW c \in Connections, Asks(c)
    PROVE  Typed(c)' /\ UNCHANGED <<raw_addr, resolved_addr, dns_cache>>
<1>1. Functions /\ Typed(c)
  BY DEF TypeInv
<1>2. ASSUME NEW r \in Requests, NEW addr \in Parsed(r), Ask(c, r, addr)
      PROVE  Typed(c)'
  <2>1. addr \in Address
    BY ParsedType
  <2>2. status'[c] = "sent" /\ asked'[c] = r /\ given'[c] = addr /\ Fits(addr)
    BY <1>1, <1>2 DEF Ask, Functions
  <2>3. raw_addr'[c] \in Address \cup {<<>>}
    BY <1>1, <1>2 DEF Ask, Typed
  <2>4. QED
    BY <2>1, <2>2, <2>3 DEF Typed, WithAddress
<1>3. ASSUME NEW r \in Requests, AskRaises(c, r) \/ AskCut(c, r)
      PROVE  Typed(c)'
  <2>1. status'[c] \in {"raised", "cut"} /\ asked'[c] = r
    BY <1>1, <1>3 DEF AskRaises, AskCut, Functions
  <2>2. raw_addr'[c] \in Address \cup {<<>>}
    BY <1>1, <1>3 DEF AskRaises, AskCut, Typed
  <2>3. QED
    BY <2>1, <2>2 DEF Typed, WithAddress
<1>4. QED
  BY <1>2, <1>3 DEF Asks, AskRaises, AskCut, Ask

LEMMA FirstMessageTyped ==
    ASSUME TypeInv, NEW c \in Connections, FirstMessage(c)
    PROVE  Typed(c)'
<1>1. Functions /\ Typed(c) /\ status[c] = "sent"
  BY DEF TypeInv, FirstMessage
<1>2. asked[c] \in Requests /\ given[c] \in Address /\ Fits(given[c])
  BY <1>1 DEF Typed
<1>3. PICK addr \in AddrFromFirstData(CreateFirstData(given[c])) :
         raw_addr' = [raw_addr EXCEPT ![c] = addr] /\ HandleDns(c, addr)
  BY DEF FirstMessage
<1>4. addr \in Address /\ addr.port \in 0..MaxPort
  BY <1>2, FirstMessageRead
<1>5. raw_addr'[c] = addr /\ asked' = asked /\ given' = given
  BY <1>1, <1>3 DEF FirstMessage, Functions
<1>6. CASE /\ addr.host \notin DOMAIN dns_cache
           /\ status' = [status EXCEPT ![c] = "resolving"]
  <2>1. status'[c] = "resolving"
    BY <1>1, <1>6 DEF Functions
  <2>2. QED
    BY <1>2, <1>4, <1>5, <2>1 DEF Typed, WithAddress
<1>7. CASE /\ addr.host \in DOMAIN dns_cache
           /\ status' = [status EXCEPT ![c] = "scheduled"]
           /\ resolved_addr' = [resolved_addr EXCEPT ![c] =
                  [ip |-> dns_cache[addr.host], port |-> addr.port, parts |-> 2]]
  <2>1. status'[c] = "scheduled"
    BY <1>1, <1>7 DEF Functions
  <2>2. resolved_addr'[c] = [ip |-> dns_cache[addr.host], port |-> addr.port, parts |-> 2]
    BY <1>1, <1>7 DEF Functions
  <2>3. dns_cache[addr.host] \in Ip
    BY <1>7 DEF TypeInv
  <2>4. resolved_addr'[c] \in Resolved
    BY <1>4, <2>2, <2>3 DEF Resolved
  <2>5. QED
    BY <1>2, <1>4, <1>5, <2>1, <2>4 DEF Typed, WithAddress
<1>8. QED
  BY <1>3, <1>6, <1>7 DEF HandleDns

LEMMA ResolveDnsTyped ==
    ASSUME TypeInv, NEW c \in Connections, NEW ip, ResolveDns(c, ip)
    PROVE  Typed(c)' /\ \A n \in DOMAIN dns_cache' : dns_cache'[n] \in Ip
<1> DEFINE addr     == raw_addr[c]
           resolved == [ip |-> ip, port |-> addr.port, parts |-> IF ip \in Ipv6 THEN 4 ELSE 2]
<1>1. Functions /\ Typed(c) /\ status[c] = "resolving"
  BY DEF TypeInv, ResolveDns
<1>2. addr \in Address /\ addr.port \in 0..MaxPort /\ asked[c] \in Requests
      /\ given[c] \in Address /\ Fits(given[c])
  BY <1>1 DEF Typed
<1>3. ip \in Ip
  BY DEF ResolveDns, Ip
<1>4. resolved \in Resolved
  BY <1>2, <1>3 DEF Resolved
<1>5. /\ resolved_addr' = [resolved_addr EXCEPT ![c] = resolved]
      /\ status' = [status EXCEPT ![c] = Outcome(resolved)]
      /\ dns_cache' = Store(addr.host, ip)
      /\ UNCHANGED <<asked, given, raw_addr>>
  BY DEF ResolveDns
<1> HIDE DEF resolved
<1>6. resolved_addr'[c] = resolved /\ status'[c] \in {"connecting", "unconnected"}
  BY <1>1, <1>5 DEF Functions, Outcome
<1>7. Typed(c)'
  BY <1>2, <1>4, <1>5, <1>6 DEF Typed, WithAddress
<1>8. \A n \in DOMAIN dns_cache' : dns_cache'[n] \in Ip
  BY <1>3, <1>5 DEF TypeInv, Store
<1>9. QED
  BY <1>7, <1>8

(* The steps that only move the status of a connection on.                 *)
Moves(c) ==
    \/ FirstMessageShort(c) \/ FirstMessageRefused(c) \/ ResolveDnsFails(c)
    \/ CreateSender(c) \/ SenderCreated(c)

LEMMA MovesKeep ==
    ASSUME TypeInv, NEW c \in Connections, Moves(c)
    PROVE  /\ UNCHANGED <<asked, given, raw_addr, resolved_addr, dns_cache>>
           /\ status[c] \notin {"idle", "raised", "cut"}
           /\ \/ status'[c] \in {"refused", "closed", "unconnected"}
              \/ status'[c] \in WithAddress /\ status[c] \in WithAddress
<1>1. Functions
  BY DEF TypeInv
<1>2. QED
  BY <1>1 DEF Moves, FirstMessageShort, FirstMessageRefused, ResolveDnsFails, CreateSender, SenderCreated,
              Outcome, Functions, WithAddress

LEMMA MovesTyped ==
    ASSUME TypeInv, NEW c \in Connections, Moves(c)
    PROVE  Typed(c)'
<1>1. Typed(c)
  BY DEF TypeInv
<1>2. QED
  BY <1>1, MovesKeep DEF Typed, WithAddress

LEMMA StepsTyped ==
    ASSUME TypeInv, NEW c \in Connections, Asks(c) \/ Server(c)
    PROVE  TypeInv'
<1>1. Functions' /\ OnlyOf(c)
  BY StepsOfOne DEF TypeInv
<1>2. Typed(c)' /\ \A n \in DOMAIN dns_cache' : dns_cache'[n] \in Ip
  <2>1. CASE Asks(c)
    BY <2>1, AsksTyped DEF TypeInv
  <2>2. CASE FirstMessage(c)
    BY <2>2, FirstMessageTyped DEF TypeInv, FirstMessage
  <2>3. ASSUME NEW ip \in Ip, ResolveDns(c, ip)
        PROVE  Typed(c)' /\ \A n \in DOMAIN dns_cache' : dns_cache'[n] \in Ip
    BY <2>3, ResolveDnsTyped
  <2>4. CASE Moves(c)
    BY <2>4, MovesTyped, MovesKeep DEF TypeInv
  <2>5. QED
    BY <2>1, <2>2, <2>3, <2>4 DEF Server, Lookup, Ip, Moves
<1>3. ASSUME NEW d \in Connections, d # c
      PROVE  Typed(d)'
  <2>1. Typed(d)
    BY DEF TypeInv
  <2>2. QED
    BY <1>1, <1>3, <2>1 DEF OnlyOf, Typed
<1>4. QED
  BY <1>1, <1>2, <1>3 DEF TypeInv

LEMMA InitTyped == Init => TypeInv
BY DEF Init, TypeInv, Functions, Typed, WithAddress, Status

LEMMA NextTyped ==
    ASSUME TypeInv, [Next]_vars
    PROVE  TypeInv'
<1>1. CASE UNCHANGED vars
  BY <1>1 DEF vars, TypeInv, Functions, Typed
<1>2. CASE Next
  BY <1>2, StepsTyped DEF Next, Asks
<1>3. QED
  BY <1>1, <1>2

(* What is known of each connection at each stage, and of the cache.       *)
THEOREM TypeInvariant == Spec => []TypeInv
<1>1. TypeInv /\ [Next]_vars => TypeInv'
  BY NextTyped
<1>2. QED
  BY <1>1, InitTyped, PTL DEF Spec

(* The state keeps its type: whatever the local programs ask for and       *)
(* wherever their requests are cut, the client packs a port that fits in   *)
(* two bytes, the server reads an address out of the message even where    *)
(* the length it goes by counts characters, and connects with an address   *)
(* and a port (client.py 71-73, server.py 59-78).                          *)
THEOREM TypeCorrect == Spec => []TypeOK
<1>1. TypeInv => TypeOK
  <2> SUFFICES ASSUME TypeInv PROVE TypeOK
    OBVIOUS
  <2>1. ASSUME NEW c \in Connections
        PROVE  /\ status[c] # "idle" => asked[c] \in Requests
               /\ status[c] \notin {"idle", "raised", "cut"} =>
                      given[c] \in Address /\ given[c].port <= MaxPort
               /\ raw_addr[c] \in Address \cup {<<>>}
               /\ status[c] \in {"scheduled", "connecting", "connected"} =>
                      resolved_addr[c] \in [ip : Ip, port : 0..MaxPort, parts : {2, 4}]
    BY DEF TypeInv, Typed, Fits, Resolved, WithAddress
  <2>2. /\ status \in [Connections -> Status]
        /\ \A n \in DOMAIN dns_cache : dns_cache[n] \in Ip
    BY DEF TypeInv, Functions
  <2>3. QED
    BY <2>1, <2>2 DEF TypeOK, Ip
<1>2. QED
  BY <1>1, TypeInvariant, PTL

-----------------------------------------------------------------------------
(* Connected to the host that was asked for.                               *)

(* The request came whole and its name takes a byte for each character.    *)
Plain(c) == Whole(c) /\ Len(Encode(asked[c].host)) = Len(asked[c].host)

Right(c) ==
    /\ status[c] \in WithAddress \cup {"resolving"} /\ Plain(c) => raw_addr[c] = given[c]
    /\ status[c] \in WithAddress /\ Plain(c) =>
           /\ resolved_addr[c].port = asked[c].port
           /\ resolved_addr[c].ip \in Answers[asked[c].host]

CacheRight == \A n \in DOMAIN dns_cache : n \in DOMAIN Answers /\ dns_cache[n] \in Answers[n]

(* From the message on the server holds the client's address; the cache,   *)
(* which every connection reads and writes, gives a name only answers of   *)
(* its own.                                                                *)
AskedInv == CacheRight /\ \A c \in Connections : Right(c)

LEMMA FirstMessageRight ==
    ASSUME TypeInv, AskedInv, NEW c \in Connections, FirstMessage(c)
    PROVE  Right(c)'
<1>1. Functions /\ Typed(c) /\ status[c] = "sent"
  BY DEF TypeInv, FirstMessage
<1>2. given[c] \in Address /\ Fits(given[c])
  BY <1>1 DEF Typed
<1>3. PICK addr \in AddrFromFirstData(CreateFirstData(given[c])) :
         raw_addr' = [raw_addr EXCEPT ![c] = addr] /\ HandleDns(c, addr)
  BY DEF FirstMessage
<1>4. raw_addr'[c] = addr /\ asked' = asked /\ given' = given
  BY <1>1, <1>3 DEF FirstMessage, Functions
<1>5. SUFFICES ASSUME Plain(c)
               PROVE  Right(c)'
  BY <1>4 DEF Right, Plain, Whole
<1>6. given[c] = [host |-> asked[c].host, port |-> asked[c].port]
  BY <1>5 DEF Plain, Whole
<1>7. addr = given[c]
  BY <1>2, <1>5, <1>6, FirstMessageRead DEF Plain
<1>8. CASE status' = [status EXCEPT ![c] = "resolving"]
  <2>1. status'[c] = "resolving"
    BY <1>1, <1>8 DEF Functions
  <2>2. QED
    BY <1>4, <1>7, <2>1 DEF Right, WithAddress
<1>9. CASE /\ addr.host \in DOMAIN dns_cache
           /\ resolved_addr' = [resolved_addr EXCEPT ![c] =
                  [ip |-> dns_cache[addr.host], port |-> addr.port, parts |-> 2]]
  <2>1. resolved_addr'[c] = [ip |-> dns_cache[addr.host], port |-> addr.port, parts |-> 2]
    BY <1>1, <1>9 DEF Functions
  <2>2. addr.host = asked[c].host /\ addr.port = asked[c].port
    BY <1>6, <1>7
  <2>3. dns_cache[addr.host] \in Answers[addr.host]
    BY <1>9 DEF AskedInv, CacheRight
  <2>4. QED
    BY <1>4, <1>7, <2>1, <2>2, <2>3 DEF Right
<1>10. QED
  BY <1>3, <1>8, <1>9 DEF HandleDns

LEMMA ResolveDnsRight ==
    ASSUME TypeInv, AskedInv, NEW c \in Connections, NEW ip, ResolveDns(c, ip)
    PROVE  Right(c)' /\ CacheRight'
<1> DEFINE addr     == raw_addr[c]
           resolved == [ip |-> ip, port |-> addr.port, parts |-> IF ip \in Ipv6 THEN 4 ELSE 2]
<1>1. Functions /\ Right(c) /\ status[c] = "resolving"
  BY DEF TypeInv, AskedInv, ResolveDns
<1>2. addr.host \in DOMAIN Answers /\ ip \in Answers[addr.host]
  BY DEF ResolveDns
<1>3. /\ resolved_addr' = [resolved_addr EXCEPT ![c] = resolved]
      /\ dns_cache' = Store(addr.host, ip)
      /\ UNCHANGED <<asked, given, raw_addr>>
  BY DEF ResolveDns
<1>4. resolved_addr'[c].ip = ip /\ resolved_addr'[c].port = addr.port
  BY <1>1, <1>3 DEF Functions
<1>5. ASSUME Plain(c)
      PROVE  addr = given[c] /\ addr.host = asked[c].host /\ addr.port = asked[c].port
  BY <1>1, <1>5 DEF Right, Plain, Whole
<1>6. Right(c)'
  BY <1>2, <1>3, <1>4, <1>5 DEF Right, Plain, Whole
<1>7. CacheRight'
  BY <1>2, <1>3 DEF AskedInv, CacheRight, Store
<1>8. QED
  BY <1>6, <1>7

LEMMA StepsRight ==
    ASSUME TypeInv, AskedInv,
           NEW c \in Connections, Asks(c) \/ Server(c)
    PROVE  AskedInv'
<1>1. OnlyOf(c) /\ Functions
  BY StepsOfOne DEF TypeInv
<1>2. Right(c)' /\ CacheRight'
  <2>1. CASE Asks(c)
    <3>1. status'[c] \in {"raised", "cut", "sent"}
      BY <1>1, <2>1 DEF Asks, AskRaises, AskCut, Ask, Functions
    <3>2. QED
      BY <2>1, <3>1, AsksTyped DEF AskedInv, CacheRight, Right, WithAddress
  <2>2. CASE FirstMessage(c)
    BY <2>2, FirstMessageRight DEF AskedInv, CacheRight, FirstMessage
  <2>3. ASSUME NEW ip \in Ip, ResolveDns(c, ip)
        PROVE  Right(c)' /\ CacheRight'
    BY <2>3, ResolveDnsRight
  <2>4. CASE Moves(c)
    BY <2>4, MovesKeep DEF AskedInv, CacheRight, Right, Plain, Whole, WithAddress
  <2>5. QED
    BY <2>1, <2>2, <2>3, <2>4 DEF Server, Lookup, Ip, Moves
<1>3. ASSUME NEW d \in Connections, d # c
      PROVE  Right(d)'
  BY <1>1, <1>3 DEF AskedInv, OnlyOf, Right, Plain, Whole
<1>4. QED
  BY <1>2, <1>3 DEF AskedInv

(* A request that reached the client in one segment, for a host whose      *)
(* characters take one byte each, leads to its own port and to an answer   *)
(* for its own name, whichever other connections filled the cache and when *)
(* (client.py 71-73, server.py 59-78, base.py 96-130).                     *)
THEOREM ConnectedToAskedHost == Spec => []ConnectedToAsked
<1>1. Init => AskedInv
  BY DEF Init, AskedInv, CacheRight, Right, WithAddress
<1>2. TypeInv /\ AskedInv /\ [Next]_vars => AskedInv'
  <2> SUFFICES ASSUME TypeInv, AskedInv, [Next]_vars PROVE AskedInv'
    OBVIOUS
  <2>1. CASE UNCHANGED vars
    BY <2>1 DEF vars, AskedInv, CacheRight, Right, Plain, Whole
  <2>2. CASE Next
    BY <2>2, StepsRight DEF Next, Asks
  <2>3. QED
    BY <2>1, <2>2
<1>3. AskedInv => ConnectedToAsked
  BY DEF AskedInv, Right, Plain, WithAddress, ConnectedToAsked
<1>4. QED
  BY <1>1, <1>2, <1>3, TypeInvariant, PTL DEF Spec

-----------------------------------------------------------------------------
(* The cache.                                                              *)

(* What one step can do to a name that is cached and not being looked up.  *)
Settles(n) ==
    /\ n \in DOMAIN dns_cache' /\ dns_cache'[n] = dns_cache[n]
    /\ Resolving(n)' = {}

(* A connection that does not come to look n up leaves n settled: the      *)
(* others stay where they are.                                             *)
LEMMA OthersSettle ==
    ASSUME TypeInv, NEW n, Resolving(n) = {}, NEW c \in Connections, OnlyOf(c),
           ~(status'[c] = "resolving" /\ raw_addr'[c].host = n)
    PROVE  Resolving(n)' = {}
<1>1. ASSUME NEW d \in Connections, d # c
      PROVE  ~(status'[d] = "resolving" /\ raw_addr'[d].host = n)
  BY <1>1 DEF OnlyOf, Resolving
<1>2. QED
  BY <1>1 DEF Resolving

LEMMA StepsSettle ==
    ASSUME TypeInv, NEW n \in DOMAIN dns_cache, Resolving(n) = {},
           NEW c \in Connections, Asks(c) \/ Server(c)
    PROVE  Settles(n)
<1>1. Functions /\ OnlyOf(c)
  BY StepsOfOne DEF TypeInv
<1>2. CASE Asks(c)
  <2>1. status'[c] \in {"raised", "cut", "sent"}
    BY <1>1, <1>2 DEF Asks, AskRaises, AskCut, Ask, Functions
  <2>2. dns_cache' = dns_cache
    BY <1>2, AsksTyped
  <2>3. QED
    BY <1>1, <2>1, <2>2, OthersSettle DEF Settles
<1>3. CASE FirstMessage(c)
  <2>1. PICK addr : raw_addr' = [raw_addr EXCEPT ![c] = addr] /\ HandleDns(c, addr)
    BY <1>3 DEF FirstMessage
  <2>2. raw_addr'[c] = addr /\ dns_cache' = dns_cache
    BY <1>1, <1>3, <2>1 DEF FirstMessage, Functions
  <2>3. ~(status'[c] = "resolving" /\ addr.host = n)
    BY <1>1, <2>1 DEF HandleDns, Functions
  <2>4. QED
    BY <1>1, <2>2, <2>3, OthersSettle DEF Settles
<1>4. ASSUME NEW ip \in Ip, ResolveDns(c, ip)
      PROVE  Settles(n)
  <2>1. raw_addr[c].host # n
    BY <1>4 DEF ResolveDns, Resolving
  <2>2. n \in DOMAIN dns_cache' /\ dns_cache'[n] = dns_cache[n]
    BY <1>4, <2>1 DEF ResolveDns, Store
  <2>3. raw_addr'[c].host # n
    BY <1>4, <2>1 DEF ResolveDns
  <2>4. QED
    BY <1>1, <2>2, <2>3, OthersSettle DEF Settles
<1>5. CASE Moves(c)
  <2>1. status'[c] # "resolving" /\ dns_cache' = dns_cache
    BY <1>5, MovesKeep DEF WithAddress
  <2>2. QED
    BY <1>1, <2>1, OthersSettle DEF Settles
<1>6. QED
  BY <1>2, <1>3, <1>4, <1>5 DEF Server, Lookup, Ip, Moves

(* Lookups of one name may overlap, and then the later answer replaces the *)
(* earlier one in the cache.  But once a name is cached and no lookup of it *)
(* is left over, its entry never changes again and nobody looks the name   *)
(* up any more, however many connections name it (base.py 96-113).         *)
THEOREM CacheSettled == Spec => CacheSettles
<1> DEFINE Quiet == \A n \in DOMAIN dns_cache : Resolving(n) = {} => Settles(n)
<1>1. TypeInv /\ [Next]_vars => [Quiet]_vars
  <2> SUFFICES ASSUME TypeInv, Next PROVE Quiet
    OBVIOUS
  <2>1. QED
    BY StepsSettle DEF Next, Asks
<1>2. [Quiet]_vars => [\A n \in DOMAIN dns_cache :
                         Resolving(n) = {} =>
                             /\ n \in DOMAIN dns_cache' /\ dns_cache'[n] = dns_cache[n]
                             /\ Resolving(n)' = {}]_vars
  BY DEF Settles
<1> HIDE DEF Quiet
<1>3. QED
  BY <1>1, <1>2, TypeInvariant, PTL DEF Spec, CacheSettles
=============================================================================
