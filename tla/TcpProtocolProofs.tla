------------------------- MODULE TcpProtocolProofs -------------------------
(***************************************************************************)
(* Facts about TcpProtocol that the proofs about the client's and the      *)
(* server's side share: units and sequences of them, and what the steps of *)
(* the base class keep.                                                    *)
(***************************************************************************)
EXTENDS TcpProtocol, SequenceTheorems, TLAPS

-----------------------------------------------------------------------------
(* Facts about units and sequences of them.                                *)

(* A unit of a known kind and number is an item.                           *)
LEMMA UnitType ==
    ASSUME NEW t \in Tags, NEW n \in Nat
    PROVE  Unit(t, n) \in Item /\ Unit(t, n).n = n /\ Unit(t, n).tag = t
BY DEF Unit, Item

(* Units makes a sequence of items with consecutive numbers.               *)
LEMMA UnitsType ==
    ASSUME NEW t \in Tags, NEW k \in Nat, NEW m \in Nat
    PROVE  /\ Units(t, k, m) \in Seq(Item)
           /\ Len(Units(t, k, m)) = m
           /\ \A i \in 1..m : Units(t, k, m)[i].n = k + i
<1>1. \A i \in 1..m : Unit(t, k + i) \in Item /\ Unit(t, k + i).n = k + i
  BY UnitType
<1>2. Units(t, k, m) = [i \in 1..m |-> Unit(t, k + i)]
  BY DEF Units
<1>3. Units(t, k, m) \in [1..m -> Item]
  BY <1>1, <1>2
<1>4. Units(t, k, m) \in Seq(Item)
  BY <1>3, SeqDef
<1>5. Len(Units(t, k, m)) = m
  BY <1>3, <1>4, LenProperties
<1>6. QED
  BY <1>1, <1>2, <1>4, <1>5

(* Decryption gives one item for each unit of the segment.                 *)
LEMMA PlainType ==
    ASSUME NEW us \in Seq(Item)
    PROVE  Plain(us) \in Seq(Item) /\ Len(Plain(us)) = Len(us)
<1>1. DOMAIN us = 1..Len(us) /\ Len(us) \in Nat
  OBVIOUS
<1>2. \A i \in 1..Len(us) :
         Unit(IF InSync(SubSeq(us, 1, i)) THEN "data" ELSE "garbage", us[i].n) \in Item
  <2>1. TAKE i \in 1..Len(us)
  <2>2. us[i] \in Item
    BY <1>1
  <2>3. us[i].n \in Nat
    BY <2>2 DEF Item
  <2> DEFINE kind == IF InSync(SubSeq(us, 1, i)) THEN "data" ELSE "garbage"
  <2>4. kind \in Tags
    BY DEF Tags
  <2> HIDE DEF kind
  <2>5. Unit(kind, us[i].n) \in Item
    BY <2>3, <2>4, UnitType
  <2>6. QED
    BY <2>5 DEF kind
<1>3. Plain(us) \in [1..Len(us) -> Item]
  BY <1>1, <1>2 DEF Plain
<1>4. Plain(us) \in Seq(Item)
  BY <1>1, <1>3, SeqDef
<1>5. QED
  BY <1>1, <1>3, <1>4, LenProperties

(* No units.                                                               *)
LEMMA UnitsNone ==
    ASSUME NEW t, NEW k \in Nat
    PROVE  Units(t, k, 0) = <<>>
BY DEF Units

(* One unit.                                                               *)
LEMMA UnitsOne ==
    ASSUME NEW t, NEW k \in Nat
    PROVE  Units(t, k, 1) = <<Unit(t, k + 1)>>
BY DEF Units

(* Units that go on counting make one run of units.                        *)
LEMMA UnitsConcat ==
    ASSUME NEW t \in Tags, NEW k \in Nat, NEW m \in Nat, NEW j \in Nat
    PROVE  Units(t, k, m) \o Units(t, k + m, j) = Units(t, k, m + j)
<1> DEFINE s == Units(t, k, m)
           r == Units(t, k + m, j)
           u == Units(t, k, m + j)
<1>1. /\ s \in Seq(Item) /\ Len(s) = m
      /\ r \in Seq(Item) /\ Len(r) = j
      /\ u \in Seq(Item) /\ Len(u) = m + j
  <2>1. k + m \in Nat /\ m + j \in Nat
    OBVIOUS
  <2>2. u \in Seq(Item) /\ Len(u) = m + j
    BY <2>1, UnitsType
  <2>3. r \in Seq(Item) /\ Len(r) = j
    BY <2>1, UnitsType
  <2>4. s \in Seq(Item) /\ Len(s) = m
    BY UnitsType
  <2>5. QED
    BY <2>2, <2>3, <2>4
<1>2. /\ s \o r \in Seq(Item) /\ Len(s \o r) = m + j
      /\ \A i \in 1..(m + j) : (s \o r)[i] = IF i <= m THEN s[i] ELSE r[i - m]
  BY <1>1, ConcatProperties
<1>3. \A i \in 1..m : s[i] = Unit(t, k + i)
  BY DEF Units
<1>4. \A i \in 1..j : r[i] = Unit(t, (k + m) + i)
  BY DEF Units
<1>5. \A i \in 1..(m + j) : u[i] = Unit(t, k + i)
  BY DEF Units
<1> HIDE DEF s, r, u
<1>6. ASSUME NEW i \in 1..(m + j)
      PROVE  (s \o r)[i] = u[i]
  <2>0. k \in Nat /\ m \in Nat /\ j \in Nat /\ i \in Nat /\ 1 <= i /\ i <= m + j
    OBVIOUS
  <2>1. CASE i <= m
    BY <1>2, <1>3, <1>5, <2>1
  <2>2. CASE i > m
    <3>1. i - m \in 1..j /\ (k + m) + (i - m) = k + i
      BY <2>0, <2>2
    <3>2. (s \o r)[i] = r[i - m]
      BY <1>2, <2>0, <2>2
    <3>3. r[i - m] = Unit(t, (k + m) + (i - m))
      BY <1>4, <3>1
    <3>4. u[i] = Unit(t, k + i)
      BY <1>5
    <3>5. QED
      BY <3>1, <3>2, <3>3, <3>4
  <2>3. i <= m \/ i > m
    BY <2>0
  <2>4. QED
    BY <2>1, <2>2, <2>3
<1>7. s \o r = u
  BY <1>1, <1>2, <1>6, SeqEqual
<1>8. QED
  BY <1>7 DEF s, r, u

(* Concatenation of units is associative.                                  *)
LEMMA UnitsAssociative ==
    \A s, t, u \in Seq(Item) : (s \o t) \o u = s \o (t \o u)
BY ConcatAssociative

(* A unit more at the front.                                               *)
LEMMA UnitsTail ==
    ASSUME NEW t \in Tags, NEW k \in Nat, NEW m \in Nat
    PROVE  Tail(Units(t, k, m + 1)) = Units(t, k + 1, m)
<1> DEFINE u == Units(t, k, m + 1)
           r == Units(t, k + 1, m)
<1>1. u \in Seq(Item) /\ Len(u) = m + 1 /\ \A i \in 1..(m + 1) : u[i] = Unit(t, k + i)
  <2>1. m + 1 \in Nat
    OBVIOUS
  <2>2. u \in Seq(Item) /\ Len(u) = m + 1
    BY <2>1, UnitsType
  <2>3. \A i \in 1..(m + 1) : u[i] = Unit(t, k + i)
    BY DEF Units
  <2>4. QED
    BY <2>2, <2>3
<1>2. r \in Seq(Item) /\ Len(r) = m /\ \A i \in 1..m : r[i] = Unit(t, (k + 1) + i)
  <2>1. k + 1 \in Nat
    OBVIOUS
  <2>2. r \in Seq(Item) /\ Len(r) = m
    BY <2>1, UnitsType
  <2>3. \A i \in 1..m : r[i] = Unit(t, (k + 1) + i)
    BY DEF Units
  <2>4. QED
    BY <2>2, <2>3
<1> HIDE DEF u, r
<1>3. u # <<>>
  BY <1>1, EmptySeq
<1>4. /\ Tail(u) \in Seq(Item) /\ Len(Tail(u)) = m
      /\ \A i \in 1..m : Tail(u)[i] = u[i + 1]
  BY <1>1, <1>3, HeadTailProperties
<1>5. ASSUME NEW i \in 1..m
      PROVE  Tail(u)[i] = r[i]
  <2>1. i + 1 \in 1..(m + 1) /\ k + (i + 1) = (k + 1) + i
    OBVIOUS
  <2>2. u[i + 1] = Unit(t, k + (i + 1))
    BY <1>1, <2>1
  <2>3. QED
    BY <1>2, <1>4, <2>1, <2>2
<1>6. Tail(u) = r
  BY <1>2, <1>4, <1>5, SeqEqual
<1>7. QED
  BY <1>6 DEF u, r

(* Decryption of the next units of a stream that missed none gives as many *)
(* units of payload.                                                       *)
LEMMA PlainInSync ==
    ASSUME deciphered \in Nat, ~garbled, NEW m \in Nat
    PROVE  LET us == Units("cipher", deciphered, m)
           IN  InSync(us) /\ Plain(us) = Units("data", deciphered, m)
<1> DEFINE us == Units("cipher", deciphered, m)
<1>1. /\ us \in Seq(Item) /\ Len(us) = m /\ DOMAIN us = 1..m
      /\ \A i \in 1..m : us[i].n = deciphered + i
      /\ \A i \in 1..m : us[i] = Unit("cipher", deciphered + i)
  <2>0. "cipher" \in Tags
    BY DEF Tags
  <2>1. us \in Seq(Item) /\ Len(us) = m /\ \A i \in 1..m : us[i].n = deciphered + i
    BY <2>0, UnitsType
  <2>2. DOMAIN us = 1..m /\ \A i \in 1..m : us[i] = Unit("cipher", deciphered + i)
    BY DEF Units
  <2>3. QED
    BY <2>1, <2>2
<1> HIDE DEF us
<1>2. InSync(us)
  BY <1>1 DEF InSync
<1>3. ASSUME NEW i \in 1..m
      PROVE  InSync(SubSeq(us, 1, i))
  <2> DEFINE part == SubSeq(us, 1, i)
  <2>1. part \in Seq(Item) /\ Len(part) = i /\ \A j \in 1..i : part[j] = us[j]
    <3>1. \A j \in 1..i : us[j] \in Item
      BY <1>1, ElementOfSeq
    <3>2. QED
      BY <3>1, SubSeqProperties
  <2>2. DOMAIN part = 1..i
    BY <2>1, LenProperties
  <2> HIDE DEF part
  <2>3. InSync(part)
    BY <1>1, <2>1, <2>2 DEF InSync
  <2>4. QED
    BY <2>3 DEF part
<1>4. Plain(us) = [i \in 1..m |-> Unit("data", deciphered + i)]
  BY <1>1, <1>3 DEF Plain
<1>5. QED
  BY <1>2, <1>4 DEF us, Units

(* An item of two sequences joined is one of either.                       *)
LEMMA ConcatItems ==
    ASSUME NEW s \in Seq(Item), NEW t \in Seq(Item), NEW i \in DOMAIN (s \o t)
    PROVE  \/ \E j \in DOMAIN s : (s \o t)[i] = s[j]
           \/ \E j \in DOMAIN t : (s \o t)[i] = t[j]
<1>1. /\ DOMAIN s = 1..Len(s) /\ Len(s) \in Nat
      /\ DOMAIN t = 1..Len(t) /\ Len(t) \in Nat
  BY LenProperties
<1>2. /\ s \o t \in Seq(Item) /\ Len(s \o t) = Len(s) + Len(t)
      /\ \A k \in 1..(Len(s) + Len(t)) :
            (s \o t)[k] = IF k <= Len(s) THEN s[k] ELSE t[k - Len(s)]
  BY ConcatProperties
<1>3. i \in 1..(Len(s) + Len(t))
  BY <1>2, LenProperties
<1>4. CASE i <= Len(s)
  BY <1>1, <1>2, <1>3, <1>4
<1>5. CASE i > Len(s)
  <2>1. i - Len(s) \in 1..Len(t)
    BY <1>1, <1>3, <1>5
  <2>2. (s \o t)[i] = t[i - Len(s)]
    BY <1>1, <1>2, <1>3, <1>5
  <2>3. QED
    BY <1>1, <2>1, <2>2
<1>6. QED
  BY <1>1, <1>3, <1>4, <1>5

(* A bound on the numbers of two sequences bounds those of the two joined. *)
LEMMA BoundedConcat ==
    ASSUME NEW s \in Seq(Item), NEW t \in Seq(Item), NEW b \in Nat,
           \A i \in DOMAIN s : s[i].n <= b,
           \A i \in DOMAIN t : t[i].n <= b
    PROVE  \A i \in DOMAIN (s \o t) : (s \o t)[i].n <= b
<1>1. TAKE i \in DOMAIN (s \o t)
<1>2. \/ \E j \in DOMAIN s : (s \o t)[i] = s[j]
      \/ \E j \in DOMAIN t : (s \o t)[i] = t[j]
  BY ConcatItems
<1>3. QED
  BY <1>2

-----------------------------------------------------------------------------
(* Types.                                                                  *)

(* A new connection.                                                       *)
LEMMA TcpInitType ==
    ASSUME TcpInit, dns \in {"idle", "resolving", "connecting"}
    PROVE  TcpTypeOK
<1>1. <<>> \in Seq(Item)
  OBVIOUS
<1>2. QED
  BY <1>1 DEF TcpInit, TcpTypeOK

(* The steps of the base class keep the types.                             *)
LEMMA TcpNextTcpType ==
    ASSUME TcpTypeOK, TcpNext
    PROVE  TcpTypeOK'
<1> USE DEF TcpTypeOK, localVars, cryptVars, senderVars, Close
<1>1. CASE ResolveDns
  BY <1>1 DEF ResolveDns
<1>2. CASE ResolveDnsFails
  BY <1>2 DEF ResolveDnsFails
<1>3. CASE CreateSender
  BY <1>3 DEF CreateSender
<1>4. CASE CreateSenderFails
  BY <1>4 DEF CreateSenderFails
<1>5. CASE SendToSender
  BY <1>5 DEF SendToSender
<1>6. CASE SendToLocal
  BY <1>6 DEF SendToLocal
<1>7. CASE LocalEof \/ LocalError \/ LocalLost
  BY <1>7 DEF LocalEof, LocalError, LocalLost
<1>8. CASE SenderEof \/ SenderError \/ SenderLost
  BY <1>8 DEF SenderEof, SenderError, SenderLost
<1>9. QED
  BY <1>1, <1>2, <1>3, <1>4, <1>5, <1>6, <1>7, <1>8 DEF TcpNext, Tasks, Callbacks

-----------------------------------------------------------------------------
(* The flows towards the two sockets.                                      *)

(* A step of the base class takes nothing from the flow towards an open    *)
(* accepted transport and adds nothing: what leaves the queue is written.  *)
LEMMA LocalFlow ==
    ASSUME TcpTypeOK, TcpNext, transport' = "open"
    PROVE  /\ transport = "open"
           /\ at_local' \o to_local_queue' = at_local \o to_local_queue
<1> USE DEF localVars, cryptVars, senderVars, Close
<1>1. CASE SendToLocal
  <2>1. at_local \o to_local_queue \in Seq(Item)
    BY ConcatProperties DEF TcpTypeOK
  <2>2. /\ transport = "open" /\ to_local_queue' = <<>>
        /\ at_local' = at_local \o to_local_queue
    BY <1>1 DEF SendToLocal
  <2>3. QED
    BY <2>1, <2>2, ConcatEmptySeq
<1>2. CASE ResolveDns \/ ResolveDnsFails \/ CreateSender \/ CreateSenderFails \/ SendToSender
  BY <1>2 DEF ResolveDns, ResolveDnsFails, CreateSender, CreateSenderFails, SendToSender
<1>3. CASE Callbacks
  BY <1>3 DEF Callbacks, LocalEof, LocalError, LocalLost, SenderEof, SenderError, SenderLost
<1>4. QED
  BY <1>1, <1>2, <1>3 DEF TcpNext, Tasks

(* The same for the flow towards the sender while it has not ended, given  *)
(* that a connection is made once and the task does not run before it.     *)
LEMMA SenderFlow ==
    ASSUME TcpTypeOK, TcpNext, sender' \in {"none", "open"},
           sender = "none" => ~sender_task,
           dns = "connecting" => sender = "none"
    PROVE  /\ sender \in {"none", "open"}
           /\ at_sender' \o to_sender_queue' = at_sender \o to_sender_queue
<1> USE DEF localVars, cryptVars, senderVars
<1>1. CASE SendToSender
  <2>1. at_sender \o to_sender_queue \in Seq(Item)
    BY ConcatProperties DEF TcpTypeOK
  <2>2. /\ sender = "open" /\ to_sender_queue' = <<>>
        /\ at_sender' = at_sender \o to_sender_queue
    BY <1>1 DEF SendToSender
  <2>3. QED
    BY <2>1, <2>2, ConcatEmptySeq
<1>2. CASE ResolveDns \/ ResolveDnsFails \/ CreateSender \/ CreateSenderFails \/ SendToLocal
  BY <1>2 DEF ResolveDns, ResolveDnsFails, CreateSender, CreateSenderFails, SendToLocal
<1>3. CASE Callbacks
  BY <1>3 DEF Callbacks, LocalEof, LocalError, LocalLost, SenderEof, SenderError, SenderLost
<1>4. QED
  BY <1>1, <1>2, <1>3 DEF TcpNext, Tasks

(* What the base class never touches, and that a closed transport stays    *)
(* closed.                                                                 *)
LEMMA TcpNextFrame ==
    ASSUME TcpNext
    PROVE  /\ UNCHANGED cryptVars
           /\ transport # "open" => transport' # "open"
           /\ dns = "idle" <=> dns' = "idle"
           /\ \/ at_sender' = at_sender
              \/ sender = "open" /\ sender_task /\ at_sender' = at_sender \o to_sender_queue
           /\ to_sender_queue' \in {to_sender_queue, <<>>}
           /\ to_local_queue' \in {to_local_queue, <<>>}
           /\ \/ at_local' = at_local
              \/ transport = "open" /\ at_local' = at_local \o to_local_queue
<1> USE DEF localVars, cryptVars, senderVars, Close
<1>1. CASE Tasks
  BY <1>1 DEF Tasks, ResolveDns, ResolveDnsFails, CreateSender, CreateSenderFails,
              SendToSender, SendToLocal
<1>2. CASE Callbacks
  BY <1>2 DEF Callbacks, LocalEof, LocalError, LocalLost, SenderEof, SenderError, SenderLost
<1>3. QED
  BY <1>1, <1>2 DEF TcpNext

(* The sender comes into being once, after the lookup, and its task with it. *)
SenderOnce ==
    /\ dns # "created" => sender = "none"
    /\ sender = "none" => ~sender_task /\ at_sender = <<>>

LEMMA TcpNextSender ==
    ASSUME TcpTypeOK, SenderOnce, TcpNext
    PROVE  SenderOnce'
<1> USE DEF localVars, cryptVars, senderVars, SenderOnce
<1>1. CASE Tasks
  BY <1>1 DEF Tasks, ResolveDns, ResolveDnsFails, CreateSender, CreateSenderFails,
              SendToSender, SendToLocal
<1>2. CASE Callbacks
  BY <1>2 DEF Callbacks, LocalEof, LocalError, LocalLost, SenderEof, SenderError, SenderLost
<1>3. QED
  BY <1>1, <1>2 DEF TcpNext
=============================================================================
