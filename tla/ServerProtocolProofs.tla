------------------------ MODULE ServerProtocolProofs ------------------------
(***************************************************************************)
(* Theorems about ServerProtocol, for every value of its constants.        *)
(***************************************************************************)
EXTENDS ServerProtocol, TcpProtocolProofs

-----------------------------------------------------------------------------
(* The segments a request comes in.                                        *)
Requests == {<<Unit("head", 1)>>, <<Unit("head", 1), Unit("cipher", 2)>>}

(* Nothing has passed the decryptor before the request, and it stays in    *)
(* step once an address came out.                                          *)
DecryptorInStep ==
    /\ stage = 4 => deciphered = 0 /\ to_sender_queue = <<>>
    /\ stage = 4 \/ dns # "idle" => ~garbled

(* Neither side is ahead of the stream it gets.                            *)
NoneAhead ==
    /\ at_sender # <<>> => Len(at_sender) < deciphered
    /\ \A i \in DOMAIN at_local : at_local[i].n <= Len(encrypted)
    /\ \A i \in DOMAIN to_local_queue : to_local_queue[i].n <= Len(encrypted)

(* The invariant behind the server's properties; each conjunct needs some  *)
(* of the others.                                                          *)
ServerInv ==
    /\ SenderOnce
    /\ DecryptorInStep
    /\ stage # 0 => encrypted = <<>>
    /\ TargetNeedsAddress
    /\ KeptUntilAddress
    /\ RespondedFirst
    /\ TargetStream
    /\ NoneAhead

-----------------------------------------------------------------------------
(* Types.                                                                  *)

(* What a request carries is one or two cipher units, the decryptor's next. *)
LEMMA RequestCarries ==
    ASSUME NEW us \in Requests
    PROVE  \E m \in {1, 2} : Carried(us) = Units("cipher", 0, m)
<1> DEFINE one == <<Unit("head", 1)>>
           two == <<Unit("head", 1), Unit("cipher", 2)>>
<1>1. CASE us = one
  <2>1. Carried(us) = [i \in 1..1 |-> Unit("cipher", i)]
    BY <1>1 DEF Carried, Unit
  <2>2. Units("cipher", 0, 1) = [i \in 1..1 |-> Unit("cipher", 0 + i)]
    BY DEF Units
  <2>3. QED
    BY <2>1, <2>2
<1>2. CASE us = two
  <2>1. Carried(us) = [i \in 1..2 |-> Unit("cipher", i)]
    BY <1>2 DEF Carried, Unit
  <2>2. Units("cipher", 0, 2) = [i \in 1..2 |-> Unit("cipher", 0 + i)]
    BY DEF Units
  <2>3. QED
    BY <2>1, <2>2
<1>3. QED
  BY <1>1, <1>2 DEF Requests

LEMMA RespondType ==
    ASSUME TypeOK, Respond
    PROVE  /\ to_local_queue' \in Seq(Item)
           /\ UNCHANGED <<task, at_local>>
           /\ stage' = 0
<1>1. Unit("response", 0) \in Item
  BY UnitType DEF Tags
<1>2. QED
  BY <1>1, AppendProperties DEF Respond, TypeOK, TcpTypeOK

(* A segment brings as many units to the decryptor as it holds.            *)
LEMMA CarriedType ==
    ASSUME NEW us \in Seq(Item)
    PROVE  Carried(us) \in Seq(Item) /\ Len(Carried(us)) = Len(us)
<1>1. DOMAIN us = 1..Len(us) /\ Len(us) \in Nat
  OBVIOUS
<1>2. \A i \in 1..Len(us) :
         (IF us[i].tag = "head" THEN Unit("cipher", us[i].n) ELSE us[i]) \in Item
  <2>1. TAKE i \in 1..Len(us)
  <2>2. us[i] \in Item
    BY <1>1
  <2>3. us[i].n \in Nat
    BY <2>2 DEF Item
  <2>4. Unit("cipher", us[i].n) \in Item
    BY <2>3, UnitType DEF Tags
  <2>5. QED
    BY <2>2, <2>4
<1>3. Carried(us) \in [1..Len(us) -> Item]
  BY <1>1, <1>2 DEF Carried
<1>4. Carried(us) \in Seq(Item)
  BY <1>1, <1>3, SeqDef
<1>5. QED
  BY <1>1, <1>3, <1>4, LenProperties

(* A segment from the client, whatever it holds.                           *)
LEMMA SegmentType ==
    ASSUME TypeOK, NEW us \in Seq(Item), us # <<>>,
           \/ RequestAccepted(us) \/ RequestBadAddress(us)
           \/ RelayToSender(us) \/ DecryptFails(us)
    PROVE  TypeOK'
<1> USE DEF TypeOK, TcpTypeOK
<1>1. CASE RequestAccepted(us) \/ RequestBadAddress(us)
  <2>1. Carried(us) \in Seq(Item) /\ Len(Carried(us)) = Len(us) /\ Len(us) \in Nat
        /\ Len(us) # 0
    BY CarriedType
  <2>2. deciphered' \in Nat /\ garbled' \in BOOLEAN
    <3>1. Decrypt(Carried(us))
      BY <1>1 DEF RequestAccepted, RequestBadAddress
    <3>2. QED
      BY <2>1, <3>1 DEF Decrypt
  <2>3. /\ Plain(Carried(us)) \in Seq(Item)
        /\ Plain(Carried(us)) # <<>>
    BY <2>1, PlainType
  <2>4. Tail(Plain(Carried(us))) \in Seq(Item)
    BY <2>3
  <2>5. to_sender_queue' \in Seq(Item)
    <3>1. to_sender_queue' \in {to_sender_queue, to_sender_queue \o Tail(Plain(Carried(us)))}
      BY <1>1 DEF RequestAccepted, RequestBadAddress, Forward, senderVars
    <3>2. to_sender_queue \in Seq(Item)
      BY DEF TypeOK, TcpTypeOK
    <3>3. \A s, t \in Seq(Item) : s \o t \in Seq(Item)
      BY ONLY ConcatProperties
    <3>4. QED
      BY ONLY <2>4, <3>1, <3>2, <3>3
  <2>6. /\ to_local_queue' \in Seq(Item)
        /\ UNCHANGED <<task, at_local>>
        /\ stage' = 0
    BY <1>1, RespondType DEF RequestAccepted, RequestBadAddress
  <2>7. QED
    BY <1>1, <2>2, <2>5, <2>6
    DEF RequestAccepted, RequestBadAddress, HandleDns, Close, senderVars
<1>2. CASE RelayToSender(us)
  <2>1. Plain(us) \in Seq(Item)
    BY PlainType
  <2>2. deciphered' \in Nat /\ garbled' \in BOOLEAN
    BY <1>2 DEF RelayToSender, Decrypt
  <2>3. to_sender_queue' \in Seq(Item)
    BY <1>2, <2>1, ConcatProperties DEF RelayToSender, Forward
  <2>4. QED
    BY <1>2, <2>2, <2>3 DEF RelayToSender, NoReply
<1>3. CASE DecryptFails(us)
  BY <1>3 DEF DecryptFails, Raise, NoReply, senderVars
<1>4. QED
  BY <1>1, <1>2, <1>3

LEMMA UnaddressedType ==
    ASSUME TypeOK, RequestEmpty \/ RequestUndecipherable
    PROVE  TypeOK'
<1>1. to_local_queue' \in Seq(Item) /\ UNCHANGED <<task, at_local>> /\ stage' = 0
  BY RespondType DEF RequestEmpty, RequestUndecipherable
<1>2. QED
  BY <1>1 DEF RequestEmpty, RequestUndecipherable, Raise, senderVars, cryptVars,
              TypeOK, TcpTypeOK

LEMMA RefusedType ==
    ASSUME TypeOK, RequestRefused \/ RequestFails
    PROVE  TypeOK'
BY DEF RequestRefused, RequestFails, Raise, NoReply, senderVars, cryptVars, TypeOK, TcpTypeOK

LEMMA DataFromLocalType ==
    ASSUME TypeOK, DataFromLocal
    PROVE  TypeOK'
<1>1. \A us \in Requests : us \in Seq(Item) /\ us # <<>>
  <2>1. Unit("head", 1) \in Item /\ Unit("cipher", 2) \in Item
    BY UnitType DEF Tags
  <2>2. /\ <<Unit("head", 1)>> \in Seq(Item)
        /\ <<Unit("head", 1), Unit("cipher", 2)>> \in Seq(Item)
    BY <2>1
  <2>3. <<Unit("head", 1)>> # <<>> /\ <<Unit("head", 1), Unit("cipher", 2)>> # <<>>
    OBVIOUS
  <2>4. QED
    BY <2>2, <2>3, Zenon DEF Requests
<1>2. \A n \in Nat : <<Unit("cipher", n)>> \in Seq(Item) /\ <<Unit("cipher", n)>> # <<>>
  <2>1. \A n \in Nat : Unit("cipher", n) \in Item
    BY UnitType DEF Tags
  <2>2. QED
    BY <2>1
<1>3. deciphered + 1 \in Nat /\ deciphered + 2 \in Nat
  BY DEF TypeOK, TcpTypeOK
<1>4. QED
  BY <1>1, <1>2, <1>3, SegmentType, UnaddressedType, RefusedType DEF DataFromLocal, Requests

(* A segment from the target, whatever it holds.                           *)
LEMMA RelayToLocalType ==
    ASSUME TypeOK, NEW us \in Seq(Item), RelayToLocal(us)
    PROVE  TypeOK'
<1> DEFINE sent == Units("cipher", Len(encrypted), Len(us))
<1>1. Len(encrypted) \in Nat /\ Len(us) \in Nat
  BY DEF TypeOK, TcpTypeOK
<1>2. sent \in Seq(Item)
  BY <1>1, UnitsType DEF Tags
<1> HIDE DEF sent
<1>3. encrypted \o us \in Seq(Item) /\ to_local_queue \o sent \in Seq(Item)
  BY <1>2, ConcatProperties DEF TypeOK, TcpTypeOK
<1>4. /\ encrypted' = encrypted \o us
      /\ to_local_queue' = to_local_queue \o sent
      /\ UNCHANGED <<senderVars, transport, task, at_local, deciphered, garbled, stage>>
  BY DEF RelayToLocal, sent
<1>5. QED
  BY <1>3, <1>4 DEF TypeOK, TcpTypeOK, senderVars

LEMMA DataFromSenderType ==
    ASSUME TypeOK, DataFromSender
    PROVE  TypeOK'
<1>1. <<Unit("data", 0)>> \in Seq(Item)
  BY UnitType DEF Tags
<1>2. QED
  BY <1>1, RelayToLocalType DEF DataFromSender

(* Every variable of the server keeps to its domain, whatever the bounds   *)
(* and the event loop's treatment of exceptions.                           *)
THEOREM TypeCorrect == Spec => []TypeOK
<1>1. Init => TypeOK
  BY TcpInitType DEF Init, TypeOK
<1>2. TypeOK /\ [Next]_vars => TypeOK'
  <2> SUFFICES ASSUME TypeOK, [Next]_vars
               PROVE  TypeOK'
    OBVIOUS
  <2>1. CASE DataFromLocal
    BY <2>1, DataFromLocalType
  <2>2. CASE DataFromSender
    BY <2>2, DataFromSenderType
  <2>3. CASE TcpNext /\ UNCHANGED stage
    BY <2>3, TcpNextTcpType DEF TypeOK
  <2>4. CASE UNCHANGED vars
    BY <2>4 DEF vars, tcpVars, TypeOK, TcpTypeOK
  <2>5. QED
    BY <2>1, <2>2, <2>3, <2>4 DEF Next
<1>3. QED
  BY <1>1, <1>2, PTL DEF Spec
-----------------------------------------------------------------------------
(* The safety properties.                                                  *)

LEMMA InitInv == Init => ServerInv
<1> SUFFICES ASSUME Init PROVE ServerInv
  OBVIOUS
<1>1. /\ dns = "idle" /\ stage = 4 /\ sender = "none" /\ ~sender_task /\ ~garbled
      /\ at_sender = <<>> /\ to_sender_queue = <<>> /\ at_local = <<>>
      /\ to_local_queue = <<>> /\ encrypted = <<>> /\ deciphered = 0
  BY DEF Init, TcpInit
<1>2. <<>> \o <<>> = <<>>
  OBVIOUS
<1>3. SenderOnce /\ DecryptorInStep
  BY <1>1 DEF SenderOnce, DecryptorInStep
<1>4. TargetNeedsAddress /\ KeptUntilAddress /\ RespondedFirst
  BY <1>1, <1>2 DEF TargetNeedsAddress, KeptUntilAddress, RespondedFirst
<1>5. TargetStream
  BY <1>1 DEF TargetStream
<1>6. NoneAhead
  BY <1>1 DEF NoneAhead
<1>7. QED
  BY <1>1, <1>3, <1>4, <1>5, <1>6 DEF ServerInv

(* The answer to a request is the first thing the client is sent.          *)
LEMMA RespondInv ==
    ASSUME TypeOK, ServerInv, stage = 4, transport = "open", Respond,
           UNCHANGED <<at_sender, encrypted>>
    PROVE  RespondedFirst' /\ NoneAhead'
<1> DEFINE answer == <<Unit("response", 0)>>
<1>1. at_sender = <<>> /\ encrypted = <<>> /\ at_local \o to_local_queue = <<>>
  BY DEF ServerInv, SenderOnce, TargetNeedsAddress, RespondedFirst
<1>2. answer \in Seq(Item) /\ Len(answer) = 1 /\ answer[1].n = 0
  BY UnitType DEF Tags
<1>3. at_local = <<>> /\ to_local_queue = <<>>
  BY <1>1, ConcatEqualIffEmpty DEF TypeOK, TcpTypeOK
<1>4. at_local' = <<>> /\ to_local_queue' = answer /\ stage' = 0
  BY <1>3 DEF Respond
<1>5. Len(encrypted') = 0 /\ at_sender' = <<>>
  BY <1>1
<1>6. Units("cipher", 0, 0) = <<>>
  BY UnitsNone
<1> HIDE DEF answer
<1>7. at_local' \o to_local_queue' = answer /\ answer \o Units("cipher", 0, 0) = answer
  BY <1>2, <1>4, <1>6, ConcatEmptySeq
<1>8. RespondedFirst'
  BY <1>4, <1>5, <1>7 DEF RespondedFirst, answer
<1>9. \A i \in DOMAIN answer : answer[i].n <= 0
  BY <1>2
<1>10. QED
  BY <1>4, <1>5, <1>8, <1>9 DEF NoneAhead

(* A request that yields a unit: the stream to the target begins with what *)
(* followed the address, the stream to the client with the response.       *)
LEMMA RequestInv ==
    ASSUME TypeOK, ServerInv, NEW us, NEW m \in Nat \ {0},
           Carried(us) = Units("cipher", 0, m),
           RequestAccepted(us) \/ RequestBadAddress(us)
    PROVE  ServerInv' /\ deciphered' = m
<1>1. /\ transport = "open" /\ stage = 4 /\ dns = "idle" /\ sender = "none"
      /\ ~sender_task /\ ~garbled /\ deciphered = 0 /\ encrypted = <<>>
      /\ at_sender = <<>> /\ to_sender_queue = <<>>
      /\ at_local \o to_local_queue = <<>>
  BY DEF RequestAccepted, RequestBadAddress, ServerInv, SenderOnce, DecryptorInStep,
         TargetNeedsAddress, RespondedFirst
<1>2. Carried(us) = Units("cipher", 0, m) /\ m \in Nat
  OBVIOUS
<1>3. /\ deciphered' = m /\ garbled' = FALSE
      /\ Plain(Carried(us)) = Units("data", 0, m)
  <2>1. /\ InSync(Carried(us)) /\ Plain(Carried(us)) = Units("data", 0, m)
        /\ m \in Nat
    BY <1>1, <1>2, PlainInSync
  <2>2. "cipher" \in Tags
    BY DEF Tags
  <2>3. Len(Carried(us)) = m
    BY <1>2, <2>1, <2>2, UnitsType
  <2>4. Decrypt(Carried(us))
    BY DEF RequestAccepted, RequestBadAddress
  <2>5. deciphered' = m
    BY <1>1, <2>1, <2>3, <2>4 DEF Decrypt
  <2>6. garbled' = FALSE
    BY <2>1, <2>4 DEF Decrypt
  <2>7. QED
    BY <2>1, <2>5, <2>6
<1>4. /\ UNCHANGED <<sender, sender_task, at_sender, encrypted>>
      /\ stage' = 0
      /\ \/ dns' # "idle" /\ dns' # "created" /\ Forward(Tail(Plain(Carried(us))))
         \/ dns' = "idle" /\ transport' = "closing" /\ UNCHANGED to_sender_queue
  BY <1>1 DEF RequestAccepted, RequestBadAddress, Respond, HandleDns, Close, senderVars
<1>5. SenderOnce' /\ DecryptorInStep' /\ TargetNeedsAddress' /\ KeptUntilAddress'
  BY <1>1, <1>3, <1>4
  DEF SenderOnce, DecryptorInStep, TargetNeedsAddress, KeptUntilAddress
<1>6. RespondedFirst' /\ NoneAhead'
  BY <1>1, <1>4, RespondInv DEF RequestAccepted, RequestBadAddress
<1>7. TargetStream'
  <2>1. \A i \in DOMAIN at_sender' : at_sender'[i] = Unit("data", i + 1)
    BY <1>1, <1>4
  <2>2. ASSUME dns' # "idle"
        PROVE  at_sender' \o to_sender_queue' = Units("data", 1, m - 1)
    <3>0. "data" \in Tags /\ m - 1 \in Nat /\ (m - 1) + 1 = m /\ 0 + 1 = 1
      BY DEF Tags
    <3>1. Tail(Units("data", 0, m)) = Units("data", 1, m - 1)
      BY <3>0, UnitsTail
    <3>2. to_sender_queue' = <<>> \o Units("data", 1, m - 1)
      BY <1>1, <1>3, <1>4, <2>2, <3>1 DEF Forward
    <3>3. Units("data", 1, m - 1) \in Seq(Item)
      BY <3>0, UnitsType
    <3>4. QED
      BY <1>1, <1>4, <3>2, <3>3, ConcatEmptySeq
  <2>3. QED
    BY <1>3, <2>1, <2>2 DEF TargetStream
<1>8. QED
  BY <1>3, <1>4, <1>5, <1>6, <1>7 DEF ServerInv

(* A request that is answered although no address came out of it: nothing  *)
(* was decrypted and nothing goes to a target.                             *)
LEMMA UnaddressedInv ==
    ASSUME TypeOK, ServerInv, RequestEmpty \/ RequestUndecipherable
    PROVE  ServerInv'
<1>1. /\ stage = 4 /\ stage' = 0 /\ transport = "open" /\ Respond
      /\ UNCHANGED <<senderVars, encrypted, deciphered>>
  BY DEF RequestEmpty, RequestUndecipherable, Respond, cryptVars
<1>2. /\ dns = "idle" /\ deciphered = 0 /\ to_sender_queue = <<>> /\ at_sender = <<>>
      /\ encrypted = <<>>
  BY <1>1 DEF ServerInv, SenderOnce, DecryptorInStep, TargetNeedsAddress
<1>3. SenderOnce' /\ DecryptorInStep' /\ TargetNeedsAddress' /\ KeptUntilAddress'
  BY <1>1, <1>2 DEF ServerInv, SenderOnce, DecryptorInStep, TargetNeedsAddress,
                    KeptUntilAddress, senderVars
<1>4. RespondedFirst' /\ NoneAhead'
  BY <1>1, RespondInv DEF senderVars
<1>5. TargetStream'
  BY <1>1, <1>2 DEF TargetStream, senderVars
<1>6. QED
  BY <1>1, <1>3, <1>4, <1>5 DEF ServerInv

(* A refused request changes neither stream.                               *)
LEMMA RefusedInv ==
    ASSUME TypeOK, ServerInv, RequestRefused \/ RequestFails
    PROVE  ServerInv'
<1>1. /\ stage = 4 /\ stage' = 5 /\ transport = "open"
      /\ UNCHANGED <<senderVars, cryptVars, at_local, to_local_queue>>
  BY DEF RequestRefused, RequestFails, NoReply
<1>2. SenderOnce' /\ DecryptorInStep' /\ TargetNeedsAddress' /\ KeptUntilAddress'
  BY <1>1 DEF ServerInv, SenderOnce, DecryptorInStep, TargetNeedsAddress,
              KeptUntilAddress, senderVars, cryptVars
<1>3. RespondedFirst'
  BY <1>1 DEF ServerInv, RespondedFirst
<1>4. TargetStream'
  BY <1>1 DEF ServerInv, TargetStream, senderVars, cryptVars
<1>5. NoneAhead'
  BY <1>1 DEF ServerInv, NoneAhead, senderVars, cryptVars
<1>6. QED
  BY <1>1, <1>2, <1>3, <1>4, <1>5 DEF ServerInv, cryptVars

(* Payload from the client: behind an address it goes on counting; without *)
(* one it is queued, whatever came out, and there will be no target.       *)
LEMMA RelayToSenderInv ==
    ASSUME TypeOK, ServerInv, NEW us \in Seq(Item), NEW m \in Nat, Len(us) = m,
           dns # "idle" => us = Units("cipher", deciphered, m),
           RelayToSender(us)
    PROVE  ServerInv'
<1>1. /\ transport = "open" /\ stage \in {5, 0} /\ Decrypt(us) /\ Forward(Plain(us))
      /\ UNCHANGED <<transport, stage, dns, sender, sender_task, at_sender, encrypted>>
      /\ UNCHANGED <<at_local, to_local_queue>>
  BY DEF RelayToSender, NoReply
<1>2. deciphered \in Nat
  BY DEF TypeOK, TcpTypeOK
<1>3. deciphered' = deciphered + m
  BY <1>1 DEF Decrypt
<1>4. NoneAhead'
  <2>1. Len(at_sender) \in Nat
    BY DEF TypeOK, TcpTypeOK
  <2>2. at_sender' # <<>> => Len(at_sender') < deciphered'
    BY <1>1, <1>2, <1>3, <2>1 DEF ServerInv, NoneAhead
  <2>3. QED
    BY <1>1, <2>2 DEF ServerInv, NoneAhead
<1>5. SenderOnce' /\ TargetNeedsAddress' /\ RespondedFirst'
  BY <1>1, <1>2, <1>3 DEF ServerInv, SenderOnce, TargetNeedsAddress, RespondedFirst
<1>6. CASE dns = "idle"
  <2>1. DecryptorInStep' /\ TargetStream'
    BY <1>1, <1>6 DEF ServerInv, DecryptorInStep, TargetStream
  <2>2. at_sender = <<>> /\ Len(to_sender_queue) = deciphered
    BY <1>1, <1>6 DEF ServerInv, KeptUntilAddress
  <2>3. Len(to_sender_queue \o Plain(us)) = Len(to_sender_queue) + m
    <3>1. Plain(us) \in Seq(Item) /\ Len(Plain(us)) = m
      BY PlainType
    <3>2. to_sender_queue \in Seq(Item)
      BY DEF TypeOK, TcpTypeOK
    <3>3. QED
      BY <3>1, <3>2, ConcatProperties
  <2>4. KeptUntilAddress'
    BY <1>1, <1>3, <2>2, <2>3 DEF KeptUntilAddress, Forward
  <2>5. QED
    BY <1>1, <1>4, <1>5, <2>1, <2>4 DEF ServerInv
<1>7. CASE dns # "idle"
  <2>1. ~garbled /\ stage = 0 /\ deciphered > 0
    BY <1>7 DEF ServerInv, DecryptorInStep, TargetNeedsAddress
  <2>2. us = Units("cipher", deciphered, m)
    BY <1>7
  <2>3. InSync(us) /\ Plain(us) = Units("data", deciphered, m)
    BY <1>2, <2>1, <2>2, PlainInSync
  <2>4. DecryptorInStep'
    <3>1. garbled' = FALSE
      BY <1>1, <2>3 DEF Decrypt
    <3>2. QED
      BY <1>1, <2>1, <3>1 DEF DecryptorInStep
  <2>5. ASSUME sender \in {"none", "open"}
        PROVE  at_sender' \o to_sender_queue' = Units("data", 1, deciphered' - 1)
    <3> DEFINE more == Units("data", deciphered, m)
    <3>0. "data" \in Tags /\ deciphered - 1 \in Nat /\ 1 \in Nat
          /\ 1 + (deciphered - 1) = deciphered /\ (deciphered - 1) + m = deciphered' - 1
      BY <1>2, <1>3, <2>1 DEF Tags
    <3>1. more \in Seq(Item)
      BY <1>2, <3>0, UnitsType
    <3>2. Units("data", 1, deciphered - 1) \o more = Units("data", 1, deciphered' - 1)
      <4>1. Units("data", 1, deciphered - 1) \o Units("data", 1 + (deciphered - 1), m)
               = Units("data", 1, (deciphered - 1) + m)
        BY <3>0, UnitsConcat
      <4>2. QED
        BY <3>0, <4>1
    <3>3. at_sender \o to_sender_queue = Units("data", 1, deciphered - 1)
      BY <1>7, <2>5 DEF ServerInv, TargetStream
    <3> HIDE DEF more
    <3>4. at_sender \o (to_sender_queue \o more) = (at_sender \o to_sender_queue) \o more
      <4>1. at_sender \in Seq(Item) /\ to_sender_queue \in Seq(Item)
        BY DEF TypeOK, TcpTypeOK
      <4>2. QED
        BY <3>1, <4>1, UnitsAssociative
    <3>5. at_sender' = at_sender /\ to_sender_queue' = to_sender_queue \o more
      BY <1>1, <2>3 DEF Forward, more
    <3>6. QED
      BY <3>2, <3>3, <3>4, <3>5
  <2>6. TargetStream'
    BY <1>1, <2>5 DEF ServerInv, TargetStream
  <2>7. KeptUntilAddress'
    BY <1>1, <1>7 DEF KeptUntilAddress
  <2>8. QED
    BY <1>1, <1>4, <1>5, <2>4, <2>6, <2>7 DEF ServerInv
<1>8. QED
  BY <1>6, <1>7

(* The authenticated decryptor raises only while there is no address.      *)
LEMMA DecryptFailsInv ==
    ASSUME TypeOK, ServerInv, NEW us, NEW m \in Nat,
           dns # "idle" => us = Units("cipher", deciphered, m),
           DecryptFails(us)
    PROVE  dns = "idle" /\ ServerInv'
<1>1. /\ transport = "open" /\ stage \in {5, 0} /\ ~InSync(us) /\ Raise
      /\ UNCHANGED <<senderVars, stage, encrypted, deciphered, at_local, to_local_queue>>
  BY DEF DecryptFails, NoReply
<1>2. deciphered \in Nat
  BY DEF TypeOK, TcpTypeOK
<1>3. dns = "idle"
  <2>1. SUFFICES ASSUME dns # "idle" PROVE FALSE
    OBVIOUS
  <2>2. ~garbled
    BY <2>1 DEF ServerInv, DecryptorInStep
  <2>3. us = Units("cipher", deciphered, m)
    BY <2>1
  <2>4. QED
    BY <1>1, <1>2, <2>2, <2>3, PlainInSync
<1>4. SenderOnce' /\ DecryptorInStep' /\ TargetNeedsAddress' /\ KeptUntilAddress'
  BY <1>1, <1>3
  DEF ServerInv, SenderOnce, DecryptorInStep, TargetNeedsAddress, KeptUntilAddress, senderVars
<1>5. RespondedFirst' /\ TargetStream' /\ NoneAhead'
  BY <1>1, <1>3 DEF ServerInv, RespondedFirst, TargetStream, NoneAhead, senderVars
<1>6. QED
  BY <1>1, <1>3, <1>4, <1>5 DEF ServerInv

(* Data from the target: there is a sender, so the client was answered.    *)
LEMMA RelayToLocalInv ==
    ASSUME TypeOK, ServerInv, NEW us \in Seq(Item), RelayToLocal(us)
    PROVE  ServerInv'
<1> DEFINE k    == Len(encrypted)
           m    == Len(us)
           more == Units("cipher", k, m)
           answer == <<Unit("response", 0)>>
<1>1. /\ sender = "open" /\ transport = "open"
      /\ encrypted' = encrypted \o us
      /\ to_local_queue' = to_local_queue \o more
      /\ UNCHANGED <<senderVars, transport, task, at_local, deciphered, garbled, stage>>
  BY DEF RelayToLocal
<1>2. stage = 0
  BY <1>1 DEF ServerInv, SenderOnce, TargetNeedsAddress
<1>3. answer \in Seq(Item) /\ encrypted \in Seq(Item) /\ k \in Nat /\ m \in Nat
  <2>1. Unit("response", 0) \in Item
    BY UnitType DEF Tags
  <2>2. QED
    BY <2>1 DEF TypeOK, TcpTypeOK
<1>4. Len(encrypted') = k + m
  BY <1>1, <1>3, ConcatProperties
<1>5. RespondedFirst'
  <2>0. "cipher" \in Tags /\ 0 \in Nat /\ 0 + k = k
    BY <1>3 DEF Tags
  <2>1. Units("cipher", 0, k) \o more = Units("cipher", 0, k + m)
    <3>1. Units("cipher", 0, k) \o Units("cipher", 0 + k, m) = Units("cipher", 0, k + m)
      BY <1>3, <2>0, UnitsConcat
    <3>2. QED
      BY <2>0, <3>1
  <2>2. more \in Seq(Item) /\ Units("cipher", 0, k) \in Seq(Item)
    BY <1>3, <2>0, UnitsType
  <2>3. at_local \o to_local_queue = answer \o Units("cipher", 0, k)
    BY <1>1, <1>2 DEF ServerInv, RespondedFirst
  <2> HIDE DEF more, answer, k, m
  <2>4. at_local \o (to_local_queue \o more) = (at_local \o to_local_queue) \o more
    <3>1. at_local \in Seq(Item) /\ to_local_queue \in Seq(Item) /\ more \in Seq(Item)
      BY <2>2 DEF TypeOK, TcpTypeOK
    <3>2. (at_local \o to_local_queue) \o more = at_local \o (to_local_queue \o more)
      BY ONLY <3>1, UnitsAssociative
    <3>3. QED
      BY ONLY <3>2
  <2>5. (answer \o Units("cipher", 0, k)) \o more = answer \o (Units("cipher", 0, k) \o more)
    <3>1. answer \in Seq(Item)
      BY <1>3
    <3>2. QED
      BY ONLY <2>2, <3>1, UnitsAssociative
  <2>6. at_local' \o to_local_queue' = answer \o Units("cipher", 0, k + m)
    BY <1>1, <2>1, <2>3, <2>4, <2>5
  <2>7. QED
    BY <1>1, <1>2, <1>4, <2>6 DEF RespondedFirst, answer
<1>6. SenderOnce' /\ DecryptorInStep' /\ TargetNeedsAddress' /\ KeptUntilAddress'
      /\ TargetStream'
  BY <1>1 DEF ServerInv, SenderOnce, DecryptorInStep, TargetNeedsAddress,
              KeptUntilAddress, TargetStream, senderVars
<1>7. NoneAhead'
  <2>1. more \in Seq(Item) /\ \A i \in DOMAIN more : more[i].n <= k + m
    <3>1. "cipher" \in Tags
      BY DEF Tags
    <3>2. /\ more \in Seq(Item) /\ Len(more) = m
          /\ \A i \in 1..m : more[i].n = k + i
      BY <1>3, <3>1, UnitsType
    <3>3. DOMAIN more = 1..m
      BY <3>2, LenProperties
    <3> HIDE DEF more, k, m
    <3>4. QED
      BY <1>3, <3>2, <3>3
  <2>2. /\ at_local \in Seq(Item) /\ to_local_queue \in Seq(Item)
        /\ \A i \in DOMAIN at_local : at_local[i].n <= k
        /\ \A i \in DOMAIN to_local_queue : to_local_queue[i].n <= k
    BY DEF ServerInv, NoneAhead, TypeOK, TcpTypeOK
  <2> HIDE DEF more, k, m
  <2>3. /\ \A i \in DOMAIN at_local : at_local[i].n <= k + m
        /\ \A i \in DOMAIN to_local_queue : to_local_queue[i].n <= k + m
    <3>1. \A u \in Item : u.n <= k => u.n <= k + m
      BY <1>3 DEF Item
    <3>2. QED
      BY <2>2, <3>1, LenProperties, ElementOfSeq
  <2>4. \A i \in DOMAIN (to_local_queue \o more) : (to_local_queue \o more)[i].n <= k + m
    BY <1>3, <2>1, <2>2, <2>3, BoundedConcat
  <2>5. QED
    BY <1>1, <1>4, <2>3, <2>4 DEF ServerInv, NoneAhead, senderVars
<1>8. QED
  BY <1>1, <1>2, <1>5, <1>6, <1>7 DEF ServerInv

(* Nothing but the sender's task takes from the queue towards it.          *)
LEMMA SenderTaskOnly ==
    ASSUME TcpNext, ~sender_task
    PROVE  UNCHANGED <<at_sender, to_sender_queue>>
BY DEF TcpNext, Tasks, Callbacks, ResolveDns, ResolveDnsFails, CreateSender,
       CreateSenderFails, SendToSender, SendToLocal, LocalEof, LocalError, LocalLost,
       SenderEof, SenderError, SenderLost, senderVars

LEMMA TcpNextInv ==
    ASSUME TypeOK, ServerInv, TcpNext, UNCHANGED stage
    PROVE  ServerInv'
<1>1. TcpTypeOK /\ SenderOnce
  BY DEF TypeOK, ServerInv
<1>2. /\ UNCHANGED cryptVars
      /\ transport # "open" => transport' # "open"
      /\ dns = "idle" <=> dns' = "idle"
      /\ to_sender_queue' \in {to_sender_queue, <<>>}
      /\ \/ at_sender' = at_sender
         \/ sender = "open" /\ sender_task /\ at_sender' = at_sender \o to_sender_queue
      /\ to_local_queue' \in {to_local_queue, <<>>}
      /\ at_local' \in {at_local, at_local \o to_local_queue}
  BY TcpNextFrame
<1>3. SenderOnce'
  BY <1>1, TcpNextSender
<1>4. DecryptorInStep' /\ TargetNeedsAddress' /\ KeptUntilAddress'
  <2>1. DecryptorInStep' /\ TargetNeedsAddress'
    BY <1>2 DEF ServerInv, DecryptorInStep, TargetNeedsAddress, cryptVars
(* Without an address there is no sender, and its task does not run.       *)
  <2>2. ASSUME transport' = "open", dns' = "idle"
        PROVE  at_sender' = <<>> /\ Len(to_sender_queue') = deciphered'
    <3>1. transport = "open" /\ dns = "idle" /\ sender = "none" /\ ~sender_task
      BY <1>1, <1>2, <2>2 DEF SenderOnce
    <3>2. at_sender = <<>> /\ Len(to_sender_queue) = deciphered
      BY <3>1 DEF ServerInv, KeptUntilAddress
    <3>3. UNCHANGED <<at_sender, to_sender_queue>>
      BY <3>1, SenderTaskOnly
    <3>4. QED
      BY <1>2, <3>2, <3>3 DEF cryptVars
  <2>3. QED
    BY <2>1, <2>2 DEF KeptUntilAddress
<1>5. RespondedFirst'
  BY <1>1, <1>2, LocalFlow DEF ServerInv, RespondedFirst, cryptVars
<1>6. TargetStream'
  <2>1. ASSUME dns' # "idle", sender' \in {"none", "open"}
        PROVE  at_sender' \o to_sender_queue' = Units("data", 1, deciphered' - 1)
    <3>1. /\ sender \in {"none", "open"}
          /\ at_sender' \o to_sender_queue' = at_sender \o to_sender_queue
      BY <1>1, <2>1, SenderFlow DEF SenderOnce
    <3>2. QED
      BY <1>2, <2>1, <3>1 DEF ServerInv, TargetStream, cryptVars
  <2>2. ASSUME sender = "open", at_sender' = at_sender \o to_sender_queue,
               NEW i \in DOMAIN at_sender'
        PROVE  at_sender'[i] = Unit("data", i + 1)
    <3>1. dns # "idle" /\ deciphered > 0
      BY <1>1, <2>2 DEF SenderOnce, ServerInv, TargetNeedsAddress
    <3>2. at_sender' = Units("data", 1, deciphered - 1)
      BY <2>2, <3>1 DEF ServerInv, TargetStream
    <3>3. DOMAIN at_sender' = 1..(deciphered - 1)
          /\ at_sender'[i] = Unit("data", 1 + i)
      BY <3>2 DEF Units
    <3>4. i + 1 = 1 + i
      BY <3>3
    <3>5. QED
      BY <3>3, <3>4
  <2>3. ASSUME NEW i \in DOMAIN at_sender'
        PROVE  at_sender'[i] = Unit("data", i + 1)
    BY <1>2, <2>2 DEF ServerInv, TargetStream
  <2>4. QED
    BY <2>1, <2>3 DEF TargetStream
<1>7. NoneAhead'
  <2>1. Len(encrypted) \in Nat /\ at_local \in Seq(Item) /\ to_local_queue \in Seq(Item)
    BY DEF TypeOK, TcpTypeOK
  <2>2. /\ \A i \in DOMAIN at_local : at_local[i].n <= Len(encrypted)
        /\ \A i \in DOMAIN to_local_queue : to_local_queue[i].n <= Len(encrypted)
    BY DEF ServerInv, NoneAhead
  <2>3. /\ \A i \in DOMAIN at_local' : at_local'[i].n <= Len(encrypted')
        /\ \A i \in DOMAIN to_local_queue' : to_local_queue'[i].n <= Len(encrypted')
    <3>1. \A i \in DOMAIN (at_local \o to_local_queue) :
             (at_local \o to_local_queue)[i].n <= Len(encrypted)
      BY <2>1, <2>2, BoundedConcat
    <3>2. encrypted' = encrypted
      BY <1>2 DEF cryptVars
    <3>3. \A i \in DOMAIN at_local' : at_local'[i].n <= Len(encrypted)
      <4>1. CASE at_local' = at_local
        BY <2>2, <4>1
      <4>2. CASE at_local' = at_local \o to_local_queue
        BY <3>1, <4>2
      <4>3. QED
        BY <1>2, <4>1, <4>2
    <3>4. \A i \in DOMAIN to_local_queue' : to_local_queue'[i].n <= Len(encrypted)
      <4>1. CASE to_local_queue' = to_local_queue
        BY <2>2, <4>1
      <4>2. CASE to_local_queue' = <<>>
        BY <4>2
      <4>3. QED
        BY <1>2, <4>1, <4>2
    <3>5. QED
      BY <3>2, <3>3, <3>4
  <2>4. at_sender' # <<>> => Len(at_sender') < deciphered'
    <3>1. CASE at_sender' = at_sender
      BY <1>2, <3>1 DEF ServerInv, NoneAhead, cryptVars
    <3>2. CASE sender = "open" /\ at_sender' = at_sender \o to_sender_queue
      <4>1. dns # "idle" /\ deciphered > 0 /\ deciphered \in Nat
        BY <1>1, <3>2 DEF SenderOnce, ServerInv, TargetNeedsAddress, TcpTypeOK
      <4>2. at_sender' = Units("data", 1, deciphered - 1)
        BY <3>2, <4>1 DEF ServerInv, TargetStream
      <4>3. "data" \in Tags /\ deciphered - 1 \in Nat
        BY <4>1 DEF Tags
      <4>4. Len(at_sender') = deciphered - 1
        BY <4>2, <4>3, UnitsType
      <4>5. QED
        BY <1>2, <4>1, <4>4 DEF cryptVars
    <3>3. QED
      BY <1>2, <3>1, <3>2
  <2>5. QED
    BY <2>3, <2>4 DEF NoneAhead
<1>8. QED
  BY <1>2, <1>3, <1>4, <1>5, <1>6, <1>7 DEF ServerInv, cryptVars

(* What was written to the client so far, even if its connection is gone:  *)
(* the response and then the server's stream.                              *)
AnswerOnWire ==
    \A i \in DOMAIN at_local :
        at_local[i] = IF i = 1 THEN Unit("response", 0) ELSE Unit("cipher", i - 1)

LEMMA TcpNextAnswer ==
    ASSUME TypeOK, ServerInv, AnswerOnWire, TcpNext
    PROVE  AnswerOnWire'
<1>1. CASE at_local' = at_local
  BY <1>1 DEF AnswerOnWire, Unit
<1>2. CASE transport = "open" /\ at_local' = at_local \o to_local_queue
  <2> DEFINE k     == Len(encrypted)
             units == Units("cipher", 0, k)
             resp  == Unit("response", 0)
  <2>1. at_local' = IF stage = 0 THEN <<resp>> \o units ELSE <<>>
    BY <1>2 DEF ServerInv, RespondedFirst
  <2>2. CASE stage # 0
    <3>1. at_local' = <<>>
      BY <2>1, <2>2
    <3>2. DOMAIN at_local' = {}
      BY <3>1
    <3>3. QED
      BY <3>2 DEF AnswerOnWire, Unit
  <2>3. CASE stage = 0
    <3>1. k \in Nat
      BY LenProperties DEF TypeOK, TcpTypeOK
    <3> HIDE DEF k
    <3>2. units \in Seq(Item) /\ Len(units) = k
      BY <3>1, UnitsType DEF Tags
    <3>3. resp \in Item /\ <<resp>> \in Seq(Item) /\ Len(<<resp>>) = 1 /\ <<resp>>[1] = resp
      BY UnitType DEF Tags
    <3>4. \A i \in 1..k : units[i] = Unit("cipher", i)
      BY <3>1 DEF Units
    <3> HIDE DEF units, resp
    <3>5. at_local' = <<resp>> \o units
      BY <2>1, <2>3
    <3>6. /\ <<resp>> \o units \in Seq(Item) /\ Len(<<resp>> \o units) = 1 + k
          /\ \A i \in 1..(1 + k) :
                (<<resp>> \o units)[i] = IF i <= 1 THEN <<resp>>[i] ELSE units[i - 1]
      BY <3>2, <3>3, ConcatProperties
    <3>7. DOMAIN at_local' = 1..(1 + k)
      BY <3>5, <3>6, LenProperties
    <3>8. ASSUME NEW i \in 1..(1 + k)
          PROVE  at_local'[i] = IF i = 1 THEN resp ELSE Unit("cipher", i - 1)
      <4>1. CASE i = 1
        BY <3>1, <3>3, <3>5, <3>6, <4>1
      <4>2. CASE i # 1
        <5>1. i - 1 \in 1..k /\ ~(i <= 1)
          BY <3>1, <4>2
        <5>2. QED
          BY <3>4, <3>5, <3>6, <4>2, <5>1
      <4>3. QED
        BY <4>1, <4>2
    <3>9. QED
      BY <3>7, <3>8 DEF AnswerOnWire, Unit, resp
  <2>4. QED
    BY <2>2, <2>3
<1>3. QED
  BY <1>1, <1>2, TcpNextFrame

(* The invariant behind the server's properties.                           *)
THEOREM ServerInvariant == Spec => []ServerInv
<1>1. TypeOK /\ ServerInv /\ [Next]_vars => ServerInv'
  <2> SUFFICES ASSUME TypeOK, ServerInv, [Next]_vars
               PROVE  ServerInv'
    OBVIOUS
  <2>1. CASE DataFromLocal
    <3> DEFINE n == IF stage = 5 THEN deciphered + 2 ELSE deciphered + 1
    <3>1. n \in Nat
      BY DEF TypeOK, TcpTypeOK
    <3>2. \/ \E us \in Requests : RequestAccepted(us) \/ RequestBadAddress(us)
          \/ RequestEmpty \/ RequestUndecipherable
          \/ RequestRefused \/ RequestFails
          \/ RelayToSender(<<Unit("cipher", n)>>) \/ DecryptFails(<<Unit("cipher", n)>>)
      BY <2>1 DEF DataFromLocal, Requests
    <3>3. ASSUME NEW us \in Requests, RequestAccepted(us) \/ RequestBadAddress(us)
          PROVE  ServerInv'
      <4>1. PICK m \in {1, 2} : Carried(us) = Units("cipher", 0, m)
        BY RequestCarries
      <4>2. m \in Nat \ {0}
        OBVIOUS
      <4>3. QED
        BY <3>3, <4>1, <4>2, RequestInv
    <3>4. ASSUME RelayToSender(<<Unit("cipher", n)>>) \/ DecryptFails(<<Unit("cipher", n)>>)
          PROVE  ServerInv'
      <4>1. <<Unit("cipher", n)>> \in Seq(Item) /\ Len(<<Unit("cipher", n)>>) = 1
        BY <3>1, UnitType DEF Tags
      <4>2. dns # "idle" => <<Unit("cipher", n)>> = Units("cipher", deciphered, 1)
        BY UnitsOne DEF TypeOK, TcpTypeOK, ServerInv, TargetNeedsAddress
      <4>3. 1 \in Nat
        OBVIOUS
      <4> HIDE DEF n
      <4>4. QED
        BY <3>4, <4>1, <4>2, <4>3, RelayToSenderInv, DecryptFailsInv
    <3>5. QED
      BY <3>2, <3>3, <3>4, UnaddressedInv, RefusedInv
  <2>2. CASE DataFromSender
    <3>1. <<Unit("data", 0)>> \in Seq(Item)
      BY UnitType DEF Tags
    <3>2. QED
      BY <2>2, <3>1, RelayToLocalInv DEF DataFromSender
  <2>3. CASE TcpNext /\ UNCHANGED stage
    BY <2>3, TcpNextInv
  <2>4. CASE UNCHANGED vars
    BY <2>4 DEF vars, tcpVars, ServerInv, SenderOnce, DecryptorInStep, TargetNeedsAddress,
                KeptUntilAddress, RespondedFirst, TargetStream, NoneAhead
  <2>5. QED
    BY <2>1, <2>2, <2>3, <2>4 DEF Next
<1>2. QED
  BY <1>1, InitInv, TypeCorrect, PTL DEF Spec

(* The target gets the client's units 2, 3, ... in order, none missing and *)
(* none garbled, for any number of them and whatever closes when.          *)
THEOREM TargetStreamCorrect == Spec => []TargetStream
<1>1. ServerInv => TargetStream
  BY DEF ServerInv
<1>2. QED
  BY <1>1, ServerInvariant, PTL

(* The HTTP response comes first and once, the cipher stream after it in   *)
(* order.                                                                  *)
THEOREM ResponseComesFirst == Spec => []RespondedFirst
<1>1. ServerInv => RespondedFirst
  BY DEF ServerInv
<1>2. QED
  BY <1>1, ServerInvariant, PTL

(* No lookup and no connection without a decrypted address.                *)
THEOREM NoTargetWithoutAddress == Spec => []TargetNeedsAddress
<1>1. ServerInv => TargetNeedsAddress
  BY DEF ServerInv
<1>2. QED
  BY <1>1, ServerInvariant, PTL

(* Of an open connection that has no address yet nothing reached anyone,   *)
(* and all that was decrypted is still queued, however its first segments  *)
(* were refused, empty or undecipherable (server.py 34-52).                *)
THEOREM NothingLostBeforeAddress == Spec => []KeptUntilAddress
<1>1. ServerInv => KeptUntilAddress
  BY DEF ServerInv
<1>2. QED
  BY <1>1, ServerInvariant, PTL

(* Once the client's connection is closing nothing is decrypted for the    *)
(* target or encrypted for the client.                                     *)
THEOREM QuietOnceClosed == Spec => ClosedIsQuiet
<1>1. [Next]_vars => [transport # "open" => UNCHANGED <<cryptVars, stage>>]_vars
  <2> SUFFICES ASSUME Next, transport # "open"
               PROVE  UNCHANGED <<cryptVars, stage>>
    OBVIOUS
  <2>1. ~DataFromLocal
    BY DEF DataFromLocal, RequestAccepted, RequestBadAddress, RequestEmpty,
           RequestUndecipherable, RequestRefused, RequestFails, RelayToSender, DecryptFails
  <2>2. ~DataFromSender
    BY DEF DataFromSender, RelayToLocal
  <2>3. QED
    BY <2>1, <2>2, TcpNextFrame DEF Next
<1>2. QED
  BY <1>1, PTL DEF Spec, ClosedIsQuiet
=============================================================================
