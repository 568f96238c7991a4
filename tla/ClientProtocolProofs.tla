------------------------ MODULE ClientProtocolProofs ------------------------
(***************************************************************************)
(* Theorems about ClientProtocol, for every value of its constants.        *)
(***************************************************************************)
EXTENDS ClientProtocol, TcpProtocolProofs

-----------------------------------------------------------------------------
(* Type correctness.                                                       *)

LEMMA InitType == Init => TypeOK
<1> SUFFICES ASSUME Init PROVE TypeOK
  OBVIOUS
<1>1. TcpTypeOK
  BY TcpInitType DEF Init
<1>2. ClientTypeOK
  BY EmptySeq DEF Init, ClientTypeOK
<1>3. QED
  BY <1>1, <1>2 DEF TypeOK

(* What every handler that sends something outbound does to the types.     *)
LEMMA MessagesSentType ==
    ASSUME TypeOK, NEW msgs \in Seq(Item), msgs # <<>>, MessagesSent(msgs)
    PROVE  /\ encrypted' \in Seq(Item)
           /\ to_sender_queue' \in Seq(Item)
           /\ residual' \in Seq(Item)
           /\ out_stage' \in {0, 1, 2}
           /\ UNCHANGED <<transport, dns, sender, sender_task, at_sender,
                          deciphered, garbled>>
<1> DEFINE sent == Units("cipher", Len(encrypted), Len(msgs))
<1>1. /\ encrypted \in Seq(Item) /\ to_sender_queue \in Seq(Item)
      /\ residual \in Seq(Item) /\ out_stage \in {0, 1, 2}
  BY DEF TypeOK, TcpTypeOK, ClientTypeOK
<1>2. Len(encrypted) \in Nat /\ Len(msgs) \in Nat /\ Len(msgs) # 0
  BY <1>1
<1>3. sent \in Seq(Item) /\ Len(sent) = Len(msgs)
  BY <1>2, UnitsType DEF Tags
<1>4. sent # <<>>
  BY <1>2, <1>3
<1>5. Tail(sent) \in Seq(Item)
  BY <1>3, <1>4
<1>6. Unit("head", Len(encrypted) + 1) \in Item
  BY <1>2, UnitType DEF Tags
<1>7. /\ encrypted' = encrypted \o msgs
      /\ UNCHANGED <<transport, dns, sender, sender_task, at_sender, deciphered, garbled>>
      /\ \/ /\ out_stage' = 2
            /\ to_sender_queue' = Append(to_sender_queue, Unit("head", Len(encrypted) + 1))
            /\ residual' = residual \o Tail(sent)
         \/ /\ residual' = residual \o sent
            /\ UNCHANGED <<out_stage, to_sender_queue>>
         \/ /\ to_sender_queue' = to_sender_queue \o sent
            /\ UNCHANGED <<out_stage, residual>>
  BY DEF MessagesSent, Encrypt, Ciphertext, HandleClientSend
<1> HIDE DEF sent
<1>8. encrypted \o msgs \in Seq(Item)
  BY <1>1, ConcatProperties
<1>9. /\ residual \o sent \in Seq(Item)
      /\ residual \o Tail(sent) \in Seq(Item)
      /\ to_sender_queue \o sent \in Seq(Item)
      /\ Append(to_sender_queue, Unit("head", Len(encrypted) + 1)) \in Seq(Item)
  BY <1>1, <1>3, <1>5, <1>6, ConcatProperties, AppendProperties
<1>10. QED
  BY <1>1, <1>7, <1>8, <1>9

(* When the request cannot be built, its message is encrypted and nothing  *)
(* else is done with it.                                                   *)
LEMMA RaisedRequest ==
    ASSUME TypeOK, NEW msgs \in Seq(Item), msgs # <<>>, RequestRaises(msgs)
    PROVE  /\ <<msgs[1]>> \in Seq(Item)
           /\ encrypted' = encrypted \o <<msgs[1]>>
           /\ encrypted' \in Seq(Item) /\ Len(encrypted') = Len(encrypted) + 1
           /\ encrypted' # <<>>
           /\ out_stage' = 2
           /\ transport' \in {transport, "closing"}
           /\ UNCHANGED <<dns, sender, sender_task, to_sender_queue, at_sender,
                          residual, deciphered, garbled>>
<1>1. encrypted \in Seq(Item) /\ Len(encrypted) \in Nat
  BY DEF TypeOK, TcpTypeOK
<1>2. msgs[1] \in Item
  <2>1. Len(msgs) \in Nat /\ Len(msgs) # 0
    OBVIOUS
  <2>2. 1 \in 1..Len(msgs)
    BY <2>1
  <2>3. QED
    BY <2>2, ElementOfSeq
<1>3. <<msgs[1]>> \in Seq(Item) /\ Len(<<msgs[1]>>) = 1
  BY <1>2
<1>4. /\ encrypted \o <<msgs[1]>> \in Seq(Item)
      /\ Len(encrypted \o <<msgs[1]>>) = Len(encrypted) + 1
  BY <1>1, <1>3, ConcatProperties
<1>5. /\ encrypted' = encrypted \o <<msgs[1]>>
      /\ out_stage' = 2
      /\ transport' \in {transport, "closing"}
      /\ UNCHANGED <<dns, sender, sender_task, to_sender_queue, at_sender,
                     residual, deciphered, garbled>>
  BY DEF RequestRaises, Encrypt, Raise, senderVars
<1>6. encrypted' # <<>>
  BY <1>1, <1>4, <1>5
<1>7. QED
  BY <1>3, <1>4, <1>5, <1>6

LEMMA SendOutboundType ==
    ASSUME TypeOK, NEW msgs \in Seq(Item), msgs # <<>>, SendOutbound(msgs)
    PROVE  /\ encrypted' \in Seq(Item)
           /\ to_sender_queue' \in Seq(Item)
           /\ residual' \in Seq(Item)
           /\ out_stage' \in {0, 1, 2}
           /\ transport' \in {"open", "closing", "lost"}
           /\ UNCHANGED <<dns, sender, sender_task, at_sender, deciphered, garbled>>
<1>1. CASE MessagesSent(msgs)
  BY <1>1, MessagesSentType DEF TypeOK, TcpTypeOK
<1>2. CASE RequestRaises(msgs)
  BY <1>2, RaisedRequest DEF TypeOK, TcpTypeOK, ClientTypeOK
<1>3. QED
  BY <1>1, <1>2 DEF SendOutbound

(* The steps of the base class keep the types.                             *)
LEMMA TcpNextType ==
    ASSUME TypeOK, TcpNext, UNCHANGED clientVars
    PROVE  TypeOK'
BY TcpNextTcpType DEF TypeOK, ClientTypeOK, clientVars

(* The handlers of the accepted transport, whatever payload it brings.     *)
LocalStep(u) ==
    \/ Socks5Greeting \/ Socks5GreetingRefused \/ UnknownProtocol
    \/ \E addr \in {Addr, Wrong} :
           Socks5Connect(addr) \/ HttpConnect(addr) \/ HttpRequest(addr, u)
    \/ Socks5ConnectFails \/ Socks5RequestFails
    \/ Socks5Refused \/ Socks5UdpAssociate
    \/ HttpConnectFails \/ HttpRequestRefused \/ HttpRequestFails
    \/ RelayToSender(u)

LEMMA DataFromLocalStep ==
    /\ Unit("data", 0) \in Item
    /\ DataFromLocal <=> LocalStep(Unit("data", 0))
BY UnitType DEF DataFromLocal, LocalStep, Tags

(* They keep the types.                                                    *)
LEMMA LocalStepType ==
    ASSUME TypeOK, NEW u \in Item, LocalStep(u)
    PROVE  TypeOK'
<1> USE DEF TypeOK, TcpTypeOK, ClientTypeOK
<1>1. Addr \in Item /\ Wrong \in Item 
  BY UnitType DEF Addr, Wrong, Tags
<1>2. \A t \in Tags : Unit(t, 0) \in Item
  BY UnitType
<1>3. ASSUME NoReply \/ \E t \in Tags : ReplyToLocal(t)
      PROVE  /\ task' \in BOOLEAN
             /\ at_local' \in Seq(Item)
             /\ to_local_queue' \in Seq(Item)
  <2>1. CASE NoReply
    BY <2>1 DEF NoReply
  <2>2. ASSUME NEW t \in Tags, ReplyToLocal(t)
        PROVE  /\ task' \in BOOLEAN
               /\ at_local' \in Seq(Item)
               /\ to_local_queue' \in Seq(Item)
    <3>1. Append(to_local_queue, Unit(t, 0)) \in Seq(Item)
      BY <1>2, AppendProperties
    <3>2. QED
      BY <2>2, <3>1 DEF ReplyToLocal
  <2>3. QED
    BY <1>3, <2>1, <2>2
<1>4. ASSUME NEW msgs \in Seq(Item), msgs # <<>>, SendOutbound(msgs),
             NoReply \/ \E t \in Tags : ReplyToLocal(t),
             proto' \in {"none", "Socks5", "HttpProxy"}, stage' \in {4, 5, 6, 7, 0}
      PROVE  TypeOK'
  <2>1. /\ encrypted' \in Seq(Item)
        /\ to_sender_queue' \in Seq(Item)
        /\ residual' \in Seq(Item)
        /\ out_stage' \in {0, 1, 2}
        /\ transport' \in {"open", "closing", "lost"}
        /\ UNCHANGED <<dns, sender, sender_task, at_sender, deciphered, garbled>>
    BY <1>4, SendOutboundType
  <2>2. /\ task' \in BOOLEAN /\ at_local' \in Seq(Item) /\ to_local_queue' \in Seq(Item)
    BY <1>3, <1>4
  <2>3. QED
    BY <1>4, <2>1, <2>2
<1>5. ASSUME NothingOutbound,
             Raise \/ transport' = transport,
             NoReply \/ \E t \in Tags : ReplyToLocal(t),
             proto' \in {"none", "Socks5", "HttpProxy"}, stage' \in {4, 5, 6, 7, 0}
      PROVE  TypeOK'
  <2>1. /\ task' \in BOOLEAN /\ at_local' \in Seq(Item) /\ to_local_queue' \in Seq(Item)
    BY <1>3, <1>5
  <2>2. transport' \in {"open", "closing", "lost"}
    BY <1>5 DEF Raise
  <2>3. QED
    BY <1>5, <2>1, <2>2 DEF NothingOutbound, senderVars, cryptVars
<1>6. CASE Socks5Greeting
  BY <1>5, <1>6 DEF Tags, Socks5Greeting
<1>7. CASE Socks5GreetingRefused \/ UnknownProtocol \/ Socks5RequestFails
           \/ Socks5Refused \/ Socks5UdpAssociate
  BY <1>5, <1>7 DEF Socks5GreetingRefused, UnknownProtocol, Socks5RequestFails,
                    Socks5Refused, Socks5UdpAssociate
<1>8. CASE Socks5ConnectFails \/ HttpConnectFails \/ HttpRequestRefused \/ HttpRequestFails
  BY <1>5, <1>8 DEF Socks5ConnectFails, HttpConnectFails, HttpRequestRefused,
                    HttpRequestFails, Tags
<1>9. ASSUME NEW addr \in {Addr, Wrong}, Socks5Connect(addr) \/ HttpConnect(addr)
      PROVE  TypeOK'
  <2>1. <<addr>> \in Seq(Item) /\ <<addr>> # <<>>
    BY <1>1
  <2>2. QED
    BY <1>4, <1>9, <2>1 DEF Socks5Connect, HttpConnect, Tags
<1>10. ASSUME NEW addr \in {Addr, Wrong}, HttpRequest(addr, u)
      PROVE  TypeOK'
  <2>1. <<addr, u>> \in Seq(Item) /\ <<addr, u>> # <<>>
    BY <1>1
  <2>2. QED
    BY <1>4, <1>10, <2>1 DEF HttpRequest
<1>11. CASE RelayToSender(u)
  <2>1. <<u>> \in Seq(Item) /\ <<u>> # <<>>
    OBVIOUS
  <2>2. QED
    BY <1>4, <1>11, <2>1 DEF RelayToSender
<1>12. QED
  BY <1>6, <1>7, <1>8, <1>9, <1>10, <1>11 DEF LocalStep

(* The handlers of the sender, whatever the segment holds, keep the types. *)
SenderStep(us) == ServerResponded \/ RelayToLocal(us) \/ DecryptFails(us)

LEMMA SenderStepType ==
    ASSUME TypeOK, NEW us \in Seq(Item), SenderStep(us)
    PROVE  TypeOK'
<1> USE DEF TypeOK, TcpTypeOK, ClientTypeOK, localVars, cryptVars, senderVars, clientVars
<1>1. CASE ServerResponded
  BY <1>1 DEF ServerResponded
<1>2. CASE RelayToLocal(us)
  <2>1. Plain(us) \in Seq(Item)
    BY PlainType
  <2>2. QED
    BY <1>2, <2>1 DEF RelayToLocal, Decrypt
<1>3. CASE DecryptFails(us)
  BY <1>3 DEF DecryptFails
<1>4. QED
  BY <1>1, <1>2, <1>3 DEF SenderStep

LEMMA DataFromSenderStep ==
    ASSUME TypeOK, DataFromSender
    PROVE  at_sender # <<>> /\ \E us \in Seq(Item) : SenderStep(us)
<1>1. <<Unit("cipher", deciphered + 1)>> \in Seq(Item)
  BY UnitType DEF TypeOK, TcpTypeOK, Tags
<1>2. QED
  BY <1>1 DEF DataFromSender, SenderStep

(* Every variable of the client keeps to its domain, whatever the bounds,  *)
(* the obfuscation and the event loop's treatment of exceptions.           *)
THEOREM TypeCorrect == Spec => []TypeOK
<1>1. TypeOK /\ [Next]_vars => TypeOK'
  <2> SUFFICES ASSUME TypeOK, [Next]_vars
               PROVE  TypeOK'
    OBVIOUS
  <2>1. CASE DataFromLocal
    BY <2>1, DataFromLocalStep, LocalStepType
  <2>2. CASE DataFromSender
    BY <2>2, DataFromSenderStep, SenderStepType
  <2>3. CASE TcpNext /\ UNCHANGED clientVars
    BY <2>3, TcpNextType
  <2>4. CASE UNCHANGED vars
    BY <2>4 DEF vars, tcpVars, clientVars, TypeOK, TcpTypeOK, ClientTypeOK
  <2>5. QED
    BY <2>1, <2>2, <2>3, <2>4 DEF Next
<1>2. QED
  BY <1>1, InitType, PTL DEF Spec

-----------------------------------------------------------------------------
(* The order of the wire.                                                  *)

(* A numbered sequence stays numbered when it goes on counting.            *)
LEMMA NumberedConcat ==
    ASSUME NEW s \in Seq(Item), NEW t \in Seq(Item), Numbered(s),
           \A i \in 1..Len(t) : t[i].n = Len(s) + i
    PROVE  Numbered(s \o t) /\ Len(s \o t) = Len(s) + Len(t)
<1>1. /\ Len(s) \in Nat /\ Len(t) \in Nat
      /\ DOMAIN s = 1..Len(s)
      /\ s \o t \in Seq(Item)
      /\ Len(s \o t) = Len(s) + Len(t)
      /\ \A i \in 1..(Len(s) + Len(t)) :
            (s \o t)[i] = IF i <= Len(s) THEN s[i] ELSE t[i - Len(s)]
  BY ConcatProperties, LenProperties
<1>2. DOMAIN (s \o t) = 1..(Len(s) + Len(t))
  BY <1>1, LenProperties
<1>3. ASSUME NEW i \in 1..(Len(s) + Len(t))
      PROVE  (s \o t)[i].n = i
  <2>1. CASE i <= Len(s)
    BY <1>1, <2>1 DEF Numbered
  <2>2. CASE i > Len(s)
    <3>1. i - Len(s) \in 1..Len(t)
      BY <1>1, <2>2
    <3>2. t[i - Len(s)].n = Len(s) + (i - Len(s))
      BY <3>1
    <3>3. QED
      BY <1>1, <2>2, <3>2
  <2>3. QED
    BY <1>1, <2>1, <2>2
<1>4. QED
  BY <1>1, <1>2, <1>3 DEF Numbered

(* An initial part of a numbered sequence is numbered.                     *)
LEMMA NumberedPrefix ==
    ASSUME NEW s \in Seq(Item), NEW t \in Seq(Item), Numbered(s \o t)
    PROVE  Numbered(s)
<1>1. /\ DOMAIN s = 1..Len(s) /\ Len(s) \in Nat /\ Len(t) \in Nat
      /\ \A i \in 1..(Len(s) + Len(t)) :
            (s \o t)[i] = IF i <= Len(s) THEN s[i] ELSE t[i - Len(s)]
      /\ DOMAIN (s \o t) = 1..(Len(s) + Len(t))
  <2>1. s \o t \in Seq(Item) /\ Len(s \o t) = Len(s) + Len(t)
    BY ConcatProperties
  <2>2. QED
    BY <2>1, ConcatProperties, LenProperties
<1>2. QED
  BY <1>1 DEF Numbered

(* All that is on the wire or on its way to it.                            *)
Stream == (at_sender \o to_sender_queue) \o Held

LEMMA StreamType ==
    ASSUME TypeOK
    PROVE  /\ Held \in Seq(Item)
           /\ at_sender \o to_sender_queue \in Seq(Item)
           /\ Stream \in Seq(Item)
<1>1. at_sender \in Seq(Item) /\ to_sender_queue \in Seq(Item) /\ residual \in Seq(Item)
  BY DEF TypeOK, TcpTypeOK, ClientTypeOK
<1>2. Held \in Seq(Item)
  BY <1>1 DEF Held
<1>3. QED
  BY <1>1, <1>2, ConcatProperties DEF Stream

(* Sending outbound appends to the stream the next Len(msgs) numbers.      *)
LEMMA MessagesSentStream ==
    ASSUME TypeOK, out_stage = 1 => residual = <<>>,
           NEW msgs \in Seq(Item), msgs # <<>>, MessagesSent(msgs)
    PROVE  \E more \in Seq(Item) :
              /\ Stream' = Stream \o more
              /\ Len(more) = Len(msgs)
              /\ \A i \in 1..Len(more) : more[i].n = Len(encrypted) + i
<1> DEFINE k    == Len(encrypted)
           sent == Units("cipher", k, Len(msgs))
           head == Unit("head", k + 1)
           old  == at_sender \o to_sender_queue
<1>1. /\ encrypted \in Seq(Item) /\ to_sender_queue \in Seq(Item)
      /\ residual \in Seq(Item) /\ out_stage \in {0, 1, 2}
      /\ at_sender \in Seq(Item)
  BY DEF TypeOK, TcpTypeOK, ClientTypeOK
<1>2. k \in Nat /\ Len(msgs) \in Nat /\ Len(msgs) # 0
  BY <1>1
<1>3. sent \in Seq(Item) /\ Len(sent) = Len(msgs)
      /\ \A i \in 1..Len(sent) : sent[i].n = k + i
  <2>1. "cipher" \in Tags
    BY DEF Tags
  <2>2. \A j, m \in Nat : /\ Units("cipher", j, m) \in Seq(Item) /\ Len(Units("cipher", j, m)) = m
                         /\ \A i \in 1..m : Units("cipher", j, m)[i].n = j + i
    BY ONLY <2>1, UnitsType
  <2>3. QED
    BY ONLY <1>2, <2>2
<1>4. sent # <<>>
  BY <1>2, <1>3
<1>5. old \in Seq(Item)
  BY <1>1, ConcatProperties
<1>6. /\ at_sender' = at_sender
      /\ \/ /\ out_stage = 1 /\ out_stage' = 2
            /\ to_sender_queue' = Append(to_sender_queue, head)
            /\ residual' = residual \o Tail(sent)
         \/ /\ out_stage = 2 /\ out_stage' = 2
            /\ residual' = residual \o sent
            /\ to_sender_queue' = to_sender_queue
         \/ /\ out_stage = 0 /\ out_stage' = 0
            /\ to_sender_queue' = to_sender_queue \o sent
            /\ residual' = residual
  BY DEF MessagesSent, Encrypt, Ciphertext, HandleClientSend
<1>7. head \in Item /\ head.n = k + 1
  BY <1>2, UnitType DEF Tags
<1> HIDE DEF sent, head, k
<1>8. CASE out_stage = 1
  <2> DEFINE more == <<head>> \o Tail(sent)
  <2>1. /\ Tail(sent) \in Seq(Item) /\ Len(Tail(sent)) = Len(sent) - 1
        /\ \A i \in 1..Len(Tail(sent)) : Tail(sent)[i] = sent[i + 1]
    BY <1>3, <1>4, HeadTailProperties
  <2>2. <<head>> \in Seq(Item) /\ Len(<<head>>) = 1 /\ <<head>>[1] = head
    BY <1>7
  <2>3. /\ more \in Seq(Item) /\ Len(more) = 1 + Len(Tail(sent))
        /\ \A i \in 1..(1 + Len(Tail(sent))) :
              more[i] = IF i <= 1 THEN <<head>>[i] ELSE Tail(sent)[i - 1]
    BY <2>1, <2>2, ConcatProperties
  <2>4. ASSUME NEW i \in 1..Len(more)
        PROVE  more[i].n = k + i
    <3>1. CASE i = 1
      BY <1>7, <2>2, <2>3, <3>1
    <3>2. CASE i # 1
      <4>1. i - 1 \in 1..Len(Tail(sent)) /\ i \in 1..Len(sent)
        BY <1>2, <1>3, <2>1, <2>3, <3>2
      <4>2. more[i] = sent[i]
        BY <2>1, <2>3, <3>2, <4>1
      <4>3. QED
        BY <1>3, <4>1, <4>2
    <3>3. QED
      BY <3>1, <3>2
  <2>5. Stream = old /\ Stream' = (at_sender \o (to_sender_queue \o <<head>>)) \o Tail(sent)
    <3>1. Held = <<>> /\ Held' = Tail(sent)
      BY <1>6, <1>8, <2>1, ConcatEmptySeq DEF Held
    <3>2. to_sender_queue' = to_sender_queue \o <<head>>
      <4>1. to_sender_queue' = Append(to_sender_queue, head)
        BY <1>6, <1>8
      <4>2. QED
        BY <1>1, <1>7, <4>1, AppendIsConcat
    <3>3. QED
      BY <1>5, <1>6, <3>1, <3>2, ConcatEmptySeq DEF Stream
  <2>6. Stream' = Stream \o more
    <3>1. at_sender \o (to_sender_queue \o <<head>>) = old \o <<head>>
      <4>1. /\ at_sender \in Seq(Item) /\ to_sender_queue \in Seq(Item)
            /\ <<head>> \in Seq(Item)
        BY <1>1, <2>2
      <4>2. QED
        BY ONLY <4>1, UnitsAssociative
    <3>2. (old \o <<head>>) \o Tail(sent) = old \o more
      BY <1>5, <2>1, <2>2, UnitsAssociative
    <3>3. QED
      BY <2>5, <3>1, <3>2
  <2>7. Len(more) = Len(msgs)
    BY <1>2, <1>3, <2>1, <2>3
  <2> HIDE DEF more
  <2>8. QED
    BY <2>3, <2>4, <2>6, <2>7 DEF k
<1>9. CASE out_stage = 2
  <2>1. /\ out_stage' = 2 /\ residual' = residual \o sent
        /\ to_sender_queue' = to_sender_queue /\ at_sender' = at_sender
    BY <1>6, <1>9
  <2>2. Held = residual /\ Held' = residual \o sent
    BY <1>9, <2>1 DEF Held
  <2>3. Stream = old \o residual /\ Stream' = old \o (residual \o sent)
    BY <2>1, <2>2 DEF Stream
  <2>4. (old \o residual) \o sent = old \o (residual \o sent)
    <3>1. old \in Seq(Item) /\ residual \in Seq(Item) /\ sent \in Seq(Item)
      BY <1>1, <1>3, <1>5
    <3> HIDE DEF old
    <3>2. QED
      BY <3>1, UnitsAssociative
  <2>5. Stream' = Stream \o sent
    BY <2>3, <2>4
  <2>6. QED
    BY <1>3, <2>5 DEF k
<1>10. CASE out_stage = 0
  <2>1. /\ out_stage' = 0 /\ to_sender_queue' = to_sender_queue \o sent
        /\ at_sender' = at_sender
    BY <1>6, <1>10
  <2>2. Held = <<>> /\ Held' = <<>>
    BY <1>10, <2>1 DEF Held
  <2>3. (at_sender \o to_sender_queue) \o sent = at_sender \o (to_sender_queue \o sent)
    <3>1. sent \in Seq(Item) /\ at_sender \in Seq(Item) /\ to_sender_queue \in Seq(Item)
      BY <1>1, <1>3
    <3>2. QED
      BY ONLY <3>1, UnitsAssociative
  <2>4. old \o sent \in Seq(Item)
    BY <1>3, <1>5, ConcatProperties
  <2>5. Stream = old /\ Stream' = old \o sent
    <3>1. Stream' = (at_sender \o (to_sender_queue \o sent)) \o <<>>
      BY <2>1, <2>2 DEF Stream
    <3>2. Stream' = (old \o sent) \o <<>>
      BY <2>3, <3>1
    <3>3. QED
      BY <1>5, <2>2, <2>4, <3>2, ConcatEmptySeq DEF Stream
  <2>6. QED
    BY <1>3, <2>5 DEF k
<1>11. QED
  BY <1>1, <1>8, <1>9, <1>10

LEMMA InitWire == Init => WireInv
<1> SUFFICES ASSUME Init PROVE WireInv
  OBVIOUS
<1>1. /\ at_sender = <<>> /\ to_sender_queue = <<>> /\ residual = <<>>
      /\ encrypted = <<>> /\ sender = "none" /\ sender_task = FALSE
  BY DEF Init, TcpInit
<1>2. Held = <<>>
  BY <1>1 DEF Held
<1>3. (<<>> \o <<>>) \o <<>> = <<>> /\ <<>> \o <<>> = <<>>
  OBVIOUS
<1>4. WireOrder
  BY <1>1, <1>2, <1>3 DEF WireOrder, Numbered
<1>5. (~Obfs => out_stage = 0) /\ (Unrequested => out_stage # 0)
  BY DEF Init, Unrequested
<1>6. QED
  BY <1>1, <1>4, <1>5 DEF WireInv

(* WireOrder is about the stream.                                          *)
LEMMA WireOrderStream ==
    WireOrder <=>
        /\ Numbered(at_sender)
        /\ Unrequested => at_sender \o to_sender_queue = <<>>
        /\ ~Unrequested /\ sender \in {"none", "open"} =>
               Len(Stream) = Len(encrypted) /\ Numbered(Stream)
BY DEF WireOrder, Stream

(* Where no request can be built, what could leave is empty.               *)
LEMMA NothingLeaves ==
    ASSUME TypeOK, WireInv, Unrequested
    PROVE  at_sender = <<>> /\ to_sender_queue = <<>>
<1>1. at_sender \o to_sender_queue = <<>>
  BY DEF WireInv, WireOrder
<1>2. at_sender \in Seq(Item) /\ to_sender_queue \in Seq(Item)
  BY DEF TypeOK, TcpTypeOK
<1>3. QED
  BY <1>1, <1>2, ConcatEqualIffEmpty

(* A step that leaves the stream and the connection alone keeps WireInv.   *)
LEMMA WireUnchanged ==
    ASSUME WireInv, UNCHANGED <<at_sender, to_sender_queue, encrypted, out_stage, residual>>,
           UNCHANGED <<dns, sender, sender_task>>
    PROVE  WireInv'
BY DEF WireInv, WireOrder, Held, Numbered, Unrequested

LEMMA TcpNextWire ==
    ASSUME TypeOK, WireInv, TcpNext, UNCHANGED clientVars
    PROVE  WireInv'
<1> USE DEF clientVars, cryptVars, localVars, senderVars
<1>0. Unrequested => at_sender' \o to_sender_queue' = <<>>
  <2> SUFFICES ASSUME Unrequested PROVE at_sender' \o to_sender_queue' = <<>>
    OBVIOUS
  <2>1. at_sender = <<>> /\ to_sender_queue = <<>> /\ <<>> \o <<>> = <<>>
    BY NothingLeaves
  <2>2. at_sender' = <<>> /\ to_sender_queue' = <<>>
    BY <2>1, TcpNextFrame
  <2>3. QED
    BY <2>1, <2>2
<1>1. CASE ResolveDns \/ ResolveDnsFails \/ CreateSender \/ CreateSenderFails
  <2>1. /\ sender \in {"none", "open"} \/ sender' = sender
        /\ UNCHANGED <<at_sender, to_sender_queue, encrypted, out_stage, residual>>
        /\ sender = "none" => ~sender_task
        /\ dns \in {"resolving", "connecting"}
        /\ sender = "none"
    BY <1>1 DEF ResolveDns, ResolveDnsFails, CreateSender, CreateSenderFails, WireInv
  <2>2. WireOrder'
    BY <2>1 DEF WireInv, WireOrder, Held, Numbered, Unrequested
  <2>3. QED
    BY <1>1, <2>1, <2>2
    DEF ResolveDns, ResolveDnsFails, CreateSender, CreateSenderFails, WireInv, Unrequested
<1>2. CASE SendToSender
  <2>1. /\ to_sender_queue' = <<>>
        /\ at_sender' = IF sender = "open" THEN at_sender \o to_sender_queue ELSE at_sender
        /\ sender # "none"
        /\ UNCHANGED <<encrypted, out_stage, residual, dns, sender, sender_task>>
    BY <1>2 DEF SendToSender, WireInv
  <2>2. at_sender \in Seq(Item) /\ to_sender_queue \in Seq(Item)
    BY DEF TypeOK, TcpTypeOK
  <2>3. CASE sender = "open"
    <3>1. at_sender \o to_sender_queue \in Seq(Item) /\ Held \in Seq(Item)
      BY StreamType
    <3>2. (at_sender \o to_sender_queue) \o <<>> = at_sender \o to_sender_queue
      BY <3>1, ConcatEmptySeq
    <3>3. Held' = Held
      BY <2>1 DEF Held
    <3>4. Stream' = Stream
      BY <2>1, <2>3, <3>2, <3>3 DEF Stream
    <3>5. ~Unrequested => Len(Stream) = Len(encrypted) /\ Numbered(Stream)
      BY <2>3, WireOrderStream DEF WireInv
    <3>6. Numbered(at_sender')
      <4>1. CASE Unrequested
        <5>1. at_sender = <<>> /\ to_sender_queue = <<>> /\ <<>> \o <<>> = <<>>
          BY <4>1, NothingLeaves
        <5>2. at_sender' = <<>>
          BY <2>1, <2>3, <5>1
        <5>3. QED
          BY <5>2 DEF Numbered
      <4>2. CASE ~Unrequested
        BY <2>1, <2>3, <3>1, <3>5, <4>2, NumberedPrefix DEF Stream
      <4>3. QED
        BY <4>1, <4>2
    <3>7. ~Unrequested => Len(Stream') = Len(encrypted') /\ Numbered(Stream')
      BY <2>1, <3>4, <3>5
    <3>8. WireOrder'
      BY <1>0, <3>6, <3>7 DEF WireOrder, Stream, Numbered, Unrequested
    <3>9. QED
      BY <2>1, <3>8 DEF WireInv, Unrequested
  <2>4. CASE sender # "open"
    BY <1>0, <2>1, <2>4 DEF WireInv, WireOrder, Numbered, Unrequested
  <2>5. QED
    BY <2>3, <2>4
<1>3. CASE SendToLocal \/ LocalEof \/ LocalError \/ LocalLost
  BY <1>3, WireUnchanged DEF SendToLocal, LocalEof, LocalError, LocalLost
<1>4. CASE SenderEof \/ SenderError \/ SenderLost
  BY <1>4 DEF SenderEof, SenderError, SenderLost, WireInv, WireOrder, Numbered, Held,
              Unrequested
<1>5. QED
  BY <1>1, <1>2, <1>3, <1>4 DEF TcpNext, Tasks, Callbacks

(* A handler that sends something outbound keeps WireInv.                  *)
LEMMA MessagesSentWire ==
    ASSUME TypeOK, WireInv, ~(out_stage = 1 /\ HashParam),
           NEW msgs \in Seq(Item), msgs # <<>>, MessagesSent(msgs)
    PROVE  WireInv'
<1>1. PICK more \in Seq(Item) :
              /\ Stream' = Stream \o more
              /\ Len(more) = Len(msgs)
              /\ \A i \in 1..Len(more) : more[i].n = Len(encrypted) + i
  BY MessagesSentStream DEF WireInv
<1>2. /\ UNCHANGED <<dns, sender, sender_task, at_sender>>
      /\ encrypted' = encrypted \o msgs
      /\ out_stage' # 1
      /\ out_stage' = 0 <=> out_stage = 0
      /\ out_stage = 2 => to_sender_queue' = to_sender_queue
  BY DEF MessagesSent, Encrypt, Ciphertext, HandleClientSend, TypeOK, ClientTypeOK
<1>3. Len(encrypted') = Len(encrypted) + Len(msgs)
  BY <1>2, ConcatProperties DEF TypeOK, TcpTypeOK
<1>4. Numbered(at_sender)'
  BY <1>2 DEF WireInv, WireOrder, Numbered
<1>5. ASSUME sender \in {"none", "open"}, ~Unrequested
      PROVE  Len(Stream') = Len(encrypted') /\ Numbered(Stream')
  <2>1. Len(Stream) = Len(encrypted) /\ Numbered(Stream)
    BY <1>5, WireOrderStream DEF WireInv
  <2>2. Numbered(Stream \o more) /\ Len(Stream \o more) = Len(Stream) + Len(more)
    <3>1. Stream \in Seq(Item)
      BY StreamType
    <3>2. /\ Numbered(Stream) /\ more \in Seq(Item)
          /\ \A i \in 1..Len(more) : more[i].n = Len(Stream) + i
      BY <1>1, <2>1
    <3> HIDE DEF Stream
    <3>3. QED
      BY <3>1, <3>2, NumberedConcat
  <2>3. QED
    BY <1>1, <1>3, <2>1, <2>2
(* The answer to a request that cannot be built is awaited for ever.       *)
<1>6. Unrequested => at_sender' \o to_sender_queue' = <<>>
  <2>1. Unrequested => out_stage = 2
    BY DEF WireInv, Unrequested, TypeOK, ClientTypeOK
  <2>2. QED
    BY <1>2, <2>1 DEF WireInv, WireOrder
<1>7. WireOrder'
  BY <1>2, <1>4, <1>5, <1>6 DEF WireOrder, Stream, Numbered, Unrequested
<1>8. QED
  BY <1>2, <1>7 DEF WireInv, Unrequested

LEMMA RequestRaisesWire ==
    ASSUME TypeOK, WireInv, out_stage = 1, HashParam,
           NEW msgs \in Seq(Item), msgs # <<>>, RequestRaises(msgs)
    PROVE  WireInv'
<1>1. Obfs /\ Unrequested
  BY DEF WireInv, Unrequested
<1>2. /\ out_stage' = 2
      /\ UNCHANGED <<dns, sender, sender_task, to_sender_queue, at_sender, residual>>
  BY RaisedRequest
<1>3. QED
  BY <1>1, <1>2 DEF WireInv, WireOrder, Numbered, Unrequested

LEMMA SendOutboundWire ==
    ASSUME TypeOK, WireInv,
           NEW msgs \in Seq(Item), msgs # <<>>, SendOutbound(msgs)
    PROVE  WireInv'
BY MessagesSentWire, RequestRaisesWire DEF SendOutbound

LEMMA LocalStepWire ==
    ASSUME TypeOK, WireInv, NEW u \in Item, LocalStep(u)
    PROVE  WireInv'
<1>1. ASSUME NothingOutbound PROVE WireInv'
  BY <1>1, WireUnchanged DEF NothingOutbound, senderVars, cryptVars
<1>2. Addr \in Item /\ Wrong \in Item
  BY UnitType DEF Addr, Wrong, Tags
<1>3. \A a \in Item : <<a>> \in Seq(Item) /\ <<a>> # <<>>
  OBVIOUS
<1>4. \A a, b \in Item : <<a, b>> \in Seq(Item) /\ <<a, b>> # <<>>
  OBVIOUS
<1>5. ASSUME NEW addr \in {Addr, Wrong}, Socks5Connect(addr) \/ HttpConnect(addr)
      PROVE  WireInv'
  BY <1>2, <1>3, <1>5, SendOutboundWire DEF Socks5Connect, HttpConnect
<1>6. ASSUME NEW addr \in {Addr, Wrong}, HttpRequest(addr, u)
      PROVE  WireInv'
  BY <1>2, <1>4, <1>6, SendOutboundWire DEF HttpRequest
<1>7. CASE RelayToSender(u)
  BY <1>2, <1>3, <1>7, SendOutboundWire DEF RelayToSender
<1>8. CASE Socks5Greeting \/ Socks5GreetingRefused \/ UnknownProtocol
           \/ Socks5ConnectFails \/ Socks5RequestFails \/ Socks5Refused
           \/ Socks5UdpAssociate
  BY <1>1, <1>8 DEF Socks5Greeting, Socks5GreetingRefused, UnknownProtocol,
        Socks5ConnectFails, Socks5RequestFails, Socks5Refused, Socks5UdpAssociate
<1>9. CASE HttpConnectFails \/ HttpRequestRefused \/ HttpRequestFails
  BY <1>1, <1>9 DEF HttpConnectFails, HttpRequestRefused, HttpRequestFails
<1>10. QED
  BY <1>5, <1>6, <1>7, <1>8, <1>9 DEF LocalStep

LEMMA SenderStepWire ==
    ASSUME TypeOK, WireInv, at_sender # <<>>, NEW us \in Seq(Item), SenderStep(us)
    PROVE  WireInv'
<1>0. ~Unrequested
  BY NothingLeaves
<1>1. CASE ServerResponded
  <2>1. /\ out_stage = 2 /\ out_stage' = 0
        /\ to_sender_queue' = to_sender_queue \o residual
        /\ UNCHANGED <<at_sender, encrypted, dns, sender, sender_task, residual>>
    BY <1>1 DEF ServerResponded, cryptVars
  <2>2. at_sender \in Seq(Item) /\ to_sender_queue \in Seq(Item) /\ residual \in Seq(Item)
    BY DEF TypeOK, TcpTypeOK, ClientTypeOK
  <2>3. Held = residual /\ Held' = <<>>
    BY <2>1 DEF Held
  <2>4. Stream' = Stream
    <3>1. at_sender \o (to_sender_queue \o residual) = (at_sender \o to_sender_queue) \o residual
      BY <2>2, UnitsAssociative
    <3>2. Stream = (at_sender \o to_sender_queue) \o residual
      BY <2>3 DEF Stream
    <3>3. Stream' = (at_sender \o (to_sender_queue \o residual)) \o <<>>
      BY <2>1, <2>3 DEF Stream
    <3>4. Stream' = Stream \o <<>>
      BY <3>1, <3>2, <3>3
    <3>5. QED
      BY <3>4, StreamType, ConcatEmptySeq
  <2>5. WireOrder'
    <3>1. Numbered(at_sender')
      BY <2>1 DEF WireInv, WireOrder
    <3>2. sender' \in {"none", "open"} => Len(Stream') = Len(encrypted') /\ Numbered(Stream')
      BY <2>1, <2>4, WireOrderStream DEF WireInv
    <3>3. QED
      BY <1>0, <3>1, <3>2 DEF WireOrder, Stream, Numbered, Unrequested
  <2>6. QED
    BY <1>0, <2>1, <2>5 DEF WireInv, Unrequested
<1>2. CASE RelayToLocal(us)
  BY <1>2, WireUnchanged DEF RelayToLocal, senderVars, clientVars
<1>3. CASE DecryptFails(us)
  <2>1. /\ UNCHANGED <<at_sender, to_sender_queue, encrypted, out_stage, residual, dns>>
        /\ sender = "open" /\ sender' \in {"open", "closing"} /\ sender_task' = sender_task
    BY <1>3 DEF DecryptFails, clientVars
  <2>2. QED
    BY <2>1 DEF WireInv, WireOrder, Held, Numbered, Unrequested
<1>4. QED
  BY <1>1, <1>2, <1>3 DEF SenderStep

(* The inductive invariant behind WireOrder.                               *)
THEOREM WireInvariant == Spec => []WireInv
<1>1. TypeOK /\ WireInv /\ [Next]_vars => WireInv'
  <2> SUFFICES ASSUME TypeOK, WireInv, [Next]_vars
               PROVE  WireInv'
    OBVIOUS
  <2>1. CASE DataFromLocal
    BY <2>1, DataFromLocalStep, LocalStepWire
  <2>2. CASE DataFromSender
    BY <2>2, DataFromSenderStep, SenderStepWire
  <2>3. CASE TcpNext /\ UNCHANGED clientVars
    BY <2>3, TcpNextWire
  <2>4. CASE UNCHANGED vars
    BY <2>4, WireUnchanged DEF vars, tcpVars, clientVars
  <2>5. QED
    BY <2>1, <2>2, <2>3, <2>4 DEF Next
<1>2. QED
  BY <1>1, InitWire, TypeCorrect, PTL DEF Spec

(* The cipher units reach the sender's socket in the order they were       *)
(* encrypted and none is lost while the sender lives, through the residual *)
(* list, the queue and the task, for any number of messages; unless the    *)
(* request of the first cannot be built, and then nothing reaches it.      *)
THEOREM WireInOrder == Spec => []WireOrder
<1>1. WireInv => WireOrder
  BY DEF WireInv
<1>2. QED
  BY <1>1, WireInvariant, PTL

-----------------------------------------------------------------------------
(* What the units on the wire are, for the composition with a server.      *)

OfKind(s) == \A i \in DOMAIN s : s[i].tag = IF s[i].n = 1 THEN "head" ELSE "cipher"

(* Behind http_simple unit 1 travels in the HTTP request and the others as *)
(* they are, and no more is on the wire than was encrypted.                *)
KindInv ==
    /\ Len(at_sender) <= Len(encrypted)
    /\ Obfs => /\ out_stage = 1 <=> encrypted = <<>>
               /\ OfKind(at_sender) /\ OfKind(to_sender_queue) /\ OfKind(residual)

LEMMA OfKindConcat ==
    ASSUME NEW s \in Seq(Item), NEW t \in Seq(Item), OfKind(s), OfKind(t)
    PROVE  OfKind(s \o t)
<1>1. SUFFICES ASSUME NEW i \in DOMAIN (s \o t)
               PROVE  (s \o t)[i].tag = IF (s \o t)[i].n = 1 THEN "head" ELSE "cipher"
  BY DEF OfKind
<1>2. \/ \E j \in DOMAIN s : (s \o t)[i] = s[j]
      \/ \E j \in DOMAIN t : (s \o t)[i] = t[j]
  BY ConcatItems
<1>3. QED
  BY <1>2 DEF OfKind

LEMMA MessagesSentKind ==
    ASSUME TypeOK, WireInv, KindInv,
           NEW msgs \in Seq(Item), msgs # <<>>, MessagesSent(msgs)
    PROVE  KindInv'
<1> DEFINE k    == Len(encrypted)
           sent == Units("cipher", k, Len(msgs))
           head == Unit("head", k + 1)
<1>1. /\ encrypted \in Seq(Item) /\ to_sender_queue \in Seq(Item)
      /\ residual \in Seq(Item) /\ at_sender \in Seq(Item) /\ out_stage \in {0, 1, 2}
      /\ k \in Nat /\ Len(msgs) \in Nat /\ Len(msgs) # 0 /\ Len(at_sender) \in Nat
  BY DEF TypeOK, TcpTypeOK, ClientTypeOK
<1>2. /\ sent \in Seq(Item) /\ Len(sent) = Len(msgs) /\ DOMAIN sent = 1..Len(msgs)
      /\ \A i \in 1..Len(msgs) : sent[i].n = k + i /\ sent[i].tag = "cipher"
  <2>1. "cipher" \in Tags
    BY DEF Tags
  <2>2. sent \in Seq(Item) /\ Len(sent) = Len(msgs)
    BY <1>1, <2>1, UnitsType
  <2>3. \A i \in 1..Len(msgs) : sent[i].n = k + i /\ sent[i].tag = "cipher"
    BY DEF Units, Unit
  <2>4. QED
    BY <2>2, <2>3, LenProperties
<1>3. /\ encrypted' = encrypted \o msgs /\ at_sender' = at_sender
      /\ \/ /\ out_stage = 1 /\ out_stage' = 2
            /\ to_sender_queue' = Append(to_sender_queue, head)
            /\ residual' = residual \o Tail(sent)
         \/ /\ out_stage = 2 /\ out_stage' = 2
            /\ residual' = residual \o sent
            /\ to_sender_queue' = to_sender_queue
         \/ /\ out_stage = 0 /\ out_stage' = 0
            /\ to_sender_queue' = to_sender_queue \o sent
            /\ residual' = residual
  BY DEF MessagesSent, Encrypt, Ciphertext, HandleClientSend
<1>4. head \in Item /\ head.n = k + 1 /\ head.tag = "head"
  BY <1>1, UnitType DEF Tags
<1> HIDE DEF sent, head
<1>5. Len(encrypted') = k + Len(msgs) /\ encrypted' # <<>>
  <2>1. /\ encrypted \o msgs \in Seq(Item)
        /\ Len(encrypted \o msgs) = k + Len(msgs)
    BY <1>1, ConcatProperties
  <2>2. QED
    BY <1>1, <1>3, <2>1
<1>6. Len(at_sender') <= Len(encrypted')
  BY <1>1, <1>3, <1>5 DEF KindInv
<1>7. ASSUME Obfs
      PROVE  /\ OfKind(to_sender_queue') /\ OfKind(residual')
  <2>1. OfKind(to_sender_queue) /\ OfKind(residual) /\ (out_stage = 1 <=> k = 0)
    BY <1>1, <1>7, EmptySeq DEF KindInv
  <2>2. CASE out_stage = 1
    <3>1. /\ Tail(sent) \in Seq(Item) /\ Len(Tail(sent)) = Len(sent) - 1
          /\ \A i \in 1..Len(Tail(sent)) : Tail(sent)[i] = sent[i + 1]
      <4>1. sent # <<>>
        BY <1>1, <1>2
      <4>2. QED
        BY <1>2, <4>1, HeadTailProperties
    <3>2. OfKind(Tail(sent))
      <4>1. DOMAIN Tail(sent) = 1..(Len(msgs) - 1)
        BY <1>2, <3>1, LenProperties
      <4>2. ASSUME NEW i \in 1..(Len(msgs) - 1)
            PROVE  Tail(sent)[i].tag = "cipher" /\ Tail(sent)[i].n # 1
        <5>1. i + 1 \in 1..Len(msgs) /\ i \in 1..Len(Tail(sent)) /\ k + (i + 1) # 1
          BY <1>1, <1>2, <3>1
        <5>2. QED
          BY <1>2, <3>1, <5>1
      <4>3. QED
        BY <4>1, <4>2 DEF OfKind
    <3>3. <<head>> \in Seq(Item) /\ OfKind(<<head>>)
      <4>1. head.n = 1
        BY <1>4, <2>1, <2>2
      <4>2. QED
        BY <1>4, <4>1 DEF OfKind
    <3>4. to_sender_queue' = to_sender_queue \o <<head>>
      <4>1. to_sender_queue' = Append(to_sender_queue, head)
        BY <1>3, <2>2
      <4>2. QED
        BY <1>1, <1>4, <4>1, AppendIsConcat
    <3>5. residual' = residual \o Tail(sent)
      BY <1>3, <2>2
    <3>6. OfKind(to_sender_queue \o <<head>>) /\ OfKind(residual \o Tail(sent))
      BY <1>1, <2>1, <3>1, <3>2, <3>3, OfKindConcat
    <3>7. QED
      BY <3>4, <3>5, <3>6
  <2>3. CASE out_stage # 1
    <3>1. OfKind(sent)
      <4>1. \A i \in 1..Len(msgs) : sent[i].n # 1 /\ sent[i].tag = "cipher"
        BY <1>1, <1>2, <2>1, <2>3
      <4>2. QED
        BY <1>2, <4>1 DEF OfKind
    <3>2. OfKind(to_sender_queue \o sent) /\ OfKind(residual \o sent)
      BY <1>1, <1>2, <2>1, <3>1, OfKindConcat
    <3>3. QED
      BY <1>3, <2>1, <2>3, <3>2
  <2>4. QED
    BY <2>2, <2>3
<1>8. Obfs => OfKind(at_sender')
  BY <1>3 DEF KindInv
<1>9. out_stage' # 1
  BY <1>3
<1>10. QED
  BY <1>5, <1>6, <1>7, <1>8, <1>9 DEF KindInv, OfKind

LEMMA RequestRaisesKind ==
    ASSUME TypeOK, KindInv,
           NEW msgs \in Seq(Item), msgs # <<>>, RequestRaises(msgs)
    PROVE  KindInv'
<1>1. /\ Len(encrypted') = Len(encrypted) + 1 /\ encrypted' # <<>>
      /\ out_stage' = 2
      /\ UNCHANGED <<to_sender_queue, at_sender, residual>>
  BY RaisedRequest
<1>2. Len(at_sender) \in Nat /\ Len(encrypted) \in Nat
  BY DEF TypeOK, TcpTypeOK
<1>3. Len(at_sender') <= Len(encrypted')
  BY <1>1, <1>2 DEF KindInv
<1>4. QED
  BY <1>1, <1>3 DEF KindInv, OfKind

LEMMA SendOutboundKind ==
    ASSUME TypeOK, WireInv, KindInv,
           NEW msgs \in Seq(Item), msgs # <<>>, SendOutbound(msgs)
    PROVE  KindInv'
BY MessagesSentKind, RequestRaisesKind DEF SendOutbound

LEMMA KindUnchanged ==
    ASSUME KindInv, UNCHANGED <<at_sender, to_sender_queue, encrypted, out_stage, residual>>
    PROVE  KindInv'
BY DEF KindInv, OfKind

LEMMA LocalStepKind ==
    ASSUME TypeOK, WireInv, KindInv, NEW u \in Item, LocalStep(u)
    PROVE  KindInv'
<1>1. ASSUME NothingOutbound PROVE KindInv'
  BY <1>1, KindUnchanged DEF NothingOutbound, senderVars, cryptVars
<1>2. Addr \in Item /\ Wrong \in Item
  BY UnitType DEF Addr, Wrong, Tags
<1>3. \A a, b \in Item : /\ <<a>> \in Seq(Item) /\ <<a>> # <<>>
                         /\ <<a, b>> \in Seq(Item) /\ <<a, b>> # <<>>
  OBVIOUS
<1>4. ASSUME NEW addr \in {Addr, Wrong},
             Socks5Connect(addr) \/ HttpConnect(addr) \/ HttpRequest(addr, u)
      PROVE  KindInv'
  BY <1>2, <1>3, <1>4, SendOutboundKind DEF Socks5Connect, HttpConnect, HttpRequest
<1>5. CASE RelayToSender(u)
  BY <1>3, <1>5, SendOutboundKind DEF RelayToSender
<1>6. CASE Socks5Greeting \/ Socks5GreetingRefused \/ UnknownProtocol
           \/ Socks5ConnectFails \/ Socks5RequestFails \/ Socks5Refused
           \/ Socks5UdpAssociate
  BY <1>1, <1>6 DEF Socks5Greeting, Socks5GreetingRefused, UnknownProtocol,
        Socks5ConnectFails, Socks5RequestFails, Socks5Refused, Socks5UdpAssociate
<1>7. CASE HttpConnectFails \/ HttpRequestRefused \/ HttpRequestFails
  BY <1>1, <1>7 DEF HttpConnectFails, HttpRequestRefused, HttpRequestFails
<1>8. QED
  BY <1>4, <1>5, <1>6, <1>7 DEF LocalStep

(* The response comes when a request was made.                             *)
LEMMA SenderStepKind ==
    ASSUME TypeOK, KindInv, NEW us \in Seq(Item), SenderStep(us)
    PROVE  KindInv'
<1>1. CASE ServerResponded
  <2>1. /\ out_stage = 2 /\ out_stage' = 0
        /\ to_sender_queue' = to_sender_queue \o residual
        /\ UNCHANGED <<at_sender, encrypted, residual>>
    BY <1>1 DEF ServerResponded, cryptVars
  <2>2. Obfs => OfKind(to_sender_queue \o residual)
    BY OfKindConcat DEF KindInv, TypeOK, TcpTypeOK, ClientTypeOK
  <2>3. QED
    BY <2>1, <2>2 DEF KindInv, OfKind
<1>2. CASE RelayToLocal(us) \/ DecryptFails(us)
  BY <1>2, KindUnchanged DEF RelayToLocal, DecryptFails, senderVars, clientVars
<1>3. QED
  BY <1>1, <1>2 DEF SenderStep

LEMMA TcpNextKind ==
    ASSUME TypeOK, WireInv, KindInv, TcpNext, UNCHANGED clientVars
    PROVE  KindInv'
<1>1. /\ UNCHANGED <<encrypted, out_stage, residual>>
      /\ to_sender_queue' \in {to_sender_queue, <<>>}
      /\ \/ at_sender' = at_sender
         \/ sender = "open" /\ at_sender' = at_sender \o to_sender_queue
  BY TcpNextFrame DEF cryptVars, clientVars
<1>2. at_sender \in Seq(Item) /\ to_sender_queue \in Seq(Item)
  BY DEF TypeOK, TcpTypeOK
<1>3. Len(at_sender') <= Len(encrypted)
  <2>1. CASE at_sender' = at_sender
    BY <2>1 DEF KindInv
  <2>2. CASE sender = "open" /\ at_sender' = at_sender \o to_sender_queue
    <3>1. ~Unrequested => Len(Stream) = Len(encrypted)
      BY <2>2, WireOrderStream DEF WireInv
    <3>2. at_sender \o to_sender_queue \in Seq(Item) /\ Held \in Seq(Item)
      BY StreamType
    <3>3. Len(Stream) = Len(at_sender \o to_sender_queue) + Len(Held)
      BY <3>2, ConcatProperties DEF Stream
    <3>4. Len(at_sender \o to_sender_queue) \in Nat /\ Len(Held) \in Nat
      BY <3>2
    <3>5. Len(at_sender \o to_sender_queue) <= Len(encrypted)
      <4>1. CASE Unrequested
        <5>1. at_sender \o to_sender_queue = at_sender
          BY <4>1, NothingLeaves
        <5>2. QED
          BY <5>1 DEF KindInv
      <4>2. CASE ~Unrequested
        BY <3>1, <3>3, <3>4, <4>2
      <4>3. QED
        BY <4>1, <4>2
    <3>6. QED
      BY <2>2, <3>5
  <2>3. QED
    BY <1>1, <2>1, <2>2
<1>4. ASSUME Obfs
      PROVE  OfKind(at_sender') /\ OfKind(to_sender_queue')
  <2>1. OfKind(at_sender) /\ OfKind(to_sender_queue)
    BY <1>4 DEF KindInv
  <2>2. OfKind(at_sender \o to_sender_queue) /\ OfKind(<<>>)
    BY <1>2, <2>1, OfKindConcat DEF OfKind
  <2>3. QED
    BY <1>1, <2>1, <2>2
<1>5. QED
  BY <1>1, <1>3, <1>4 DEF KindInv, OfKind

(* What the program's segments change of the two streams.                  *)
LEMMA LocalStepFrame ==
    ASSUME TypeOK, NEW u \in Item, LocalStep(u)
    PROVE  /\ UNCHANGED <<at_sender, at_local, deciphered, garbled>>
           /\ out_stage' = 0 <=> out_stage = 0
           /\ \E msgs \in Seq(Item) : encrypted' = encrypted \o msgs
<1>0. at_local' = at_local
  BY DEF LocalStep, Socks5Greeting, Socks5GreetingRefused, UnknownProtocol,
         Socks5Connect, HttpConnect, HttpRequest, Socks5ConnectFails,
         Socks5RequestFails, Socks5Refused, Socks5UdpAssociate, HttpConnectFails,
         HttpRequestRefused, HttpRequestFails, RelayToSender, ReplyToLocal, NoReply
<1>1. ASSUME NothingOutbound
      PROVE  /\ UNCHANGED <<at_sender, deciphered, garbled>>
             /\ out_stage' = 0 <=> out_stage = 0
             /\ \E msgs \in Seq(Item) : encrypted' = encrypted \o msgs
  <2>1. encrypted \o <<>> = encrypted /\ <<>> \in Seq(Item)
    BY ConcatEmptySeq, EmptySeq DEF TypeOK, TcpTypeOK
  <2>2. QED
    BY <1>1, <2>1 DEF NothingOutbound, senderVars, cryptVars
<1>2. ASSUME NEW msgs \in Seq(Item), msgs # <<>>, SendOutbound(msgs)
      PROVE  /\ UNCHANGED <<at_sender, deciphered, garbled>>
             /\ out_stage' = 0 <=> out_stage = 0
             /\ \E sent \in Seq(Item) : encrypted' = encrypted \o sent
  <2>1. CASE MessagesSent(msgs)
    BY <1>2, <2>1 DEF MessagesSent, Encrypt, HandleClientSend
  <2>2. CASE out_stage = 1 /\ RequestRaises(msgs)
    <3>1. /\ <<msgs[1]>> \in Seq(Item) /\ encrypted' = encrypted \o <<msgs[1]>>
          /\ out_stage' = 2
          /\ UNCHANGED <<at_sender, deciphered, garbled>>
      BY <1>2, <2>2, RaisedRequest
    <3>2. out_stage' # 0 /\ out_stage # 0
      BY <2>2, <3>1
    <3>3. \E sent \in Seq(Item) : encrypted' = encrypted \o sent
      BY <3>1, Zenon
    <3>4. QED
      BY <3>1, <3>2, <3>3
  <2>3. QED
    BY <1>2, <2>1, <2>2 DEF SendOutbound
<1>3. Addr \in Item /\ Wrong \in Item
  BY UnitType DEF Addr, Wrong, Tags
<1>4. \A a, b \in Item : /\ <<a>> \in Seq(Item) /\ <<a>> # <<>>
                         /\ <<a, b>> \in Seq(Item) /\ <<a, b>> # <<>>
  OBVIOUS
<1>5. ASSUME NEW addr \in {Addr, Wrong},
             Socks5Connect(addr) \/ HttpConnect(addr) \/ HttpRequest(addr, u)
      PROVE  SendOutbound(<<addr>>) \/ SendOutbound(<<addr, u>>)
  BY <1>5 DEF Socks5Connect, HttpConnect, HttpRequest
<1>6. CASE Socks5Greeting \/ Socks5GreetingRefused \/ UnknownProtocol
           \/ Socks5ConnectFails \/ Socks5RequestFails \/ Socks5Refused
           \/ Socks5UdpAssociate
  BY <1>0, <1>1, <1>6 DEF Socks5Greeting, Socks5GreetingRefused, UnknownProtocol,
        Socks5ConnectFails, Socks5RequestFails, Socks5Refused, Socks5UdpAssociate
<1>7. CASE HttpConnectFails \/ HttpRequestRefused \/ HttpRequestFails
  BY <1>0, <1>1, <1>7 DEF HttpConnectFails, HttpRequestRefused, HttpRequestFails
<1>8. CASE RelayToSender(u)
  BY <1>0, <1>2, <1>4, <1>8 DEF RelayToSender
<1>9. QED
  BY <1>0, <1>2, <1>3, <1>4, <1>5, <1>6, <1>7, <1>8 DEF LocalStep

(* Unit i of the stream travels as [head, 1] or [cipher, i].               *)
LEMMA UnitOnWire ==
    ASSUME TypeOK, WireInv, KindInv, Obfs, NEW i \in DOMAIN at_sender
    PROVE  at_sender[i] = Unit(IF i = 1 THEN "head" ELSE "cipher", i)
<1>1. at_sender[i].n = i
  BY DEF WireInv, WireOrder, Numbered
<1>2. at_sender[i].tag = IF i = 1 THEN "head" ELSE "cipher"
  BY <1>1 DEF KindInv, OfKind
<1>3. at_sender[i] \in Item
  BY DEF TypeOK, TcpTypeOK
<1>4. QED
  BY <1>1, <1>2, <1>3 DEF Item, Unit

-----------------------------------------------------------------------------
(* Silence after the end.                                                  *)

(* Nothing is encrypted, decrypted or queued once the accepted transport   *)
(* is closing: every handler asks for it, the tasks only empty the queues. *)
THEOREM QuietOnceClosed == Spec => ClosedIsQuiet
<1> DEFINE Quiet ==
       /\ UNCHANGED <<cryptVars, clientVars>>
       /\ to_local_queue' \in {to_local_queue, <<>>}
       /\ to_sender_queue' \in {to_sender_queue, <<>>}
<1>1. [Next]_vars => [transport # "open" => Quiet]_vars
  <2> SUFFICES ASSUME Next, transport # "open"
               PROVE  Quiet
    OBVIOUS
  <2>1. ~DataFromLocal
    BY DEF DataFromLocal, Socks5Greeting, Socks5GreetingRefused, UnknownProtocol,
           Socks5Connect, HttpConnect, HttpRequest, Socks5ConnectFails,
           Socks5RequestFails, Socks5Refused, Socks5UdpAssociate, HttpConnectFails,
           HttpRequestRefused, HttpRequestFails, RelayToSender
  <2>2. ~DataFromSender
    BY DEF DataFromSender, ServerResponded, RelayToLocal
  <2>3. TcpNext /\ UNCHANGED clientVars
    BY <2>1, <2>2 DEF Next
  <2>4. CASE Tasks
    BY <2>3, <2>4 DEF Tasks, ResolveDns, ResolveDnsFails, CreateSender,
                      CreateSenderFails, SendToSender, SendToLocal,
                      localVars, cryptVars, senderVars
  <2>5. CASE Callbacks
    BY <2>3, <2>5 DEF Callbacks, LocalEof, LocalError, LocalLost, SenderEof,
                      SenderError, SenderLost, localVars, cryptVars, senderVars
  <2>6. QED
    BY <2>3, <2>4, <2>5 DEF TcpNext
<1>2. QED
  BY <1>1, PTL DEF Spec, ClosedIsQuiet

-----------------------------------------------------------------------------
(* The handshake with the program comes before the stream to the server.   *)

(* The only way to the encryptor is through the end of the handshake, and  *)
(* the only way to the sender is through the encryptor.                    *)
ReadyInv ==
    /\ encrypted # <<>> => proto # "none" /\ stage = 0
    /\ encrypted = <<>> => at_sender = <<>> /\ to_sender_queue = <<>> /\ residual = <<>>

(* The kinds of handlers of the accepted transport: those that send        *)
(* messages outbound end in stage 0 of a protocol, and only the one for    *)
(* payload begins there.                                                   *)
LEMMA LocalStepCases ==
    ASSUME NEW u, LocalStep(u)
    PROVE  \/ /\ NothingOutbound
              /\ proto = "none" \/ stage = 6
           \/ /\ proto = "none" \/ stage = 6
              /\ proto' # "none" /\ stage' = 0
              /\ \E addr \in {Addr, Wrong} :
                     SendOutbound(<<addr>>) \/ SendOutbound(<<addr, u>>)
           \/ /\ proto # "none" /\ stage = 0
              /\ UNCHANGED <<proto, stage>>
              /\ SendOutbound(<<u>>)
<1>1. ASSUME NEW addr \in {Addr, Wrong},
             Socks5Connect(addr) \/ HttpConnect(addr) \/ HttpRequest(addr, u)
      PROVE  /\ proto = "none" \/ stage = 6
             /\ proto' # "none" /\ stage' = 0
             /\ SendOutbound(<<addr>>) \/ SendOutbound(<<addr, u>>)
  BY <1>1 DEF Socks5Connect, HttpConnect, HttpRequest
<1>2. CASE Socks5Greeting \/ Socks5GreetingRefused \/ UnknownProtocol
           \/ Socks5ConnectFails \/ Socks5RequestFails \/ Socks5Refused
           \/ Socks5UdpAssociate \/ HttpConnectFails \/ HttpRequestRefused
           \/ HttpRequestFails
  BY <1>2 DEF Socks5Greeting, Socks5GreetingRefused, UnknownProtocol,
        Socks5ConnectFails, Socks5RequestFails, Socks5Refused, Socks5UdpAssociate,
        HttpConnectFails, HttpRequestRefused, HttpRequestFails
<1>3. CASE RelayToSender(u)
  BY <1>3 DEF RelayToSender
<1>4. QED
  BY <1>1, <1>2, <1>3 DEF LocalStep

(* The messages of these handlers are items.                               *)
LEMMA Messages ==
    \A addr \in {Addr, Wrong}, u \in Item :
        /\ <<addr>> \in Seq(Item) /\ <<addr, u>> \in Seq(Item)
        /\ <<u>> \in Seq(Item)
<1>1. Addr \in Item /\ Wrong \in Item
  BY UnitType DEF Addr, Wrong, Tags
<1>2. QED
  BY <1>1

LEMMA SomethingEncrypted ==
    ASSUME TypeOK, NEW msgs \in Seq(Item), msgs # <<>>, SendOutbound(msgs)
    PROVE  encrypted' # <<>> /\ encrypted' # encrypted
<1>1. CASE MessagesSent(msgs)
  <2>1. encrypted' = encrypted \o msgs
    BY <1>1 DEF MessagesSent, Encrypt
  <2>2. QED
    BY <2>1, ConcatEqualIffEmpty DEF TypeOK, TcpTypeOK
<1>2. CASE RequestRaises(msgs)
  <2>1. Len(encrypted') = Len(encrypted) + 1 /\ encrypted' # <<>>
    BY <1>2, RaisedRequest
  <2>2. Len(encrypted) \in Nat
    BY DEF TypeOK, TcpTypeOK
  <2>3. QED
    BY <2>1, <2>2
<1>3. QED
  BY <1>1, <1>2 DEF SendOutbound

LEMMA LocalStepReady ==
    ASSUME TypeOK, ReadyInv, NEW u \in Item, LocalStep(u)
    PROVE  ReadyInv'
<1>1. ASSUME NEW msgs \in Seq(Item), msgs # <<>>, SendOutbound(msgs),
             proto' # "none", stage' = 0
      PROVE  ReadyInv'
  <2>1. encrypted' # <<>>
    BY <1>1, SomethingEncrypted
  <2>2. QED
    BY <1>1, <2>1 DEF ReadyInv
<1>2. CASE NothingOutbound /\ (proto = "none" \/ stage = 6)
  BY <1>2 DEF ReadyInv, NothingOutbound, senderVars, cryptVars
<1>3. \A addr \in {Addr, Wrong} :
         /\ <<addr>> \in Seq(Item) /\ <<addr, u>> \in Seq(Item)
         /\ <<u>> \in Seq(Item)
         /\ <<addr>> # <<>> /\ <<addr, u>> # <<>> /\ <<u>> # <<>>
  BY Messages
<1>4. QED
  BY <1>1, <1>2, <1>3, LocalStepCases

LEMMA SenderStepReady ==
    ASSUME TypeOK, ReadyInv, NEW us, SenderStep(us)
    PROVE  ReadyInv'
<1> USE DEF ReadyInv, clientVars, cryptVars, senderVars
<1>1. CASE ServerResponded
  <2>1. encrypted = <<>> => to_sender_queue \o residual = <<>>
    BY ConcatEqualIffEmpty DEF TypeOK, TcpTypeOK, ClientTypeOK
  <2>2. QED
    BY <1>1, <2>1 DEF ServerResponded
<1>2. CASE RelayToLocal(us)
  BY <1>2 DEF RelayToLocal
<1>3. CASE DecryptFails(us)
  BY <1>3 DEF DecryptFails
<1>4. QED
  BY <1>1, <1>2, <1>3 DEF SenderStep

LEMMA TcpNextReady ==
    ASSUME TypeOK, ReadyInv, TcpNext, UNCHANGED clientVars
    PROVE  ReadyInv'
<1>1. /\ UNCHANGED cryptVars
      /\ to_sender_queue' \in {to_sender_queue, <<>>}
      /\ at_sender' \in {at_sender, at_sender \o to_sender_queue}
  BY TcpNextFrame
<1>2. encrypted = <<>> => at_sender \o to_sender_queue = <<>>
  BY ConcatEqualIffEmpty DEF ReadyInv, TypeOK, TcpTypeOK
<1>3. QED
  BY <1>1, <1>2 DEF ReadyInv, cryptVars, clientVars

THEOREM ReadyInvariant == Spec => []ReadyInv
<1>1. Init => ReadyInv
  BY DEF Init, TcpInit, ReadyInv
<1>2. TypeOK /\ ReadyInv /\ [Next]_vars => ReadyInv'
  <2> SUFFICES ASSUME TypeOK, ReadyInv, [Next]_vars
               PROVE  ReadyInv'
    OBVIOUS
  <2>1. CASE DataFromLocal
    BY <2>1, DataFromLocalStep, LocalStepReady
  <2>2. CASE DataFromSender
    BY <2>2, SenderStepReady DEF DataFromSender, SenderStep
  <2>3. CASE TcpNext /\ UNCHANGED clientVars
    BY <2>3, TcpNextReady
  <2>4. CASE UNCHANGED vars
    BY <2>4 DEF vars, tcpVars, clientVars, ReadyInv
  <2>5. QED
    BY <2>1, <2>2, <2>3, <2>4 DEF Next
<1>3. QED
  BY <1>1, <1>2, TypeCorrect, PTL DEF Spec

(* Whatever comes back from the server finds the inbound protocol at the   *)
(* end of its handshake, so no payload is mistaken for the moment to       *)
(* answer.                                                                 *)
THEOREM InboundIsReady == Spec => []InboundReady
<1>1. ReadyInv => InboundReady
  BY DEF ReadyInv, InboundReady
<1>2. QED
  BY <1>1, ReadyInvariant, PTL

-----------------------------------------------------------------------------
(* The first message is the address.                                       *)

(* An open connection whose handshake has ended has sent its address: a    *)
(* handler that failed to has closed it.                                   *)
AddressInv ==
    /\ FirstIsAddress
    /\ transport = "open" /\ proto # "none" /\ stage = 0 => encrypted # <<>>

(* It needs an event loop that closes a transport whose handler raised;    *)
(* with one that goes on reading, the payload that follows a CONNECT that  *)
(* could not be packed is the first message.                               *)
THEOREM AddressInvariant ==
    ASSUME CloseOnError = TRUE
    PROVE  Spec => []AddressInv
<1>1. Init => AddressInv
  BY DEF Init, TcpInit, AddressInv, FirstIsAddress
<1>2. TypeOK /\ ReadyInv /\ AddressInv /\ [Next]_vars => AddressInv'
  <2> SUFFICES ASSUME TypeOK, ReadyInv, AddressInv, [Next]_vars
               PROVE  AddressInv'
    OBVIOUS
  <2>1. CASE DataFromLocal /\ NothingOutbound /\ (proto = "none" \/ stage = 6)
    <3>1. encrypted' = encrypted
      BY <2>1 DEF NothingOutbound, cryptVars
    <3>2. ~(transport' = "open" /\ proto' # "none" /\ stage' = 0)
      <4>1. ASSUME NEW msgs
            PROVE  ~(SendOutbound(msgs) /\ NothingOutbound /\ msgs # <<>> /\ msgs \in Seq(Item))
        <5>1. SUFFICES ASSUME SendOutbound(msgs), NothingOutbound, msgs # <<>>,
                              msgs \in Seq(Item)
                       PROVE  FALSE
          OBVIOUS
        <5>2. QED
          BY <5>1, SomethingEncrypted DEF NothingOutbound, cryptVars
      <4>2. \A addr \in {Addr, Wrong} :
               /\ ~SendOutbound(<<addr>>) /\ ~SendOutbound(<<addr, Unit("data", 0)>>)
               /\ ~SendOutbound(<<Unit("data", 0)>>)
        BY <2>1, <4>1, Messages, DataFromLocalStep
      <4>3. QED
        BY <2>1, <4>2
        DEF DataFromLocal, Socks5Greeting, Socks5GreetingRefused, UnknownProtocol,
            Socks5Connect, HttpConnect, HttpRequest, RelayToSender,
            Socks5ConnectFails, Socks5RequestFails, Socks5Refused, Socks5UdpAssociate,
            HttpConnectFails, HttpRequestRefused, HttpRequestFails, Raise
    <3>3. QED
      BY <3>1, <3>2 DEF AddressInv, FirstIsAddress
  <2>2. ASSUME NEW addr \in {Addr, Wrong}, proto = "none" \/ stage = 6,
               SendOutbound(<<addr>>) \/ SendOutbound(<<addr, Unit("data", 0)>>)
        PROVE  AddressInv'
    <3>1. encrypted = <<>>
      BY <2>2 DEF ReadyInv
    <3>2. <<>> \o <<addr>> = <<addr>> /\ <<>> \o <<addr, Unit("data", 0)>> = <<addr, Unit("data", 0)>>
      BY Messages, DataFromLocalStep, ConcatEmptySeq
    <3>3. encrypted' = <<addr>> \/ encrypted' = <<addr, Unit("data", 0)>>
      <4>1. <<addr>>[1] = addr /\ <<addr, Unit("data", 0)>>[1] = addr
        OBVIOUS
      <4>2. QED
        BY <2>2, <3>1, <3>2, <4>1
        DEF SendOutbound, MessagesSent, RequestRaises, Encrypt
    <3>4. QED
      BY <3>3 DEF AddressInv, FirstIsAddress, Addr, Wrong, Unit
  <2>3. CASE proto # "none" /\ stage = 0 /\ UNCHANGED <<proto, stage>>
             /\ SendOutbound(<<Unit("data", 0)>>) /\ transport = "open"
    <3> DEFINE u == Unit("data", 0)
    <3>1. encrypted' = encrypted \o <<u>> /\ <<u>> \in Seq(Item) /\ Len(<<u>>) = 1
          /\ <<u>>[1] = u /\ u \notin {Addr, Wrong}
      <4>1. u \notin {Addr, Wrong}
        BY DEF Unit, Addr, Wrong
      <4>2. QED
        BY <2>3, <4>1, Messages, DataFromLocalStep
        DEF SendOutbound, MessagesSent, RequestRaises, Encrypt
    <3>2. encrypted \in Seq(Item) /\ encrypted # <<>> /\ Len(encrypted) \in Nat
          /\ Len(encrypted) > 0 /\ DOMAIN encrypted = 1..Len(encrypted)
      BY <2>3, EmptySeq, LenProperties DEF AddressInv, TypeOK, TcpTypeOK
    <3> HIDE DEF u
    <3>3. /\ encrypted' \in Seq(Item) /\ Len(encrypted') = Len(encrypted) + 1
          /\ \A i \in 1..(Len(encrypted) + 1) :
                encrypted'[i] = IF i <= Len(encrypted) THEN encrypted[i]
                                                       ELSE <<u>>[i - Len(encrypted)]
      BY <3>1, <3>2, ConcatProperties
    <3>4. DOMAIN encrypted' = 1..(Len(encrypted) + 1)
      BY <3>3, LenProperties
    <3>5. ASSUME NEW i \in 1..(Len(encrypted) + 1)
          PROVE  (i = 1) <=> encrypted'[i] \in {Addr, Wrong}
      <4>1. CASE i <= Len(encrypted)
        BY <3>2, <3>3, <4>1 DEF AddressInv, FirstIsAddress
      <4>2. CASE i = Len(encrypted) + 1
        <5>1. encrypted'[i] = u
          BY <3>1, <3>2, <3>3, <4>2
        <5>2. QED
          BY <3>1, <3>2, <4>2, <5>1
      <4>3. i <= Len(encrypted) \/ i = Len(encrypted) + 1
        BY <3>2
      <4>4. QED
        BY <4>1, <4>2, <4>3
    <3>6. encrypted' # <<>>
      BY <3>2, <3>3
    <3>7. QED
      BY <3>4, <3>5, <3>6 DEF AddressInv, FirstIsAddress
  <2>4. CASE DataFromLocal
    <3>1. transport = "open"
      BY <2>4 DEF DataFromLocal, Socks5Greeting, Socks5GreetingRefused, UnknownProtocol,
           Socks5Connect, HttpConnect, HttpRequest, Socks5ConnectFails,
           Socks5RequestFails, Socks5Refused, Socks5UdpAssociate, HttpConnectFails,
           HttpRequestRefused, HttpRequestFails, RelayToSender
    <3>2. QED
      BY <2>1, <2>2, <2>3, <2>4, <3>1, DataFromLocalStep, LocalStepCases
  <2>5. CASE DataFromSender
    BY <2>5 DEF AddressInv, FirstIsAddress, DataFromSender, ServerResponded, RelayToLocal,
                localVars, cryptVars, clientVars
  <2>6. CASE TcpNext /\ UNCHANGED clientVars
    BY <2>6, TcpNextFrame DEF AddressInv, FirstIsAddress, cryptVars, clientVars
  <2>7. CASE UNCHANGED vars
    BY <2>7 DEF vars, tcpVars, clientVars, AddressInv, FirstIsAddress
  <2>8. QED
    BY <2>4, <2>5, <2>6, <2>7 DEF Next
<1>3. QED
  BY <1>1, <1>2, TypeCorrect, ReadyInvariant, PTL DEF Spec

(* The server takes the first message for the address, and it is one, and  *)
(* no later message is.                                                    *)
THEOREM AddressComesFirst ==
    ASSUME CloseOnError = TRUE
    PROVE  Spec => []FirstIsAddress
<1>1. AddressInv => FirstIsAddress
  BY DEF AddressInv
<1>2. QED
  BY <1>1, AddressInvariant, PTL

-----------------------------------------------------------------------------
(* Nothing but the request before the response.                            *)

(* A sequence begins with the request, if it holds anything.               *)
HeadFirst(s) == \A i \in DOMAIN s : i = 1 <=> s[i].tag = "head"
NoHead(s)    == \A i \in DOMAIN s : s[i].tag # "head"

(* Before the request nothing at all is on its way to the server; after    *)
(* the answer the request has left, so that nothing else comes first.      *)
HeldInv ==
    /\ out_stage = 1 => at_sender = <<>> /\ to_sender_queue = <<>>
    /\ Obfs => /\ HeadFirst(at_sender \o to_sender_queue)
               /\ NoHead(residual)
               /\ out_stage # 0 => Len(at_sender \o to_sender_queue) <= 1
               /\ out_stage = 0 => at_sender # <<>>

LEMMA HeadFirstPrefix ==
    ASSUME NEW s \in Seq(Item), NEW t \in Seq(Item), HeadFirst(s \o t)
    PROVE  HeadFirst(s) /\ Len(s) <= Len(s \o t)
<1>1. /\ DOMAIN s = 1..Len(s) /\ Len(s) \in Nat /\ Len(t) \in Nat
      /\ DOMAIN (s \o t) = 1..(Len(s) + Len(t))
      /\ Len(s \o t) = Len(s) + Len(t)
      /\ \A i \in 1..(Len(s) + Len(t)) :
            (s \o t)[i] = IF i <= Len(s) THEN s[i] ELSE t[i - Len(s)]
  <2>1. s \o t \in Seq(Item) /\ Len(s \o t) = Len(s) + Len(t)
    BY ConcatProperties
  <2>2. QED
    BY <2>1, ConcatProperties, LenProperties
<1>2. ASSUME NEW i \in 1..Len(s)
      PROVE  i = 1 <=> s[i].tag = "head"
  <2>1. i \in 1..(Len(s) + Len(t)) /\ i <= Len(s)
    BY <1>1
  <2>2. QED
    BY <1>1, <2>1 DEF HeadFirst
<1>3. QED
  BY <1>1, <1>2 DEF HeadFirst

LEMMA HeadFirstConcat ==
    ASSUME NEW s \in Seq(Item), NEW t \in Seq(Item), s # <<>>, HeadFirst(s), NoHead(t)
    PROVE  HeadFirst(s \o t)
<1>1. /\ DOMAIN s = 1..Len(s) /\ Len(s) \in Nat /\ Len(t) \in Nat /\ Len(s) # 0
      /\ DOMAIN t = 1..Len(t)
      /\ DOMAIN (s \o t) = 1..(Len(s) + Len(t))
      /\ \A i \in 1..(Len(s) + Len(t)) :
            (s \o t)[i] = IF i <= Len(s) THEN s[i] ELSE t[i - Len(s)]
  <2>1. s \o t \in Seq(Item) /\ Len(s \o t) = Len(s) + Len(t)
    BY ConcatProperties
  <2>2. Len(s) # 0
    OBVIOUS
  <2>3. QED
    BY <2>1, <2>2, ConcatProperties, LenProperties
<1>2. ASSUME NEW i \in 1..(Len(s) + Len(t))
      PROVE  i = 1 <=> (s \o t)[i].tag = "head"
  <2>1. CASE i <= Len(s)
    BY <1>1, <2>1 DEF HeadFirst
  <2>2. CASE i > Len(s)
    <3>1. i - Len(s) \in 1..Len(t) /\ i # 1
      BY <1>1, <2>2
    <3>2. QED
      BY <1>1, <2>2, <3>1 DEF NoHead
  <2>3. QED
    BY <1>1, <2>1, <2>2
<1>3. QED
  BY <1>1, <1>2 DEF HeadFirst

LEMMA NoHeadConcat ==
    ASSUME NEW s \in Seq(Item), NEW t \in Seq(Item), NoHead(s), NoHead(t)
    PROVE  NoHead(s \o t)
<1>1. SUFFICES ASSUME NEW i \in DOMAIN (s \o t)
               PROVE  (s \o t)[i].tag # "head"
  BY DEF NoHead
<1>2. \/ \E j \in DOMAIN s : (s \o t)[i] = s[j]
      \/ \E j \in DOMAIN t : (s \o t)[i] = t[j]
  BY ConcatItems
<1>3. QED
  BY <1>2 DEF NoHead

(* Only the unit that is wrapped into the request is a head.               *)
LEMMA CiphertextNoHead ==
    ASSUME NEW k \in Nat, NEW m \in Nat \ {0}
    PROVE  LET sent == Units("cipher", k, m)
           IN  /\ sent \in Seq(Item) /\ NoHead(sent)
               /\ Tail(sent) \in Seq(Item) /\ NoHead(Tail(sent))
<1> DEFINE sent == Units("cipher", k, m)
<1>1. sent \in Seq(Item) /\ Len(sent) = m
  BY UnitsType DEF Tags
<1>2. DOMAIN sent = 1..m /\ \A i \in 1..m : sent[i].tag = "cipher"
  BY DEF Units, Unit
<1> HIDE DEF sent
<1>3. sent # <<>>
  BY <1>1
<1>4. /\ Tail(sent) \in Seq(Item) /\ Len(Tail(sent)) = m - 1
      /\ \A i \in 1..Len(Tail(sent)) : Tail(sent)[i] = sent[i + 1]
  BY <1>1, <1>3, HeadTailProperties
<1>5. DOMAIN Tail(sent) = 1..(m - 1)
  BY <1>4, LenProperties
<1>6. \A i \in 1..(m - 1) : Tail(sent)[i].tag = "cipher"
  BY <1>2, <1>4
<1>7. NoHead(sent) /\ NoHead(Tail(sent))
  BY <1>2, <1>5, <1>6 DEF NoHead
<1>8. QED
  BY <1>1, <1>4, <1>7 DEF sent

LEMMA MessagesSentHeld ==
    ASSUME TypeOK, WireInv, HeldInv,
           NEW msgs \in Seq(Item), msgs # <<>>, MessagesSent(msgs)
    PROVE  HeldInv'
<1> DEFINE k    == Len(encrypted)
           sent == Units("cipher", k, Len(msgs))
           head == Unit("head", k + 1)
<1>1. /\ at_sender \in Seq(Item) /\ to_sender_queue \in Seq(Item)
      /\ residual \in Seq(Item) /\ out_stage \in {0, 1, 2}
      /\ k \in Nat /\ Len(msgs) \in Nat \ {0}
  BY DEF TypeOK, TcpTypeOK, ClientTypeOK
<1>2. /\ sent \in Seq(Item) /\ NoHead(sent)
      /\ Tail(sent) \in Seq(Item) /\ NoHead(Tail(sent))
  BY <1>1, CiphertextNoHead
<1>3. head \in Item /\ head.tag = "head"
  BY <1>1, UnitType DEF Tags
<1>4. /\ at_sender' = at_sender
      /\ \/ /\ out_stage = 1 /\ out_stage' = 2
            /\ to_sender_queue' = Append(to_sender_queue, head)
            /\ residual' = residual \o Tail(sent)
         \/ /\ out_stage = 2 /\ out_stage' = 2
            /\ residual' = residual \o sent
            /\ to_sender_queue' = to_sender_queue
         \/ /\ out_stage = 0 /\ out_stage' = 0
            /\ to_sender_queue' = to_sender_queue \o sent
            /\ residual' = residual
  BY DEF MessagesSent, Encrypt, Ciphertext, HandleClientSend
<1> HIDE DEF sent, head, k
<1>5. CASE out_stage = 1
  <2>1. at_sender = <<>> /\ to_sender_queue = <<>> /\ residual = <<>>
    BY <1>5 DEF HeldInv, WireInv
  <2>2. out_stage' = 2 /\ to_sender_queue' = Append(<<>>, head)
    BY <1>4, <1>5, <2>1
  <2>3. at_sender' \o to_sender_queue' = <<head>>
    BY <1>3, <1>4, <2>1, <2>2
  <2>4. HeadFirst(<<head>>) /\ Len(<<head>>) = 1
    BY <1>3 DEF HeadFirst
  <2>5. residual' = Tail(sent)
    <3>1. residual' = <<>> \o Tail(sent)
      BY <1>4, <1>5, <2>1
    <3>2. QED
      BY <1>2, <3>1, ConcatEmptySeq
  <2>6. HeadFirst(at_sender' \o to_sender_queue') /\ NoHead(residual')
    BY <1>2, <2>3, <2>4, <2>5
  <2>7. Len(at_sender' \o to_sender_queue') <= 1
    BY <2>3, <2>4
  <2>8. QED
    BY <2>2, <2>6, <2>7 DEF HeldInv, HeadFirst, NoHead
<1>6. CASE out_stage = 2
  <2>1. Obfs => NoHead(residual \o sent)
    BY <1>1, <1>2, NoHeadConcat DEF HeldInv
  <2>2. QED
    BY <1>4, <1>6, <2>1 DEF HeldInv, HeadFirst, NoHead
<1>7. CASE out_stage = 0
  <2>1. /\ out_stage' = 0 /\ to_sender_queue' = to_sender_queue \o sent
        /\ at_sender' = at_sender /\ residual' = residual
    BY <1>4, <1>7
  <2>2. ASSUME Obfs
        PROVE  HeadFirst(at_sender' \o to_sender_queue')
    <3>1. at_sender \o (to_sender_queue \o sent) = (at_sender \o to_sender_queue) \o sent
      <4>1. /\ at_sender \in Seq(Item) /\ to_sender_queue \in Seq(Item)
            /\ sent \in Seq(Item)
        BY <1>1, <1>2
      <4>2. QED
        BY ONLY <4>1, UnitsAssociative
    <3>2. /\ at_sender \o to_sender_queue \in Seq(Item)
          /\ at_sender \o to_sender_queue # <<>>
      BY <1>1, <1>7, <2>2, ConcatProperties, ConcatEqualIffEmpty DEF HeldInv
    <3>3. HeadFirst((at_sender \o to_sender_queue) \o sent)
      BY <1>2, <2>2, <3>2, HeadFirstConcat DEF HeldInv
    <3>4. QED
      BY <2>1, <3>1, <3>3
  <2>3. QED
    BY <1>7, <2>1, <2>2 DEF HeldInv, HeadFirst, NoHead
<1>8. QED
  BY <1>1, <1>5, <1>6, <1>7

LEMMA SendOutboundHeld ==
    ASSUME TypeOK, WireInv, HeldInv,
           NEW msgs \in Seq(Item), msgs # <<>>, SendOutbound(msgs)
    PROVE  HeldInv'
<1>1. CASE MessagesSent(msgs)
  BY <1>1, MessagesSentHeld
<1>2. CASE out_stage = 1 /\ RequestRaises(msgs)
  <2>1. out_stage' = 2 /\ UNCHANGED <<to_sender_queue, at_sender, residual>>
    BY <1>2, RaisedRequest
  <2>2. QED
    BY <1>2, <2>1 DEF HeldInv, HeadFirst, NoHead
<1>3. QED
  BY <1>1, <1>2 DEF SendOutbound

THEOREM HeldInvariant == Spec => []HeldInv
<1>1. Init => HeldInv
  <2>1. <<>> \o <<>> = <<>> /\ Len(<<>>) = 0
    OBVIOUS
  <2>2. QED
    BY <2>1 DEF Init, TcpInit, HeldInv, HeadFirst, NoHead
<1>2. TypeOK /\ WireInv /\ HeldInv /\ [Next]_vars => HeldInv'
  <2> SUFFICES ASSUME TypeOK, WireInv, HeldInv, [Next]_vars
               PROVE  HeldInv'
    OBVIOUS
  <2> DEFINE out == at_sender \o to_sender_queue
  <2>0. /\ at_sender \in Seq(Item) /\ to_sender_queue \in Seq(Item)
        /\ residual \in Seq(Item) /\ out_stage \in {0, 1, 2}
        /\ out \in Seq(Item) /\ Len(out) \in Nat
    BY ConcatProperties DEF TypeOK, TcpTypeOK, ClientTypeOK
  <2>1. CASE DataFromLocal
    <3>1. CASE NothingOutbound
      BY <3>1 DEF NothingOutbound, senderVars, HeldInv, HeadFirst, NoHead
    <3>2. \A addr \in {Addr, Wrong}, u \in Item :
             <<addr>> # <<>> /\ <<addr, u>> # <<>> /\ <<u>> # <<>>
      OBVIOUS
    <3>3. QED
      BY <2>1, <3>1, <3>2, Messages, SendOutboundHeld, DataFromLocalStep, LocalStepCases
  <2>2. CASE DataFromSender /\ ServerResponded
    <3>1. /\ at_sender # <<>> /\ out_stage = 2 /\ out_stage' = 0
          /\ to_sender_queue' = to_sender_queue \o residual
          /\ UNCHANGED <<at_sender, residual>>
      BY <2>2 DEF DataFromSender, ServerResponded
    <3>2. ASSUME Obfs
          PROVE  HeadFirst(at_sender' \o to_sender_queue')
      <4>1. at_sender \o (to_sender_queue \o residual) = out \o residual
        BY ONLY <2>0, UnitsAssociative
      <4>2. out # <<>>
        BY <2>0, <3>1, ConcatEqualIffEmpty
      <4>3. HeadFirst(out) /\ NoHead(residual)
        BY <3>2 DEF HeldInv
      <4> HIDE DEF out
      <4>4. HeadFirst(out \o residual)
        BY <2>0, <4>2, <4>3, HeadFirstConcat
      <4>5. QED
        BY <3>1, <4>1, <4>4
    <3>3. QED
      BY <3>1, <3>2 DEF HeldInv, HeadFirst, NoHead
  <2>3. CASE DataFromSender /\ ~ServerResponded
    BY <2>3 DEF DataFromSender, RelayToLocal, HeldInv, HeadFirst, NoHead, senderVars,
                clientVars
  <2>4. CASE TcpNext /\ UNCHANGED clientVars
    <3>1. out_stage' = out_stage /\ residual' = residual
      BY <2>4 DEF clientVars
    <3>2. CASE SendToSender
      <4>1. to_sender_queue' = <<>> /\ at_sender' \in {at_sender, out}
        BY <3>2 DEF SendToSender
      <4>2. at_sender' \o to_sender_queue' = at_sender'
        BY <2>0, <4>1, ConcatEmptySeq
      <4>3. out_stage = 1 => at_sender' = <<>>
        <5>1. <<>> \o <<>> = <<>>
          OBVIOUS
        <5>2. QED
          BY <4>1, <5>1 DEF HeldInv
      <4>4. ASSUME Obfs
            PROVE  /\ HeadFirst(at_sender')
                   /\ out_stage # 0 => Len(at_sender') <= 1
                   /\ out_stage = 0 => at_sender' # <<>>
        <5>1. HeadFirst(out) /\ (out_stage # 0 => Len(out) <= 1)
              /\ (out_stage = 0 => at_sender # <<>>)
          BY <4>4 DEF HeldInv
        <5>2. HeadFirst(at_sender) /\ Len(at_sender) <= Len(out)
          BY <2>0, <5>1, HeadFirstPrefix
        <5>3. out_stage = 0 => out # <<>>
          BY <2>0, <5>1, ConcatEqualIffEmpty
        <5>4. Len(at_sender) \in Nat
          BY <2>0
        <5> HIDE DEF out
        <5>5. QED
          BY <2>0, <4>1, <5>1, <5>2, <5>3, <5>4
      <4>5. QED
        BY <3>1, <4>1, <4>2, <4>3, <4>4 DEF HeldInv, NoHead, HeadFirst
    <3>3. CASE ~SendToSender
      <4>1. UNCHANGED <<at_sender, to_sender_queue>>
        BY <2>4, <3>3
        DEF TcpNext, Tasks, Callbacks, ResolveDns, ResolveDnsFails, CreateSender,
            CreateSenderFails, SendToLocal, LocalEof, LocalError, LocalLost, SenderEof,
            SenderError, SenderLost, senderVars
      <4>2. QED
        BY <3>1, <4>1 DEF HeldInv, HeadFirst, NoHead
    <3>4. QED
      BY <3>2, <3>3
  <2>5. CASE UNCHANGED vars
    BY <2>5 DEF vars, tcpVars, clientVars, HeldInv, HeadFirst, NoHead
  <2>6. QED
    BY <2>1, <2>2, <2>3, <2>4, <2>5 DEF Next
<1>3. QED
  BY <1>1, <1>2, TypeCorrect, WireInvariant, PTL DEF Spec

(* Behind http_simple whatever leaves begins with the request, and nothing *)
(* else leaves before the server answered, however much the program sends  *)
(* meanwhile.                                                              *)
THEOREM HeldBack == Spec => []HeldUntilAnswered
<1>1. TypeOK /\ HeldInv => HeldUntilAnswered
  <2> SUFFICES ASSUME TypeOK, HeldInv PROVE HeldUntilAnswered
    OBVIOUS
  <2>1. SUFFICES ASSUME Obfs, NEW i \in DOMAIN (at_sender \o to_sender_queue)
                 PROVE  /\ i = 1 <=> (at_sender \o to_sender_queue)[i].tag = "head"
                        /\ out_stage # 0 => i = 1
    BY DEF HeldUntilAnswered
  <2> DEFINE out == at_sender \o to_sender_queue
  <2>2. out \in Seq(Item) /\ DOMAIN out = 1..Len(out) /\ Len(out) \in Nat
    BY ConcatProperties, LenProperties DEF TypeOK, TcpTypeOK
  <2>3. HeadFirst(out) /\ (out_stage # 0 => Len(out) <= 1)
    BY <2>1 DEF HeldInv
  <2>4. i \in DOMAIN out
    BY <2>1
  <2> HIDE DEF out
  <2>5. (i = 1 <=> out[i].tag = "head") /\ (out_stage # 0 => i = 1)
    BY <2>2, <2>3, <2>4 DEF HeadFirst
  <2>6. QED
    BY <2>5 DEF out
<1>2. QED
  BY <1>1, TypeCorrect, HeldInvariant, PTL

-----------------------------------------------------------------------------
(* What the local program reads.                                           *)

Method  == <<Unit("method", 0)>>

(* The program's connection carries the answers r and then the payload;    *)
(* how far the handshake is says which answers.                            *)
AnsweredWith(r) ==
    /\ at_local \o to_local_queue = r \o Units("data", 0, deciphered)
    /\ proto = "none" => r = <<>>
    /\ stage = 6 => r = Method
    /\ CloseOnError /\ stage = 0 => r # Method

LocalInv ==
    /\ ~garbled
    /\ proto = "none" => stage = 4
    /\ stage = 6 => proto = "Socks5"
    /\ deciphered > 0 => encrypted # <<>>
    /\ transport = "open" => \E r \in Answers : AnsweredWith(r)

LEMMA AnswerTypes ==
    /\ \A t \in Tags : <<Unit(t, 0)>> \in Seq(Item) /\ Len(<<Unit(t, 0)>>) = 1
    /\ \A r \in Answers : r \in Seq(Item)
    /\ {"method", "success", "established"} \subseteq Tags
<1>1. {"method", "success", "established"} \subseteq Tags
  BY DEF Tags
<1>2. \A t \in Tags : Unit(t, 0) \in Item
  BY UnitType
<1>3. Unit("method", 0) \in Item /\ Unit("success", 0) \in Item /\ Unit("established", 0) \in Item
  BY <1>1, <1>2
<1>4. QED
  BY <1>1, <1>2, <1>3 DEF Answers

(* An answer given before any payload extends the answers.                 *)
LEMMA ReplyStream ==
    ASSUME TypeOK, NEW r \in Seq(Item), NEW t \in Tags, ReplyToLocal(t),
           deciphered = 0, deciphered' = 0,
           at_local \o to_local_queue = r \o Units("data", 0, deciphered)
    PROVE  at_local' \o to_local_queue' = (r \o <<Unit(t, 0)>>) \o Units("data", 0, deciphered')
<1> DEFINE u == Unit(t, 0)
<1>1. u \in Item /\ <<u>> \in Seq(Item)
  BY UnitType
<1>2. Units("data", 0, 0) = <<>>
  BY UnitsNone
<1>3. at_local \in Seq(Item) /\ to_local_queue \in Seq(Item)
  BY DEF TypeOK, TcpTypeOK
<1>4. at_local' = at_local /\ to_local_queue' = Append(to_local_queue, u)
  BY DEF ReplyToLocal
<1> HIDE DEF u
<1>5. to_local_queue' = to_local_queue \o <<u>>
  BY <1>1, <1>3, <1>4, AppendIsConcat
<1>6. at_local \o to_local_queue = r
  BY <1>2, ConcatEmptySeq
<1>7. at_local' \o to_local_queue' = r \o <<u>>
  <2>1. (at_local \o to_local_queue) \o <<u>> = at_local \o (to_local_queue \o <<u>>)
    BY <1>1, <1>3, UnitsAssociative
  <2>2. QED
    BY <1>4, <1>5, <1>6, <2>1
<1>8. r \o <<u>> \in Seq(Item)
  BY <1>1, ConcatProperties
<1>9. QED
  BY <1>2, <1>7, <1>8, ConcatEmptySeq DEF u

(* A handler that gives no answer.                                         *)
LEMMA NoReplyLocal ==
    ASSUME NoReply, UNCHANGED deciphered, NEW r, AnsweredWith(r),
           proto' = "none" => proto = "none",
           stage' = 6 => stage = 6,
           CloseOnError /\ stage' = 0 => r # Method
    PROVE  AnsweredWith(r)'
BY DEF NoReply, AnsweredWith, Method, Unit

LEMMA LocalStepLocal ==
    ASSUME TypeOK, ReadyInv, LocalInv, NEW u \in Item, LocalStep(u)
    PROVE  LocalInv'
<1>1. /\ UNCHANGED <<deciphered, garbled>>
      /\ encrypted # <<>> => encrypted' # <<>>
  <2>1. CASE NothingOutbound
    BY <2>1 DEF NothingOutbound, cryptVars
  <2>2. ASSUME NEW msgs \in Seq(Item), msgs # <<>>, SendOutbound(msgs)
        PROVE  /\ UNCHANGED <<deciphered, garbled>>
               /\ encrypted # <<>> => encrypted' # <<>>
    BY <2>2, SomethingEncrypted, SendOutboundType
  <2>3. \A addr \in {Addr, Wrong} :
           <<addr>> # <<>> /\ <<addr, u>> # <<>> /\ <<u>> # <<>>
    OBVIOUS
  <2>4. QED
    BY <2>1, <2>2, <2>3, Messages, LocalStepCases
<1>2. /\ ~garbled' /\ (deciphered' > 0 => encrypted' # <<>>)
  BY <1>1 DEF LocalInv
<1>3. transport = "open"
  BY DEF LocalStep, Socks5Greeting, Socks5GreetingRefused, UnknownProtocol,
         Socks5Connect, HttpConnect, HttpRequest, Socks5ConnectFails,
         Socks5RequestFails, Socks5Refused, Socks5UdpAssociate, HttpConnectFails,
         HttpRequestRefused, HttpRequestFails, RelayToSender
<1>4. PICK r \in Answers : AnsweredWith(r)
  BY <1>3 DEF LocalInv
<1>5. deciphered \in Nat /\ (proto = "none" \/ stage = 6 => deciphered = 0)
  BY DEF LocalInv, ReadyInv, TypeOK, TcpTypeOK
(* The steps that answer.                                                  *)
<1>6. ASSUME NEW t \in Tags, ReplyToLocal(t), proto = "none" \/ stage = 6
      PROVE  at_local' \o to_local_queue' = (r \o <<Unit(t, 0)>>) \o Units("data", 0, deciphered')
  BY <1>1, <1>4, <1>5, <1>6, ReplyStream, AnswerTypes DEF AnsweredWith
<1>7. CASE Socks5Greeting
  <2>1. /\ proto = "none" /\ proto' = "Socks5" /\ stage' = 6 /\ ReplyToLocal("method")
        /\ r = <<>>
    BY <1>4, <1>7 DEF Socks5Greeting, AnsweredWith
  <2>2. <<>> \o Method = Method
    BY AnswerTypes, ConcatEmptySeq DEF Method
  <2>3. AnsweredWith(Method)'
    BY <1>6, <2>1, <2>2, AnswerTypes DEF AnsweredWith, Method, Unit
  <2>4. Method \in Answers
    BY DEF Method, Answers
  <2>5. QED
    BY <1>2, <2>1, <2>3, <2>4 DEF LocalInv, Method, Unit, Answers
<1>8. CASE (\E addr \in {Addr, Wrong} : Socks5Connect(addr)) \/ Socks5ConnectFails
  <2>1. /\ stage = 6 /\ stage' = 0 /\ UNCHANGED proto /\ proto = "Socks5"
        /\ ReplyToLocal("success") /\ r = Method
    BY <1>4, <1>8 DEF Socks5Connect, Socks5ConnectFails, AnsweredWith
  <2> DEFINE both == <<Unit("method", 0), Unit("success", 0)>>
  <2>2. Method \o <<Unit("success", 0)>> = both
    <3>1. ASSUME NEW a \in Item, NEW b \in Item
          PROVE  <<a>> \o <<b>> = <<a, b>>
      <4>1. /\ <<a>> \in Seq(Item) /\ Len(<<a>>) = 1 /\ <<a>>[1] = a
            /\ <<b>> \in Seq(Item) /\ Len(<<b>>) = 1 /\ <<b>>[1] = b
            /\ <<a, b>> \in Seq(Item) /\ Len(<<a, b>>) = 2
            /\ <<a, b>>[1] = a /\ <<a, b>>[2] = b
        OBVIOUS
      <4> DEFINE s == <<a>> \o <<b>>
                 t == <<a, b>>
      <4>2. /\ s \in Seq(Item) /\ Len(s) = 2
            /\ \A i \in 1..2 : s[i] = IF i <= 1 THEN <<a>>[i] ELSE <<b>>[i - 1]
        BY <4>1, ConcatProperties
      <4>3. s[1] = t[1] /\ s[2] = t[2]
        BY <4>1, <4>2
      <4>4. t \in Seq(Item) /\ Len(t) = 2
        BY <4>1
      <4> HIDE DEF s, t
      <4>5. \A i \in 1..Len(s) : s[i] = t[i]
        BY <4>2, <4>3
      <4>6. s = t
        BY <4>2, <4>4, <4>5, SeqEqual
      <4>7. QED
        BY <4>6 DEF s, t
    <3>2. Unit("method", 0) \in Item /\ Unit("success", 0) \in Item
      BY UnitType DEF Tags
    <3>3. QED
      BY <3>1, <3>2 DEF Method
  <2>3. both # Method /\ both \in Answers
    BY DEF Method, Answers
  <2>4. at_local' \o to_local_queue' = both \o Units("data", 0, deciphered')
    BY <1>6, <2>1, <2>2, AnswerTypes
  <2> HIDE DEF both
  <2>5. AnsweredWith(both)'
    BY <2>1, <2>3, <2>4 DEF AnsweredWith, Method, Unit
  <2>6. (\E q \in Answers : AnsweredWith(q))'
    BY <2>3, <2>5 DEF Answers, Unit
  <2>7. QED
    BY <1>2, <2>1, <2>6 DEF LocalInv
<1>9. CASE (\E addr \in {Addr, Wrong} : HttpConnect(addr)) \/ HttpConnectFails
  <2>1. /\ proto = "none" /\ proto' = "HttpProxy" /\ stage' = 0
        /\ ReplyToLocal("established") /\ r = <<>>
    BY <1>4, <1>9 DEF HttpConnect, HttpConnectFails, AnsweredWith
  <2> DEFINE est == <<Unit("established", 0)>>
  <2>2. <<>> \o est = est
    BY AnswerTypes, ConcatEmptySeq
  <2>3. est # Method /\ est \in Answers
    BY DEF Method, Answers, Unit
  <2>4. at_local' \o to_local_queue' = est \o Units("data", 0, deciphered')
    BY <1>6, <2>1, <2>2, AnswerTypes
  <2> HIDE DEF est
  <2>5. AnsweredWith(est)'
    BY <2>1, <2>3, <2>4 DEF AnsweredWith, Method, Unit
  <2>6. (\E q \in Answers : AnsweredWith(q))'
    BY <2>3, <2>5 DEF Answers, Unit
  <2>7. QED
    BY <1>2, <2>1, <2>6 DEF LocalInv
(* The steps that do not.                                                  *)
<1>10. ASSUME NoReply,
              proto' = "none" => proto = "none" /\ stage' = 4,
              stage' = 6 => stage = 6 /\ proto' = proto,
              transport' = "open" /\ CloseOnError /\ stage' = 0 => r # Method
       PROVE  LocalInv'
  <2>1. transport' = "open" => AnsweredWith(r)'
    BY <1>1, <1>4, <1>10, NoReplyLocal
  <2>2. (proto = "none" => stage = 4)' /\ (stage = 6 => proto = "Socks5")'
    BY <1>10 DEF LocalInv
  <2>3. (transport = "open" => \E q \in Answers : AnsweredWith(q))'
    BY <2>1 DEF Answers, Unit
  <2>4. QED
    BY <1>2, <2>2, <2>3 DEF LocalInv
<1>11. proto = "none" => r # Method /\ stage = 4
  BY <1>4 DEF AnsweredWith, Method, LocalInv
<1>12. CASE Socks5GreetingRefused \/ UnknownProtocol \/ HttpRequestRefused
            \/ HttpRequestFails \/ \E addr \in {Addr, Wrong} : HttpRequest(addr, u)
  BY <1>10, <1>11, <1>12
  DEF Socks5GreetingRefused, UnknownProtocol, HttpRequestRefused, HttpRequestFails, HttpRequest
<1>13. CASE Socks5RequestFails \/ Socks5Refused \/ Socks5UdpAssociate
  BY <1>10, <1>13 DEF Socks5RequestFails, Socks5Refused, Socks5UdpAssociate, Raise
<1>14. CASE RelayToSender(u)
  BY <1>4, <1>10, <1>14 DEF RelayToSender, AnsweredWith
<1>15. QED
  BY <1>7, <1>8, <1>9, <1>12, <1>13, <1>14 DEF LocalStep

LEMMA SenderStepLocal ==
    ASSUME TypeOK, LocalInv, NEW m \in Nat, encrypted # <<>>,
           SenderStep(Units("cipher", deciphered, m))
    PROVE  LocalInv'
<1>1. CASE ServerResponded
  BY <1>1 DEF ServerResponded, LocalInv, AnsweredWith, Answers, Method, Unit,
              localVars, cryptVars
<1> DEFINE us   == Units("cipher", deciphered, m)
           more == Units("data", deciphered, m)
<1>2. deciphered \in Nat /\ ~garbled
  BY DEF TypeOK, TcpTypeOK, LocalInv
<1>3. us \in Seq(Item) /\ Len(us) = m
  BY <1>2, UnitsType DEF Tags
<1>4. InSync(us) /\ Plain(us) = more
  BY <1>2, PlainInSync
<1>5. CASE RelayToLocal(us)
  <2>1. /\ transport = "open" /\ Decrypt(us) /\ to_local_queue' = to_local_queue \o Plain(us)
        /\ UNCHANGED <<transport, at_local, encrypted, proto, stage>>
    BY <1>5 DEF RelayToLocal, clientVars
  <2>2. deciphered' = deciphered + m /\ ~garbled'
    BY <1>3, <1>4, <2>1 DEF Decrypt
  <2>3. PICK r \in Answers : AnsweredWith(r)
    BY <2>1 DEF LocalInv
  <2>4. at_local' \o to_local_queue' = r \o Units("data", 0, deciphered')
    <3>0. "data" \in Tags /\ 0 \in Nat /\ m \in Nat /\ 0 + deciphered = deciphered
      BY <1>2 DEF Tags
    <3>1. Units("data", 0, deciphered) \o Units("data", 0 + deciphered, m)
             = Units("data", 0, deciphered + m)
      BY <1>2, <3>0, UnitsConcat
    <3>2. more \in Seq(Item) /\ Units("data", 0, deciphered) \in Seq(Item)
      BY <1>2, <3>0, UnitsType
    <3>3. r \in Seq(Item) /\ at_local \in Seq(Item) /\ to_local_queue \in Seq(Item)
      BY AnswerTypes DEF TypeOK, TcpTypeOK
    <3>4. Units("data", 0, deciphered) \o more = Units("data", 0, deciphered + m)
      BY <3>0, <3>1
    <3>5. to_local_queue' = to_local_queue \o more
      BY <1>4, <2>1
    <3> HIDE DEF more, us
    <3>6. (at_local \o to_local_queue) \o more = at_local \o (to_local_queue \o more)
      <4>1. at_local \in Seq(Item) /\ to_local_queue \in Seq(Item) /\ more \in Seq(Item)
        BY <3>2, <3>3
      <4>2. QED
        BY ONLY <4>1, UnitsAssociative
    <3>7. (r \o Units("data", 0, deciphered)) \o more = r \o (Units("data", 0, deciphered) \o more)
      <4>1. r \in Seq(Item)
        BY <3>3
      <4>2. QED
        BY ONLY <3>2, <4>1, UnitsAssociative
    <3>8. QED
      BY <2>1, <2>2, <2>3, <3>4, <3>5, <3>6, <3>7 DEF AnsweredWith
  <2>5. AnsweredWith(r)'
    BY <2>1, <2>3, <2>4 DEF AnsweredWith, Method, Unit
  <2>6. QED
    BY <2>1, <2>2, <2>5 DEF LocalInv, Answers, Unit
<1>6. QED
  BY <1>1, <1>4, <1>5 DEF SenderStep, DecryptFails

LEMMA TcpNextLocal ==
    ASSUME TypeOK, LocalInv, TcpNext, UNCHANGED clientVars
    PROVE  LocalInv'
<1>1. UNCHANGED cryptVars
  BY TcpNextFrame
<1>2. ASSUME transport' = "open"
      PROVE  (\E r \in Answers : AnsweredWith(r))'
  <2>1. /\ transport = "open"
        /\ at_local' \o to_local_queue' = at_local \o to_local_queue
    BY <1>2, LocalFlow DEF TypeOK
  <2>2. PICK r \in Answers : AnsweredWith(r)
    BY <2>1 DEF LocalInv
  <2>3. AnsweredWith(r)'
    BY <1>1, <2>1, <2>2 DEF AnsweredWith, Method, Unit, cryptVars, clientVars
  <2>4. QED
    BY <2>3 DEF Answers, Unit
<1>3. QED
  BY <1>1, <1>2 DEF LocalInv, cryptVars, clientVars

THEOREM LocalInvariant == Spec => []LocalInv
<1>1. Init => LocalInv
  <2> SUFFICES ASSUME Init PROVE LocalInv
    OBVIOUS
  <2>1. /\ ~garbled /\ proto = "none" /\ stage = 4 /\ deciphered = 0
        /\ at_local = <<>> /\ to_local_queue = <<>>
    BY DEF Init, TcpInit
  <2>2. Units("data", 0, 0) = <<>> /\ <<>> \o <<>> = <<>>
    BY UnitsNone
  <2>3. AnsweredWith(<<>>)
    BY <2>1, <2>2 DEF AnsweredWith
  <2>4. QED
    BY <2>1, <2>3 DEF LocalInv, Answers
<1>2. TypeOK /\ ReadyInv /\ LocalInv /\ [Next]_vars => LocalInv'
  <2> SUFFICES ASSUME TypeOK, ReadyInv, LocalInv, [Next]_vars
               PROVE  LocalInv'
    OBVIOUS
  <2>1. CASE DataFromLocal
    BY <2>1, DataFromLocalStep, LocalStepLocal
  <2>2. CASE DataFromSender
    <3>1. encrypted # <<>>
      BY <2>2 DEF DataFromSender, ReadyInv
    <3>2. <<Unit("cipher", deciphered + 1)>> = Units("cipher", deciphered, 1)
      BY UnitsOne DEF TypeOK, TcpTypeOK
    <3>3. SenderStep(Units("cipher", deciphered, 1))
      BY <2>2, <3>2 DEF DataFromSender, SenderStep
    <3>4. QED
      BY <3>1, <3>3, SenderStepLocal
  <2>3. CASE TcpNext /\ UNCHANGED clientVars
    BY <2>3, TcpNextLocal
  <2>4. CASE UNCHANGED vars
    BY <2>4 DEF vars, tcpVars, clientVars, LocalInv, AnsweredWith, Answers, Method, Unit
  <2>5. QED
    BY <2>1, <2>2, <2>3, <2>4 DEF Next
<1>3. QED
  BY <1>1, <1>2, TypeCorrect, ReadyInvariant, PTL DEF Spec

(* What the program has read already: of a connection that is gone, what   *)
(* was delivered while it was open.                                        *)
LocalGot ==
    \E r \in Answers, d \in Nat :
        d <= deciphered /\ at_local = r \o Units("data", 0, d)

LEMMA LocalStepGot ==
    ASSUME TypeOK, LocalGot, NEW u \in Item, LocalStep(u)
    PROVE  LocalGot'
<1>1. at_local' = at_local /\ deciphered' = deciphered
  BY LocalStepFrame
<1>2. QED
  BY <1>1 DEF LocalGot, Answers, Unit, Units

LEMMA SenderStepGot ==
    ASSUME TypeOK, LocalGot, NEW us \in Seq(Item), SenderStep(us)
    PROVE  LocalGot'
<1>1. at_local' = at_local
  BY DEF SenderStep, ServerResponded, RelayToLocal, DecryptFails, localVars
<1>2. deciphered' \in Nat /\ deciphered \in Nat /\ deciphered <= deciphered'
  <2>1. Len(us) \in Nat /\ deciphered \in Nat
    BY LenProperties DEF TypeOK, TcpTypeOK
  <2>2. QED
    BY <2>1 DEF SenderStep, ServerResponded, RelayToLocal, DecryptFails, cryptVars, Decrypt
<1>3. PICK r \in Answers, d \in Nat : d <= deciphered /\ at_local = r \o Units("data", 0, d)
  BY DEF LocalGot
<1>4. d <= deciphered'
  BY <1>2, <1>3
<1>5. QED
  BY <1>1, <1>3, <1>4 DEF LocalGot, Answers, Unit, Units

LEMMA TcpNextGot ==
    ASSUME TypeOK, LocalInv, LocalGot, TcpNext
    PROVE  LocalGot'
<1>1. deciphered' = deciphered
  BY TcpNextFrame DEF cryptVars
<1>2. CASE at_local' = at_local
  <2>1. PICK r \in Answers, d \in Nat : d <= deciphered /\ at_local = r \o Units("data", 0, d)
    BY DEF LocalGot
  <2>2. QED
    BY <1>1, <1>2, <2>1 DEF LocalGot, Answers, Unit, Units
<1>3. CASE transport = "open" /\ at_local' = at_local \o to_local_queue
  <2>1. PICK r \in Answers : AnsweredWith(r)
    BY <1>3 DEF LocalInv
  <2>2. at_local' = r \o Units("data", 0, deciphered) /\ deciphered \in Nat
    BY <1>3, <2>1 DEF AnsweredWith, TypeOK, TcpTypeOK
  <2>3. deciphered <= deciphered'
    BY <1>1, <2>2
  <2>4. \E q \in Answers, d \in Nat : d <= deciphered' /\ at_local' = q \o Units("data", 0, d)
    BY <2>2, <2>3
  <2>5. QED
    BY <2>4 DEF LocalGot, Answers, Unit, Units
<1>4. QED
  BY <1>2, <1>3, TcpNextFrame

(* The program reads the answers of its protocol and then the server's     *)
(* stream, each unit once and in order; no payload overtakes an answer.    *)
THEOREM LocalStreamCorrect == Spec => []LocalStream
<1>1. TypeOK /\ ReadyInv /\ LocalInv => LocalStream
  BY DEF TypeOK, TcpTypeOK, ReadyInv, LocalInv, LocalStream, AnsweredWith, Method
<1>2. QED
  BY <1>1, TypeCorrect, ReadyInvariant, LocalInvariant, PTL
=============================================================================
