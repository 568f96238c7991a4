---------------------------- MODULE TunnelProofs ----------------------------
(***************************************************************************)
(* Theorems about Tunnel: the lemmas about the steps of the two sides are  *)
(* those of ClientProtocolProofs and ServerProtocolProofs; added here is   *)
(* what the network between them keeps.                                    *)
(***************************************************************************)
EXTENDS Tunnel, SequenceTheorems, FiniteSetTheorems, TLAPS

CP == INSTANCE ClientProtocolProofs WITH
        CloseOnError <- TRUE, Obfs <- TRUE,
        transport <- c_transport, task <- c_task, dns <- c_dns,
        sender <- c_sender, sender_task <- c_sender_task,
        to_sender_queue <- c_to_sender_queue,
        to_local_queue <- c_to_local_queue,
        at_sender <- c_at_sender, at_local <- c_at_local,
        encrypted <- c_encrypted, deciphered <- c_deciphered,
        garbled <- c_garbled, proto <- c_proto, stage <- c_stage,
        out_stage <- c_out_stage, residual <- c_residual

SP == INSTANCE ServerProtocolProofs WITH
        CloseOnError <- TRUE,
        transport <- s_transport, task <- s_task, dns <- s_dns,
        sender <- s_sender, sender_task <- s_sender_task,
        to_sender_queue <- s_to_sender_queue,
        to_local_queue <- s_to_local_queue,
        at_sender <- s_at_sender, at_local <- s_at_local,
        encrypted <- s_encrypted, deciphered <- s_deciphered,
        garbled <- s_garbled, stage <- s_stage

-----------------------------------------------------------------------------
(* The invariant.                                                          *)

ClientInv == CP!TypeOK /\ CP!WireInv /\ CP!KindInv
ServerInv == SP!TypeOK /\ SP!ServerInv

NetOK ==
    /\ up_read \in Nat /\ down_read \in Nat
    /\ up_cut \in BOOLEAN /\ down_cut \in BOOLEAN /\ misread \in BOOLEAN

(* The server has decrypted what it read, from unit 1 on, and looks the     *)
(* address up, unless the request came in pieces: then it has decrypted    *)
(* nothing that makes sense.                                               *)
UpInv ==
    /\ up_read <= Len(c_at_sender)
    /\ s_stage = 4 => up_read = 0 /\ ~up_cut
    /\ s_stage = 0 => up_read = s_deciphered /\ ~up_cut /\ s_dns # "idle"
    /\ s_stage = 5 => IF up_cut THEN up_read = 0 /\ s_deciphered = 0 /\ ~s_garbled
                                ELSE s_garbled

(* A client that has sent nothing is not answered, so what the client has  *)
(* read follows a request.                                                 *)
DownInv ==
    /\ c_at_sender = <<>> => s_stage = 4 /\ s_at_local = <<>>
    /\ down_read <= Len(s_at_local)
    /\ ~c_garbled => c_deciphered <= Len(s_encrypted)

TunnelInv == ClientInv /\ ServerInv /\ NetOK /\ UpInv /\ DownInv

-----------------------------------------------------------------------------
(* The steps of the client.                                                *)

(* Its handlers of the local program's segments.                           *)
LEMMA ClientLocalStep ==
    ASSUME ClientInv, NEW u \in CP!Item, CP!LocalStep(u)
    PROVE  /\ ClientInv'
           /\ UNCHANGED <<c_at_sender, c_deciphered, c_garbled>>
           /\ \E msgs \in Seq(CP!Item) : c_encrypted' = c_encrypted \o msgs
<1>1. CP!TypeOK'
  BY CP!LocalStepType, TunnelBounds, TunnelParam
  DEF ClientInv, CP!ClientBounds, CP!HashParamAssumption
<1>2. CP!WireInv'
  BY CP!LocalStepWire, TunnelBounds, TunnelParam
  DEF ClientInv, CP!ClientBounds, CP!HashParamAssumption
<1>3. CP!KindInv'
  BY CP!LocalStepKind, TunnelBounds, TunnelParam
  DEF ClientInv, CP!ClientBounds, CP!HashParamAssumption
<1>4. QED
  BY <1>1, <1>2, <1>3, CP!LocalStepFrame, TunnelBounds, TunnelParam
  DEF ClientInv, CP!ClientBounds, CP!HashParamAssumption

(* Its handlers of the server's segments.                                  *)
LEMMA ClientSenderStep ==
    ASSUME ClientInv, c_at_sender # <<>>, NEW us \in Seq(CP!Item), CP!SenderStep(us)
    PROVE  ClientInv'
<1>1. CP!TypeOK'
  BY CP!SenderStepType, TunnelBounds, TunnelParam
  DEF ClientInv, CP!ClientBounds, CP!HashParamAssumption
<1>2. CP!WireInv'
  BY CP!SenderStepWire, TunnelBounds, TunnelParam
  DEF ClientInv, CP!ClientBounds, CP!HashParamAssumption
<1>3. CP!KindInv'
  BY CP!SenderStepKind, TunnelBounds, TunnelParam
  DEF ClientInv, CP!ClientBounds, CP!HashParamAssumption
<1>4. QED
  BY <1>1, <1>2, <1>3 DEF ClientInv

(* Its tasks and callbacks.                                                *)
LEMMA ClientTcpStep ==
    ASSUME ClientInv, CP!TcpNext, UNCHANGED CP!clientVars
    PROVE  /\ ClientInv'
           /\ UNCHANGED <<c_encrypted, c_deciphered, c_garbled>>
           /\ c_at_sender' \in {c_at_sender, c_at_sender \o c_to_sender_queue}
<1>1. CP!TypeOK'
  BY CP!TcpNextType, TunnelBounds, TunnelParam
  DEF ClientInv, CP!ClientBounds, CP!HashParamAssumption
<1>2. CP!WireInv'
  BY CP!TcpNextWire, TunnelBounds, TunnelParam
  DEF ClientInv, CP!ClientBounds, CP!HashParamAssumption
<1>3. CP!KindInv'
  BY CP!TcpNextKind, TunnelBounds, TunnelParam
  DEF ClientInv, CP!ClientBounds, CP!HashParamAssumption
<1>4. QED
  BY <1>1, <1>2, <1>3, CP!TcpNextFrame, TunnelBounds, TunnelParam
  DEF ClientInv, CP!cryptVars, CP!ClientBounds, CP!HashParamAssumption

-----------------------------------------------------------------------------
(* The steps of the server.                                                *)

(* A request that carries the first units of the client's stream.          *)
LEMMA ServerRequestStep ==
    ASSUME ServerInv, NEW us \in Seq(SP!Item), us # <<>>, NEW m \in Nat \ {0},
           SP!Carried(us) = SP!Units("cipher", 0, m), SP!RequestAccepted(us)
    PROVE  ServerInv' /\ s_deciphered' = m
<1>1. SP!TypeOK'
  BY SP!SegmentType, TunnelBounds DEF ServerInv, SP!ServerBounds
<1>2. SP!ServerInv' /\ s_deciphered' = m
  BY SP!RequestInv, TunnelBounds DEF ServerInv, SP!ServerBounds
<1>3. QED
  BY <1>1, <1>2 DEF ServerInv

(* The next units of the stream after it, or, in stage 5, any units.       *)
LEMMA ServerRelayStep ==
    ASSUME ServerInv, NEW us \in Seq(SP!Item), us # <<>>, NEW m \in Nat, Len(us) = m,
           s_dns # "idle" => us = SP!Units("cipher", s_deciphered, m),
           SP!RelayToSender(us) \/ SP!DecryptFails(us)
    PROVE  /\ ServerInv'
           /\ SP!DecryptFails(us) => s_dns = "idle"
<1>1. SP!TypeOK'
  BY SP!SegmentType, TunnelBounds DEF ServerInv, SP!ServerBounds
<1>2. SP!RelayToSender(us) => SP!ServerInv'
  BY SP!RelayToSenderInv, TunnelBounds DEF ServerInv, SP!ServerBounds
<1>3. SP!DecryptFails(us) => SP!ServerInv' /\ s_dns = "idle"
  BY SP!DecryptFailsInv, TunnelBounds DEF ServerInv, SP!ServerBounds
<1>4. QED
  BY <1>1, <1>2, <1>3 DEF ServerInv

LEMMA ServerRefusedStep ==
    ASSUME ServerInv, SP!RequestRefused
    PROVE  ServerInv'
<1>1. SP!TypeOK'
  BY SP!RefusedType, TunnelBounds DEF ServerInv, SP!ServerBounds
<1>2. SP!ServerInv'
  BY SP!RefusedInv, TunnelBounds DEF ServerInv, SP!ServerBounds
<1>3. QED
  BY <1>1, <1>2 DEF ServerInv

LEMMA ServerLocalStep ==
    ASSUME ServerInv, NEW us \in Seq(SP!Item), SP!RelayToLocal(us)
    PROVE  ServerInv'
<1>1. SP!TypeOK'
  BY SP!RelayToLocalType, TunnelBounds DEF ServerInv, SP!ServerBounds
<1>2. SP!ServerInv'
  BY SP!RelayToLocalInv, TunnelBounds DEF ServerInv, SP!ServerBounds
<1>3. QED
  BY <1>1, <1>2 DEF ServerInv

LEMMA ServerTcpStep ==
    ASSUME ServerInv, SP!TcpNext, UNCHANGED s_stage
    PROVE  /\ ServerInv'
           /\ UNCHANGED <<s_encrypted, s_deciphered, s_garbled>>
           /\ s_at_local' \in {s_at_local, s_at_local \o s_to_local_queue}
           /\ s_at_sender' \in {s_at_sender, s_at_sender \o s_to_sender_queue}
           /\ s_dns = "idle" <=> s_dns' = "idle"
           /\ s_stage = 4 /\ s_at_local = <<>> => s_at_local' = <<>>
<1>1. SP!TypeOK'
  BY SP!TcpNextTcpType, TunnelBounds DEF ServerInv, SP!TypeOK, SP!ServerBounds
<1>2. SP!ServerInv'
  BY SP!TcpNextInv, TunnelBounds DEF ServerInv, SP!ServerBounds
<1>3. /\ s_dns = "idle" <=> s_dns' = "idle"
      /\ \/ s_at_local' = s_at_local
         \/ s_transport = "open" /\ s_at_local' = s_at_local \o s_to_local_queue
  BY SP!TcpNextFrame, TunnelBounds DEF SP!ServerBounds
<1>4. s_transport = "open" /\ s_stage = 4 => s_at_local \o s_to_local_queue = <<>>
  BY DEF ServerInv, SP!ServerInv, SP!RespondedFirst
<1>5. QED
  BY <1>1, <1>2, <1>3, <1>4, SP!TcpNextFrame, TunnelBounds
  DEF ServerInv, SP!cryptVars, SP!ServerBounds

-----------------------------------------------------------------------------
(* The steps of the two sides in Tunnel are steps of the two protocols.    *)

LEMMA ServerSteps ==
    ASSUME NEW us
    PROVE  /\ S!RequestAccepted(us) => SP!RequestAccepted(us)
           /\ S!RelayToSender(us) => SP!RelayToSender(us)
           /\ S!DecryptFails(us) => SP!DecryptFails(us)
           /\ S!RelayToLocal(us) => SP!RelayToLocal(us)
           /\ S!RequestRefused => SP!RequestRefused
<1> USE DEF S!Unit, SP!Unit, S!InSync, SP!InSync, S!Plain, SP!Plain, S!Decrypt, SP!Decrypt,
            S!Forward, SP!Forward, S!NoReply, SP!NoReply, S!senderVars, SP!senderVars,
            S!cryptVars, SP!cryptVars
<1>1. S!RequestAccepted(us) => SP!RequestAccepted(us)
  BY DEF S!RequestAccepted, SP!RequestAccepted, S!Respond, SP!Respond,
         S!Carried, SP!Carried, S!HandleDns, SP!HandleDns
<1>2. S!RelayToSender(us) => SP!RelayToSender(us)
  BY DEF S!RelayToSender, SP!RelayToSender
<1>3. S!DecryptFails(us) => SP!DecryptFails(us)
  BY DEF S!DecryptFails, SP!DecryptFails, S!Raise, SP!Raise
<1>4. S!RelayToLocal(us) => SP!RelayToLocal(us)
  BY DEF S!RelayToLocal, SP!RelayToLocal, S!Units, SP!Units
<1>5. S!RequestRefused => SP!RequestRefused
  BY DEF S!RequestRefused, SP!RequestRefused
<1>6. QED
  BY <1>1, <1>2, <1>3, <1>4, <1>5

LEMMA ServerTasks == ServerTask => SP!TcpNext /\ UNCHANGED <<s_stage, c_vars, net>>
<1> USE DEF S!localVars, SP!localVars, S!cryptVars, SP!cryptVars, S!senderVars,
            SP!senderVars, S!Close, SP!Close
<1>1. S!ResolveDns \/ S!CreateSender => SP!TcpNext
  BY DEF S!ResolveDns, S!CreateSender, SP!ResolveDns, SP!CreateSender, SP!TcpNext, SP!Tasks
<1>2. S!SendToSender \/ S!SendToLocal => SP!TcpNext
  BY DEF S!SendToSender, S!SendToLocal, SP!SendToSender, SP!SendToLocal, SP!TcpNext, SP!Tasks
<1>3. S!ResolveDnsFails \/ S!CreateSenderFails => SP!TcpNext
  BY DEF S!ResolveDnsFails, S!CreateSenderFails, SP!ResolveDnsFails, SP!CreateSenderFails,
         SP!TcpNext, SP!Tasks
<1>4. S!Callbacks => SP!TcpNext
  BY DEF S!Callbacks, S!LocalEof, S!LocalError, S!LocalLost, S!SenderEof, S!SenderError,
         S!SenderLost, SP!Callbacks, SP!LocalEof, SP!LocalError, SP!LocalLost,
         SP!SenderEof, SP!SenderError, SP!SenderLost, SP!TcpNext
<1>5. QED
  BY <1>1, <1>2, <1>3, <1>4 DEF ServerTask

LEMMA ClientTasks == ClientTask => CP!TcpNext /\ UNCHANGED <<CP!clientVars, s_vars, net>>
<1> USE DEF C!localVars, CP!localVars, C!cryptVars, CP!cryptVars, C!senderVars,
            CP!senderVars, C!Close, CP!Close
<1>1. C!ResolveDns \/ C!CreateSender => CP!TcpNext
  BY DEF C!ResolveDns, C!CreateSender, CP!ResolveDns, CP!CreateSender, CP!TcpNext, CP!Tasks
<1>2. C!SendToSender \/ C!SendToLocal => CP!TcpNext
  BY DEF C!SendToSender, C!SendToLocal, CP!SendToSender, CP!SendToLocal, CP!TcpNext, CP!Tasks
<1>3. C!ResolveDnsFails \/ C!CreateSenderFails => CP!TcpNext
  BY DEF C!ResolveDnsFails, C!CreateSenderFails, CP!ResolveDnsFails, CP!CreateSenderFails,
         CP!TcpNext, CP!Tasks
<1>4. C!Callbacks => CP!TcpNext
  BY DEF C!Callbacks, C!LocalEof, C!LocalError, C!LocalLost, C!SenderEof, C!SenderError,
         C!SenderLost, CP!Callbacks, CP!LocalEof, CP!LocalError, CP!LocalLost,
         CP!SenderEof, CP!SenderError, CP!SenderLost, CP!TcpNext
<1>5. QED
  BY <1>1, <1>2, <1>3, <1>4 DEF ClientTask, CP!clientVars

LEMMA ClientSends ==
    ClientInv /\ LocalSends => \E u \in CP!Item : CP!LocalStep(u) /\ UNCHANGED <<s_vars, net>>
<1> SUFFICES ASSUME ClientInv, LocalSends
             PROVE  \E u \in CP!Item : CP!LocalStep(u)
  BY DEF LocalSends
<1>1. CP!LocalStep(Payload)
  <2> USE DEF C!Unit, CP!Unit, C!Addr, CP!Addr, C!SendOutbound, CP!SendOutbound,
              C!MessagesSent, CP!MessagesSent, C!RequestRaises, CP!RequestRaises,
              C!Raise, CP!Raise, C!senderVars, CP!senderVars, C!Encrypt,
              CP!Encrypt, C!Ciphertext, CP!Ciphertext, C!Units, CP!Units, C!HandleClientSend,
              CP!HandleClientSend, C!ReplyToLocal, CP!ReplyToLocal, C!NoReply, CP!NoReply
  <2>1. C!Socks5Greeting => CP!Socks5Greeting
    BY DEF C!Socks5Greeting, CP!Socks5Greeting, C!NothingOutbound, CP!NothingOutbound,
           C!senderVars, CP!senderVars, C!cryptVars, CP!cryptVars
  <2>2. C!Socks5Connect(C!Addr) => CP!Socks5Connect(CP!Addr)
    BY DEF C!Socks5Connect, CP!Socks5Connect
  <2>3. C!HttpConnect(C!Addr) => CP!HttpConnect(CP!Addr)
    BY DEF C!HttpConnect, CP!HttpConnect
  <2>4. C!HttpRequest(C!Addr, Payload) => CP!HttpRequest(CP!Addr, Payload)
    BY DEF C!HttpRequest, CP!HttpRequest
  <2>5. C!RelayToSender(Payload) => CP!RelayToSender(Payload)
    BY DEF C!RelayToSender, CP!RelayToSender
  <2>6. QED
    BY <2>1, <2>2, <2>3, <2>4, <2>5 DEF LocalSends, CP!LocalStep
<1>2. Payload \in CP!Item
  <2>1. Len(c_encrypted) \in Nat
    BY DEF ClientInv, CP!TypeOK, CP!TcpTypeOK
  <2>2. QED
    BY <2>1 DEF Payload, C!Unit, CP!Item, CP!Tags
<1>3. QED
  BY <1>1, <1>2

LEMMA ClientReads ==
    ASSUME NEW us
    PROVE  /\ C!RelayToLocal(us) => CP!RelayToLocal(us)
           /\ C!DecryptFails(us) => CP!DecryptFails(us)
           /\ C!ServerResponded => CP!ServerResponded
<1> USE DEF C!Unit, CP!Unit, C!InSync, CP!InSync, C!Plain, CP!Plain, C!Decrypt, CP!Decrypt,
            C!senderVars, CP!senderVars, C!localVars, CP!localVars, C!cryptVars,
            CP!cryptVars, C!clientVars, CP!clientVars
<1>1. C!RelayToLocal(us) => CP!RelayToLocal(us)
  BY DEF C!RelayToLocal, CP!RelayToLocal
<1>2. C!DecryptFails(us) => CP!DecryptFails(us)
  BY DEF C!DecryptFails, CP!DecryptFails
<1>3. C!ServerResponded => CP!ServerResponded
  BY DEF C!ServerResponded, CP!ServerResponded
<1>4. QED
  BY <1>1, <1>2, <1>3

-----------------------------------------------------------------------------
(* The network.                                                            *)

LEMMA InitInv == Init => TunnelInv
<1> SUFFICES ASSUME Init PROVE TunnelInv
  OBVIOUS
<1>1. CP!Init /\ SP!Init
  BY DEF Init, C!Init, CP!Init, C!TcpInit, CP!TcpInit, S!Init, SP!Init, S!TcpInit, SP!TcpInit
<1>2. ClientInv
  <2>1. CP!TypeOK
    BY <1>1, CP!InitType, TunnelBounds, TunnelParam
    DEF CP!ClientBounds, CP!HashParamAssumption
  <2>2. CP!WireInv
    BY <1>1, CP!InitWire, TunnelBounds, TunnelParam
    DEF CP!ClientBounds, CP!HashParamAssumption
  <2>3. CP!KindInv
    BY <1>1 DEF CP!Init, CP!TcpInit, CP!KindInv, CP!OfKind
  <2>4. QED
    BY <2>1, <2>2, <2>3 DEF ClientInv
<1>3. ServerInv
  <2>1. SP!TypeOK
    BY <1>1, SP!TcpInitType, TunnelBounds DEF SP!ServerBounds, SP!Init, SP!TypeOK
  <2>2. SP!ServerInv
    BY <1>1, SP!InitInv, TunnelBounds DEF SP!ServerBounds
  <2>3. QED
    BY <2>1, <2>2 DEF ServerInv
<1>4. NetOK /\ UpInv /\ DownInv
  <2>1. /\ up_read = 0 /\ down_read = 0
        /\ up_cut = FALSE /\ down_cut = FALSE /\ misread = FALSE
        /\ c_at_sender = <<>> /\ s_at_local = <<>> /\ s_encrypted = <<>>
        /\ s_stage = 4 /\ c_deciphered = 0
    BY <1>1 DEF Init, CP!Init, CP!TcpInit, SP!Init, SP!TcpInit
  <2>2. NetOK
    BY <2>1 DEF NetOK
  <2>3. UpInv /\ DownInv
    BY <2>1 DEF UpInv, DownInv
  <2>4. QED
    BY <2>2, <2>3
<1>5. QED
  BY <1>2, <1>3, <1>4 DEF TunnelInv

LEMMA ClientUnchanged ==
    ASSUME ClientInv, UNCHANGED c_vars
    PROVE  ClientInv'
<1>1. CP!TypeOK'
  BY DEF ClientInv, c_vars, CP!TypeOK, CP!TcpTypeOK, CP!ClientTypeOK
<1>2. CP!WireInv'
  BY DEF ClientInv, c_vars, CP!WireInv, CP!WireOrder, CP!Held, CP!Numbered, CP!Unrequested
<1>3. CP!KindInv'
  BY DEF ClientInv, c_vars, CP!KindInv, CP!OfKind
<1>4. QED
  BY <1>1, <1>2, <1>3 DEF ClientInv

LEMMA ServerUnchanged ==
    ASSUME ServerInv, UNCHANGED s_vars
    PROVE  ServerInv'
<1>1. SP!TypeOK'
  BY DEF ServerInv, s_vars, SP!TypeOK, SP!TcpTypeOK
<1>2. SP!ServerInv'
  BY DEF ServerInv, s_vars, SP!ServerInv, SP!SenderOnce, SP!DecryptorInStep,
         SP!TargetNeedsAddress, SP!KeptUntilAddress, SP!RespondedFirst, SP!TargetStream,
         SP!NoneAhead
<1>3. QED
  BY <1>1, <1>2 DEF ServerInv

(* What the server reads next of the client's units: the request, and what *)
(* may follow it, or the units after those it has read.                    *)
LEMMA UpSegments ==
    ASSUME TunnelInv, NEW k \in 1..(Len(c_at_sender) - up_read)
    PROVE  /\ k \in Nat \ {0} /\ up_read + k <= Len(c_at_sender)
           /\ UpSegment(k) \in Seq(SP!Item) /\ UpSegment(k) # <<>>
           /\ Len(UpSegment(k)) = k
           /\ up_cut => UpSegment(k)[1].tag = "part"
           /\ ~up_cut => UpSegment(k) =
                 [i \in 1..k |-> SP!Unit(IF up_read + i = 1 THEN "head" ELSE "cipher", up_read + i)]
<1>1. /\ up_read \in Nat /\ c_at_sender \in Seq(SP!Item) /\ Len(c_at_sender) \in Nat
      /\ DOMAIN c_at_sender = 1..Len(c_at_sender)
  BY LenProperties
  DEF TunnelInv, ClientInv, NetOK, CP!TypeOK, CP!TcpTypeOK, CP!Item, SP!Item, CP!Tags, SP!Tags
<1>2. k \in Nat \ {0} /\ up_read + k <= Len(c_at_sender)
  BY <1>1
<1>3. \A i \in 1..k : up_read + i \in DOMAIN c_at_sender
  BY <1>1, <1>2
<1>4. \A j \in DOMAIN c_at_sender :
         c_at_sender[j] = SP!Unit(IF j = 1 THEN "head" ELSE "cipher", j)
  BY CP!UnitOnWire, TunnelBounds, TunnelParam
  DEF TunnelInv, ClientInv, CP!ClientBounds, CP!HashParamAssumption, CP!Unit, SP!Unit
<1>5. UpSegment(k) = [i \in 1..k |-> IF i = 1 /\ up_cut THEN SP!Unit("part", 0)
                                                       ELSE c_at_sender[up_read + i]]
  BY DEF UpSegment, Segment, C!Unit, SP!Unit
<1>6. \A i \in 1..k : (IF i = 1 /\ up_cut THEN SP!Unit("part", 0)
                                          ELSE c_at_sender[up_read + i]) \in SP!Item
  <2>1. SP!Unit("part", 0) \in SP!Item
    BY DEF SP!Unit, SP!Item, SP!Tags
  <2>2. QED
    BY <1>1, <1>3, <2>1, ElementOfSeq
<1>7. UpSegment(k) \in [1..k -> SP!Item]
  BY <1>5, <1>6
<1>8. UpSegment(k) \in Seq(SP!Item) /\ Len(UpSegment(k)) = k
  <2>1. UpSegment(k) \in Seq(SP!Item)
    BY <1>2, <1>7, SeqDef
  <2>2. QED
    BY <1>2, <1>7, <2>1, LenProperties
<1>9. up_cut => UpSegment(k)[1].tag = "part"
  BY <1>2, <1>5 DEF SP!Unit
<1>10. ~up_cut => UpSegment(k) =
          [i \in 1..k |-> SP!Unit(IF up_read + i = 1 THEN "head" ELSE "cipher", up_read + i)]
  BY <1>3, <1>4, <1>5
<1>11. UpSegment(k) # <<>>
  BY <1>2, <1>8
<1>12. QED
  BY <1>2, <1>8, <1>9, <1>10, <1>11

(* A segment arrives at the server: its decryptor stays with what was read. *)
LEMMA UpStep ==
    ASSUME TunnelInv, Up
    PROVE  TunnelInv' /\ UNCHANGED <<c_encrypted, s_at_sender>>
<1>1. PICK k \in 1..(Len(c_at_sender) - up_read) :
          /\ up_read' = up_read + k
          /\ \/ S!RequestAccepted(UpSegment(k))
             \/ S!RelayToSender(UpSegment(k))
             \/ S!DecryptFails(UpSegment(k))
  BY DEF Up
<1>2. up_cut' = FALSE /\ UNCHANGED <<c_vars, down_read, down_cut, misread>>
  BY DEF Up
<1> DEFINE us == UpSegment(k)
<1>3. /\ k \in Nat \ {0} /\ up_read + k <= Len(c_at_sender)
      /\ us \in Seq(SP!Item) /\ us # <<>> /\ Len(us) = k
      /\ up_cut => us[1].tag = "part"
      /\ ~up_cut => us =
            [i \in 1..k |-> SP!Unit(IF up_read + i = 1 THEN "head" ELSE "cipher", up_read + i)]
  BY UpSegments
<1>4. SP!RequestAccepted(us) \/ SP!RelayToSender(us) \/ SP!DecryptFails(us)
  BY <1>1, ServerSteps
<1> HIDE DEF us
<1>5. ServerInv /\ up_read \in Nat /\ s_deciphered \in Nat /\ up_cut \in BOOLEAN
  BY DEF TunnelInv, NetOK, ServerInv, SP!TypeOK, SP!TcpTypeOK
<1>6. UNCHANGED <<s_at_sender, s_at_local, s_encrypted>> /\ c_at_sender # <<>>
  BY <1>3, <1>4, <1>5 DEF SP!RequestAccepted, SP!RelayToSender, SP!DecryptFails, SP!Respond, SP!NoReply,
              SP!senderVars
<1>7. ASSUME SP!RequestAccepted(us)
      PROVE  ServerInv' /\ UpInv'
  <2>1. s_stage = 4 /\ s_stage' = 0 /\ up_read = 0 /\ ~up_cut /\ s_dns' # "idle"
    BY <1>7 DEF SP!RequestAccepted, SP!Respond, SP!HandleDns, TunnelInv, UpInv
  <2>2. SP!Carried(us) = SP!Units("cipher", 0, k)
    <3>1. us = [i \in 1..k |-> SP!Unit(IF i = 1 THEN "head" ELSE "cipher", i)]
      BY <1>3, <2>1
    <3>2. QED
      BY <3>1 DEF SP!Carried, SP!Units, SP!Unit
  <2>3. ServerInv' /\ s_deciphered' = k
    BY <1>3, <1>5, <1>7, <2>2, ServerRequestStep
  <2>4. UpInv'
    BY <1>1, <1>2, <1>3, <2>1, <2>3 DEF UpInv, c_vars
  <2>5. QED
    BY <2>3, <2>4
<1>8. ASSUME SP!RelayToSender(us) \/ SP!DecryptFails(us)
      PROVE  ServerInv' /\ UpInv'
  <2>1. UNCHANGED <<s_stage, s_dns>> /\ s_stage \in {5, 0}
    BY <1>8 DEF SP!RelayToSender, SP!DecryptFails, SP!senderVars
  <2>2. ASSUME s_dns # "idle"
        PROVE  us = SP!Units("cipher", s_deciphered, k)
    <3>1. s_stage = 0 /\ s_deciphered > 0
      BY <2>2, <1>5 DEF ServerInv, SP!ServerInv, SP!TargetNeedsAddress
    <3>2. up_read = s_deciphered /\ ~up_cut
      BY <3>1 DEF TunnelInv, UpInv
    <3>3. \A i \in 1..k : up_read + i # 1
      BY <1>5, <3>1, <3>2
    <3>4. us = [i \in 1..k |-> SP!Unit("cipher", s_deciphered + i)]
      BY <1>3, <3>2, <3>3
    <3>5. QED
      BY <3>4 DEF SP!Units
  <2>3. ServerInv' /\ (SP!DecryptFails(us) => s_dns = "idle")
    BY <1>3, <1>5, <1>8, <2>2, ServerRelayStep
  <2>4. CASE s_stage = 0
    <3>1. s_deciphered' = s_deciphered + k
      BY <1>3, <1>8, <2>3, <2>4 DEF SP!RelayToSender, SP!Decrypt, TunnelInv, UpInv
    <3>2. UpInv'
      BY <1>1, <1>2, <1>3, <2>1, <2>4, <3>1 DEF TunnelInv, UpInv, c_vars
    <3>3. QED
      BY <2>3, <3>2
  <2>5. CASE s_stage = 5
    <3>1. ~SP!InSync(us)
      <4>1. CASE up_cut
        <5>1. us[1].tag = "part" /\ 1 \in DOMAIN us
          BY <1>3, <4>1, LenProperties
        <5>2. us[1] # SP!Unit("cipher", s_deciphered + 1)
          BY <5>1 DEF SP!Unit
        <5>3. QED
          BY <5>1, <5>2 DEF SP!InSync
      <4>2. CASE ~up_cut
        BY <2>5, <4>2 DEF TunnelInv, UpInv, SP!InSync
      <4>3. QED
        BY <4>1, <4>2
    <3>2. s_garbled' = TRUE
      BY <1>8, <3>1 DEF SP!RelayToSender, SP!Decrypt, SP!DecryptFails
    <3>3. UpInv'
      BY <1>1, <1>2, <1>3, <2>1, <2>5, <3>2 DEF UpInv, c_vars
    <3>4. QED
      BY <2>3, <3>3
  <2>6. QED
    BY <2>1, <2>4, <2>5
<1>9. ServerInv' /\ UpInv'
  BY <1>4, <1>7, <1>8
<1>10. ClientInv'
  BY <1>2, ClientUnchanged DEF TunnelInv
<1>11. NetOK' /\ DownInv'
  <2>1. up_read' \in Nat
    BY <1>1, <1>3, <1>5
  <2>2. NetOK'
    BY <1>2, <2>1 DEF TunnelInv, NetOK
  <2>3. DownInv'
    BY <1>2, <1>6 DEF TunnelInv, DownInv, c_vars
  <2>4. QED
    BY <2>2, <2>3
<1>12. QED
  BY <1>2, <1>6, <1>9, <1>10, <1>11 DEF TunnelInv, c_vars

(* A piece of the request arrives, and the server refuses it.              *)
LEMMA UpCutStep ==
    ASSUME TunnelInv, UpCut
    PROVE  TunnelInv' /\ UNCHANGED <<c_encrypted, s_at_sender>>
<1>1. /\ UNCHANGED <<c_vars, up_read, down_read, down_cut, misread>>
      /\ up_cut' = TRUE /\ up_read = 0 /\ c_at_sender # <<>>
      /\ SP!RequestRefused
  BY ServerSteps DEF UpCut
<1>2. /\ s_stage = 4 /\ s_stage' = 5
      /\ UNCHANGED <<s_at_sender, s_at_local, s_encrypted, s_deciphered, s_garbled>>
  BY <1>1 DEF SP!RequestRefused, SP!NoReply, SP!senderVars, SP!cryptVars
<1>3. s_deciphered = 0 /\ ~s_garbled
  BY <1>2 DEF TunnelInv, ServerInv, SP!ServerInv, SP!DecryptorInStep
<1>4. ClientInv' /\ ServerInv'
  BY <1>1, ClientUnchanged, ServerRefusedStep DEF TunnelInv
<1>5. UpInv'
  BY <1>1, <1>2, <1>3 DEF TunnelInv, UpInv, c_vars
<1>6. NetOK' /\ DownInv'
  BY <1>1, <1>2 DEF TunnelInv, NetOK, DownInv, c_vars
<1>7. QED
  BY <1>1, <1>2, <1>4, <1>5, <1>6 DEF TunnelInv, c_vars

(* What the client reads next of the server's units, of which the server   *)
(* has encrypted every one that is part of its stream.                     *)
LEMMA DownSegments ==
    ASSUME TunnelInv, NEW k \in 1..(Len(s_at_local) - down_read)
    PROVE  /\ k \in Nat \ {0} /\ down_read + k <= Len(s_at_local)
           /\ DownSegment(k) \in Seq(CP!Item) /\ Len(DownSegment(k)) = k
           /\ CP!InSync(DownSegment(k)) => c_deciphered + k <= Len(s_encrypted)
<1> DEFINE us == DownSegment(k)
<1>1. /\ down_read \in Nat /\ s_at_local \in Seq(CP!Item) /\ Len(s_at_local) \in Nat
      /\ DOMAIN s_at_local = 1..Len(s_at_local)
      /\ c_deciphered \in Nat /\ down_cut \in BOOLEAN
  BY LenProperties
  DEF TunnelInv, ClientInv, ServerInv, NetOK, CP!TypeOK, CP!TcpTypeOK, SP!TypeOK,
      SP!TcpTypeOK, CP!Item, SP!Item, CP!Tags, SP!Tags
<1>2. k \in Nat \ {0} /\ down_read + k <= Len(s_at_local)
  BY <1>1
<1>3. \A i \in 1..k : down_read + i \in DOMAIN s_at_local
  BY <1>1, <1>2
<1>4. us = [i \in 1..k |-> IF i = 1 /\ down_cut THEN CP!Unit("part", 0)
                                                ELSE s_at_local[down_read + i]]
  BY DEF DownSegment, Segment, C!Unit, CP!Unit
<1>5. \A i \in 1..k : (IF i = 1 /\ down_cut THEN CP!Unit("part", 0)
                                            ELSE s_at_local[down_read + i]) \in CP!Item
  <2>1. CP!Unit("part", 0) \in CP!Item
    BY DEF CP!Unit, CP!Item, CP!Tags
  <2>2. QED
    BY <1>1, <1>3, <2>1, ElementOfSeq
<1>6. us \in [1..k -> CP!Item]
  BY <1>4, <1>5
<1>7. us \in Seq(CP!Item) /\ Len(us) = k
  <2>1. us \in Seq(CP!Item)
    BY <1>2, <1>6, SeqDef
  <2>2. QED
    BY <1>2, <1>6, <2>1, LenProperties
<1>8. ASSUME CP!InSync(us)
      PROVE  c_deciphered + k <= Len(s_encrypted)
  <2>1. us[k] = CP!Unit("cipher", c_deciphered + k)
    BY <1>2, <1>6, <1>8 DEF CP!InSync
  <2>2. us[k] = IF k = 1 /\ down_cut THEN CP!Unit("part", 0) ELSE s_at_local[down_read + k]
    BY <1>2, <1>4
  <2>3. us[k] = s_at_local[down_read + k] /\ us[k].n = c_deciphered + k
    BY <2>1, <2>2 DEF CP!Unit
  <2>4. s_at_local[down_read + k].n <= Len(s_encrypted)
    BY <1>2, <1>3 DEF TunnelInv, ServerInv, SP!ServerInv, SP!NoneAhead
  <2>5. QED
    BY <2>3, <2>4
<1>9. QED
  BY <1>2, <1>7, <1>8

(* A segment arrives at the client.                                        *)
LEMMA DownStep ==
    ASSUME TunnelInv, Down
    PROVE  TunnelInv' /\ UNCHANGED <<c_encrypted, s_at_sender>>
<1>1. PICK k \in 1..(Len(s_at_local) - down_read) :
          /\ down_read' = down_read + k
          /\ \/ C!ServerResponded /\ misread' = (k > 1)
             \/ /\ C!RelayToLocal(DownSegment(k)) \/ C!DecryptFails(DownSegment(k))
                /\ UNCHANGED misread
  BY DEF Down
<1>2. down_cut' = FALSE /\ UNCHANGED <<s_vars, up_read, up_cut>>
  BY DEF Down
<1> DEFINE us == DownSegment(k)
<1>3. /\ k \in Nat \ {0} /\ down_read + k <= Len(s_at_local)
      /\ us \in Seq(CP!Item) /\ Len(us) = k
      /\ CP!InSync(us) => c_deciphered + k <= Len(s_encrypted)
  BY DownSegments
<1>4. CP!ServerResponded \/ CP!RelayToLocal(us) \/ CP!DecryptFails(us)
  BY <1>1, ClientReads
<1> HIDE DEF us
<1>5. CP!SenderStep(us) /\ c_at_sender # <<>>
  <2>1. s_at_local # <<>>
    BY <1>3 DEF TunnelInv, NetOK
  <2>2. QED
    BY <1>4, <2>1 DEF CP!SenderStep, TunnelInv, DownInv
<1>6. ClientInv' /\ ServerInv'
  BY <1>2, <1>3, <1>5, ClientSenderStep, ServerUnchanged DEF TunnelInv
<1>7. UNCHANGED <<c_encrypted, c_at_sender>>
  BY <1>4 DEF CP!ServerResponded, CP!RelayToLocal, CP!DecryptFails, CP!cryptVars, CP!senderVars
<1>8. NetOK'
  <2>1. down_read' \in Nat
    BY <1>1, <1>3 DEF TunnelInv, NetOK
  <2>2. (k > 1) \in BOOLEAN
    OBVIOUS
  <2>3. misread' = (k > 1) \/ misread' = misread
    BY <1>1
  <2>4. misread' \in BOOLEAN
    BY <2>2, <2>3, Zenon DEF TunnelInv, NetOK
  <2>5. QED
    BY <1>2, <2>1, <2>4 DEF TunnelInv, NetOK
<1>9. UpInv'
  BY <1>2, <1>7 DEF TunnelInv, UpInv, s_vars
<1>10. DownInv'
  <2>1. ~c_garbled' => c_deciphered' <= Len(s_encrypted)
    <3>1. CASE CP!ServerResponded
      BY <3>1 DEF CP!ServerResponded, CP!cryptVars, TunnelInv, DownInv
    <3>2. CASE CP!RelayToLocal(us)
      BY <1>3, <3>2 DEF CP!RelayToLocal, CP!Decrypt
    <3>3. CASE CP!DecryptFails(us)
      BY <3>3 DEF CP!DecryptFails
    <3>4. QED
      BY <1>4, <3>1, <3>2, <3>3
  <2>2. QED
    BY <1>1, <1>2, <1>3, <1>5, <1>7, <2>1 DEF DownInv, s_vars
<1>11. QED
  BY <1>2, <1>6, <1>7, <1>8, <1>9, <1>10 DEF TunnelInv, s_vars

(* A piece of the response arrives, and the client takes it for the whole. *)
LEMMA DownCutStep ==
    ASSUME TunnelInv, DownCut
    PROVE  TunnelInv' /\ UNCHANGED <<c_encrypted, s_at_sender>>
<1>1. /\ UNCHANGED <<s_vars, up_read, down_read, up_cut>>
      /\ down_cut' = TRUE /\ misread' = TRUE
      /\ CP!ServerResponded
  BY ClientReads DEF DownCut
<1>2. CP!SenderStep(<<>>) /\ <<>> \in Seq(CP!Item) /\ c_at_sender # <<>>
  BY <1>1 DEF CP!SenderStep, DownCut, TunnelInv, DownInv
<1>3. ClientInv' /\ ServerInv'
  BY <1>1, <1>2, ClientSenderStep, ServerUnchanged DEF TunnelInv
<1>4. UNCHANGED <<c_encrypted, c_at_sender, c_deciphered, c_garbled>>
  BY <1>1 DEF CP!ServerResponded, CP!cryptVars
<1>5. NetOK' /\ UpInv' /\ DownInv'
  BY <1>1, <1>4 DEF TunnelInv, NetOK, UpInv, DownInv, s_vars
<1>6. QED
  BY <1>1, <1>3, <1>4, <1>5 DEF TunnelInv, s_vars

(* The local program sends: the client's stream grows.                     *)
LEMMA LocalSendsStep ==
    ASSUME TunnelInv, LocalSends
    PROVE  /\ TunnelInv' /\ UNCHANGED s_at_sender
           /\ \E msgs \in Seq(CP!Item) : c_encrypted' = c_encrypted \o msgs
<1>1. PICK u \in CP!Item : CP!LocalStep(u) /\ UNCHANGED <<s_vars, net>>
  BY ClientSends DEF TunnelInv
<1>2. /\ ClientInv' /\ UNCHANGED <<c_at_sender, c_deciphered, c_garbled>>
      /\ \E msgs \in Seq(CP!Item) : c_encrypted' = c_encrypted \o msgs
  BY <1>1, ClientLocalStep DEF TunnelInv
<1>3. ServerInv'
  BY <1>1, ServerUnchanged DEF TunnelInv
<1>4. NetOK' /\ UpInv' /\ DownInv'
  BY <1>1, <1>2 DEF TunnelInv, NetOK, UpInv, DownInv, s_vars, net
<1>5. QED
  BY <1>1, <1>2, <1>3, <1>4 DEF TunnelInv, s_vars

(* The target sends: the server's stream grows.                            *)
LEMMA TargetSendsStep ==
    ASSUME TunnelInv, TargetSends
    PROVE  TunnelInv' /\ UNCHANGED <<c_encrypted, s_at_sender>>
<1> DEFINE us == <<C!Unit("data", Len(s_encrypted) + 1)>>
<1>1. SP!RelayToLocal(us) /\ UNCHANGED <<c_vars, net>>
  BY ServerSteps DEF TargetSends
<1>2. s_encrypted \in Seq(SP!Item) /\ Len(s_encrypted) \in Nat /\ c_deciphered \in Nat
  BY LenProperties DEF TunnelInv, ServerInv, ClientInv, SP!TypeOK, SP!TcpTypeOK,
                       CP!TypeOK, CP!TcpTypeOK
<1>3. us \in Seq(SP!Item) /\ Len(us) = 1
  <2>1. C!Unit("data", Len(s_encrypted) + 1) \in SP!Item
    BY <1>2 DEF C!Unit, SP!Item, SP!Tags
  <2>2. QED
    BY <2>1
<1> HIDE DEF us
<1>4. /\ UNCHANGED <<s_at_sender, s_at_local, s_stage, s_dns, s_deciphered, s_garbled>>
      /\ s_encrypted' = s_encrypted \o us
  BY <1>1 DEF SP!RelayToLocal, SP!senderVars
<1>5. Len(s_encrypted') = Len(s_encrypted) + 1
  <2>1. Len(s_encrypted \o us) = Len(s_encrypted) + Len(us)
    BY <1>2, <1>3, ConcatProperties
  <2>2. QED
    BY <1>2, <1>3, <1>4, <2>1
<1>6. ClientInv' /\ ServerInv'
  BY <1>1, <1>3, ClientUnchanged, ServerLocalStep DEF TunnelInv
<1>7. NetOK' /\ UpInv'
  BY <1>1, <1>4 DEF TunnelInv, NetOK, UpInv, c_vars, net
<1>8. DownInv'
  BY <1>1, <1>2, <1>4, <1>5 DEF TunnelInv, DownInv, c_vars, net
<1>9. QED
  BY <1>1, <1>4, <1>6, <1>7, <1>8 DEF TunnelInv, c_vars

(* A task or callback of the client: the server can read what it wrote.    *)
LEMMA ClientTaskStep ==
    ASSUME TunnelInv, ClientTask
    PROVE  TunnelInv' /\ UNCHANGED <<c_encrypted, s_at_sender>>
<1>1. CP!TcpNext /\ UNCHANGED <<CP!clientVars, s_vars, net>>
  BY ClientTasks
<1>2. /\ ClientInv' /\ UNCHANGED <<c_encrypted, c_deciphered, c_garbled>>
      /\ c_at_sender' \in {c_at_sender, c_at_sender \o c_to_sender_queue}
  BY <1>1, ClientTcpStep DEF TunnelInv
<1>3. /\ Len(c_at_sender') >= Len(c_at_sender)
      /\ Len(c_at_sender) \in Nat /\ Len(c_at_sender') \in Nat
      /\ c_at_sender' = <<>> => c_at_sender = <<>>
  <2>1. c_at_sender \in Seq(CP!Item) /\ c_to_sender_queue \in Seq(CP!Item)
    BY DEF TunnelInv, ClientInv, CP!TypeOK, CP!TcpTypeOK
  <2>2. /\ Len(c_at_sender \o c_to_sender_queue) = Len(c_at_sender) + Len(c_to_sender_queue)
        /\ Len(c_at_sender) \in Nat /\ Len(c_to_sender_queue) \in Nat
    BY <2>1, ConcatProperties, LenProperties
  <2>3. c_at_sender' = <<>> => c_at_sender = <<>>
    <3>1. Len(c_at_sender) = 0 => c_at_sender = <<>>
      BY <2>1
    <3>2. Len(<<>>) = 0
      OBVIOUS
    <3>3. Len(c_at_sender') >= Len(c_at_sender)
      BY <1>2, <2>2
    <3>4. QED
      BY <2>2, <3>1, <3>2, <3>3
  <2>4. QED
    BY <1>2, <2>2, <2>3
<1>4. ServerInv'
  BY <1>1, ServerUnchanged DEF TunnelInv
<1>5. NetOK' /\ DownInv'
  BY <1>1, <1>2, <1>3 DEF TunnelInv, NetOK, DownInv, s_vars, net
<1>6. UpInv'
  <2>1. up_read' <= Len(c_at_sender')
    BY <1>1, <1>3 DEF TunnelInv, NetOK, UpInv, net
  <2>2. QED
    BY <1>1, <2>1 DEF TunnelInv, UpInv, s_vars, net
<1>7. QED
  BY <1>1, <1>2, <1>4, <1>5, <1>6 DEF TunnelInv, s_vars

(* A task or callback of the server: the client can read what it wrote,    *)
(* and the target gets what was queued for it.                             *)
LEMMA ServerTaskStep ==
    ASSUME TunnelInv, ServerTask
    PROVE  /\ TunnelInv' /\ UNCHANGED c_encrypted
           /\ s_at_sender' \in {s_at_sender, s_at_sender \o s_to_sender_queue}
<1>1. SP!TcpNext /\ UNCHANGED <<s_stage, c_vars, net>>
  BY ServerTasks
<1>2. /\ ServerInv' /\ UNCHANGED <<s_encrypted, s_deciphered, s_garbled>>
      /\ s_at_local' \in {s_at_local, s_at_local \o s_to_local_queue}
      /\ s_at_sender' \in {s_at_sender, s_at_sender \o s_to_sender_queue}
      /\ s_dns = "idle" <=> s_dns' = "idle"
      /\ s_stage = 4 /\ s_at_local = <<>> => s_at_local' = <<>>
  BY <1>1, ServerTcpStep DEF TunnelInv
<1>3. /\ Len(s_at_local') >= Len(s_at_local)
      /\ Len(s_at_local) \in Nat /\ Len(s_at_local') \in Nat
  <2>1. s_at_local \in Seq(SP!Item) /\ s_to_local_queue \in Seq(SP!Item)
    BY DEF TunnelInv, ServerInv, SP!TypeOK, SP!TcpTypeOK
  <2>2. /\ Len(s_at_local \o s_to_local_queue) = Len(s_at_local) + Len(s_to_local_queue)
        /\ Len(s_at_local) \in Nat /\ Len(s_to_local_queue) \in Nat
    BY <2>1, ConcatProperties, LenProperties
  <2>3. QED
    BY <1>2, <2>2
<1>4. ClientInv'
  BY <1>1, ClientUnchanged DEF TunnelInv
<1>5. NetOK' /\ UpInv'
  BY <1>1, <1>2 DEF TunnelInv, NetOK, UpInv, c_vars, net
<1>6. DownInv'
  <2>1. down_read' <= Len(s_at_local')
    BY <1>1, <1>3 DEF TunnelInv, NetOK, DownInv, net
  <2>2. QED
    BY <1>1, <1>2, <2>1 DEF TunnelInv, DownInv, c_vars
<1>7. QED
  BY <1>1, <1>2, <1>4, <1>5, <1>6 DEF TunnelInv, c_vars

(* Whatever the segments are and whatever fails, on either side, the two   *)
(* streams stay together: the client's and the server's invariants and     *)
(* what the network adds to them (client.py 39-64, server.py 21-52,        *)
(* base.py 150-185, 300-321).                                              *)
THEOREM TunnelInvariant == Spec => []TunnelInv
<1>1. TunnelInv /\ [Next]_vars => TunnelInv'
  <2> SUFFICES ASSUME TunnelInv, [Next]_vars
               PROVE  TunnelInv'
    OBVIOUS
  <2>1. CASE LocalSends
    BY <2>1, LocalSendsStep
  <2>2. CASE TargetSends
    BY <2>2, TargetSendsStep
  <2>3. CASE UpCut
    BY <2>3, UpCutStep
  <2>4. CASE Up
    BY <2>4, UpStep
  <2>5. CASE DownCut
    BY <2>5, DownCutStep
  <2>6. CASE Down
    BY <2>6, DownStep
  <2>7. CASE ClientTask
    BY <2>7, ClientTaskStep
  <2>8. CASE ServerTask
    BY <2>8, ServerTaskStep
  <2>9. CASE UNCHANGED vars
    <3>1. UNCHANGED c_vars /\ UNCHANGED s_vars /\ UNCHANGED net
      BY <2>9 DEF vars
    <3>2. ClientInv' /\ ServerInv'
      BY <3>1, ClientUnchanged, ServerUnchanged DEF TunnelInv
    <3>3. NetOK' /\ UpInv' /\ DownInv'
      BY <3>1 DEF c_vars, s_vars, net, TunnelInv, NetOK, UpInv, DownInv
    <3>4. QED
      BY <3>2, <3>3 DEF TunnelInv
  <2>10. QED
    BY <2>1, <2>2, <2>3, <2>4, <2>5, <2>6, <2>7, <2>8, <2>9 DEF Next
<1>2. QED
  BY <1>1, InitInv, PTL DEF Spec

(* No decryptor gets ahead of its encryptor, and the server's has followed *)
(* exactly as far as it has read, whatever the network cuts or joins       *)
(* (http_simple.py 32-60, server.py 21-52).                                *)
THEOREM DecryptorsInStep == Spec => []InStep
<1>1. TunnelInv => InStep
  <2> SUFFICES ASSUME TunnelInv PROVE InStep
    OBVIOUS
  <2>1. /\ Len(c_at_sender) <= Len(c_encrypted) /\ up_read <= Len(c_at_sender)
        /\ up_read \in Nat
        /\ Len(c_at_sender) \in Nat /\ Len(c_encrypted) \in Nat
    BY LenProperties DEF TunnelInv, ClientInv, CP!TypeOK, CP!TcpTypeOK, CP!KindInv,
                         UpInv, NetOK
  <2>2. ~s_garbled => s_deciphered \in {up_read, 0}
    BY DEF TunnelInv, UpInv, ServerInv, SP!TypeOK, SP!ServerInv, SP!DecryptorInStep
  <2>3. ~c_garbled => c_deciphered <= Len(s_encrypted)
    BY DEF TunnelInv, DownInv
  <2>4. QED
    BY <2>1, <2>2, <2>3 DEF InStep
<1>2. QED
  BY <1>1, TunnelInvariant, PTL

-----------------------------------------------------------------------------
(* The direction up implements Fifo.                                       *)

(* A beginning of a sequence, item by item.                                *)
LEMMA Prefix ==
    ASSUME NEW T, NEW s \in Seq(T), NEW m \in Nat, m <= Len(s)
    PROVE  /\ SubSeq(s, 1, m) \in Seq(T) /\ Len(SubSeq(s, 1, m)) = m
           /\ \A i \in 1..m : SubSeq(s, 1, m)[i] = s[i]
<1>1. \A i \in 1..m : s[i] \in T
  BY LenProperties, ElementOfSeq
<1>2. /\ SubSeq(s, 1, m) \in Seq(T)
      /\ Len(SubSeq(s, 1, m)) = IF 1 <= m THEN m - 1 + 1 ELSE 0
      /\ \A i \in 1..(m - 1 + 1) : SubSeq(s, 1, m)[i] = s[1 + i - 1]
  BY <1>1, SubSeqProperties
<1>3. QED
  BY <1>2

LEMMA BeginsWith ==
    ASSUME NEW T, NEW s \in Seq(T), NEW t \in Seq(T), Len(s) <= Len(t),
           \A i \in 1..Len(s) : s[i] = t[i]
    PROVE  UpFifo!Begins(s, t)
<1>1. Len(s) \in Nat
  BY LenProperties
<1>2. /\ SubSeq(t, 1, Len(s)) \in Seq(T) /\ Len(SubSeq(t, 1, Len(s))) = Len(s)
      /\ \A i \in 1..Len(s) : SubSeq(t, 1, Len(s))[i] = t[i]
  BY <1>1, Prefix
<1>3. \A i \in 1..Len(s) : s[i] = SubSeq(t, 1, Len(s))[i]
  BY <1>2
<1>4. s = SubSeq(t, 1, Len(s))
  BY <1>2, <1>3, SeqEqual
<1>5. QED
  BY <1>4 DEF UpFifo!Begins

(* What remains of the client's stream without the address.                *)
AfterFirst(s) == IF s = <<>> THEN <<>> ELSE Tail(s)

LEMMA AfterFirstItems ==
    ASSUME NEW T, NEW s \in Seq(T)
    PROVE  /\ AfterFirst(s) \in Seq(T)
           /\ Len(s) \in Nat
           /\ Len(AfterFirst(s)) = IF Len(s) = 0 THEN 0 ELSE Len(s) - 1
           /\ \A i \in 1..Len(AfterFirst(s)) : AfterFirst(s)[i] = s[i + 1]
<1>1. CASE s = <<>>
  BY <1>1 DEF AfterFirst
<1>2. CASE s # <<>>
  <2>1. AfterFirst(s) = Tail(s)
    BY <1>2 DEF AfterFirst
  <2>2. Len(s) \in Nat /\ Len(s) # 0
    BY <1>2, LenProperties, EmptySeq
  <2>3. /\ Tail(s) \in Seq(T) /\ Len(Tail(s)) = Len(s) - 1
        /\ \A i \in 1..Len(Tail(s)) : Tail(s)[i] = s[i + 1]
    BY <1>2, HeadTailProperties
  <2>4. QED
    BY <2>1, <2>2, <2>3
<1>3. QED
  BY <1>1, <1>2

(* It grows as the stream does.                                            *)
LEMMA AfterFirstGrows ==
    ASSUME NEW T, NEW s \in Seq(T), NEW more \in Seq(T)
    PROVE  /\ Len(AfterFirst(s)) <= Len(AfterFirst(s \o more))
           /\ \A i \in 1..Len(AfterFirst(s)) : AfterFirst(s)[i] = AfterFirst(s \o more)[i]
<1> DEFINE t == s \o more
           a == AfterFirst(s)
           b == AfterFirst(t)
<1>1. /\ t \in Seq(T) /\ Len(t) = Len(s) + Len(more) /\ Len(more) \in Nat
      /\ \A i \in 1..Len(s) : t[i] = s[i]
  BY ConcatProperties, LenProperties
<1> HIDE DEF t
<1>2. /\ Len(s) \in Nat /\ Len(a) = IF Len(s) = 0 THEN 0 ELSE Len(s) - 1
      /\ \A i \in 1..Len(a) : a[i] = s[i + 1]
  BY AfterFirstItems
<1>3. /\ Len(t) \in Nat /\ Len(b) = IF Len(t) = 0 THEN 0 ELSE Len(t) - 1
      /\ \A i \in 1..Len(b) : b[i] = t[i + 1]
  BY <1>1, AfterFirstItems
<1> HIDE DEF a, b
<1>4. Len(a) <= Len(b)
  BY <1>1, <1>2, <1>3
<1>5. ASSUME NEW i \in 1..Len(a)
      PROVE  a[i] = b[i]
  <2>1. i \in 1..Len(b) /\ i + 1 \in 1..Len(s)
    BY <1>2, <1>3, <1>4
  <2>2. QED
    BY <1>1, <1>2, <1>3, <2>1
<1>6. QED
  BY <1>4, <1>5 DEF a, b, t

(* What the target got is the beginning of what the program asked for.     *)
UpStreams ==
    /\ UpSent \in Seq(CP!Item)
    /\ Len(s_at_sender) \in Nat
    /\ Len(s_at_sender) <= Len(UpSent)
    /\ UpGot = SubSeq(UpSent, 1, Len(s_at_sender))

LEMMA UpIsPrefix ==
    ASSUME TunnelInv
    PROVE  UpStreams
<1> DEFINE g == Len(s_at_sender)
           e == Len(c_encrypted)
<1>1. c_encrypted \in Seq(CP!Item) /\ s_at_sender \in Seq(SP!Item)
  BY DEF TunnelInv, ClientInv, ServerInv, CP!TypeOK, CP!TcpTypeOK, SP!TypeOK, SP!TcpTypeOK
<1>2. g \in Nat /\ DOMAIN s_at_sender = 1..g
  BY <1>1, LenProperties
<1>3. /\ UpSent \in Seq(CP!Item) /\ e \in Nat
      /\ Len(UpSent) = IF e = 0 THEN 0 ELSE e - 1
      /\ \A i \in 1..Len(UpSent) : UpSent[i] = c_encrypted[i + 1]
  BY <1>1, AfterFirstItems DEF UpSent, AfterFirst
(* Something came out at the target only if the server follows the stream. *)
<1>4. g <= Len(UpSent)
  <2>1. CASE g = 0
    BY <1>3, <2>1
  <2>2. CASE g # 0
    <3>1. s_at_sender # <<>>
      BY <2>2
    <3>2. s_sender # "none"
      BY <3>1 DEF TunnelInv, ServerInv, SP!ServerInv, SP!SenderOnce
    <3>3. s_dns = "created"
      BY <3>2 DEF TunnelInv, ServerInv, SP!ServerInv, SP!SenderOnce
    <3>4. s_stage = 0
      BY <3>3 DEF TunnelInv, ServerInv, SP!ServerInv, SP!TargetNeedsAddress
    <3>5. g < s_deciphered
      BY <3>1 DEF TunnelInv, ServerInv, SP!ServerInv, SP!NoneAhead
    <3>6. up_read = s_deciphered /\ up_read <= Len(c_at_sender) /\ Len(c_at_sender) <= e
      BY <3>4 DEF TunnelInv, UpInv, ClientInv, CP!KindInv
    <3>7. up_read \in Nat /\ Len(c_at_sender) \in Nat
      BY LenProperties DEF TunnelInv, NetOK, ClientInv, CP!TypeOK, CP!TcpTypeOK
    <3>8. QED
      BY <1>2, <1>3, <3>5, <3>6, <3>7
  <2>3. QED
    BY <2>1, <2>2
<1>5. UpGot = [i \in 1..g |-> UpSent[i]]
  <2>1. \A i \in 1..g : s_at_sender[i] = SP!Unit("data", i + 1)
    BY <1>2 DEF TunnelInv, ServerInv, SP!ServerInv, SP!TargetStream
  <2>2. ASSUME NEW i \in 1..g
        PROVE  s_at_sender[i].tag = "data" /\ s_at_sender[i].n = i + 1
    <3>1. s_at_sender[i] = SP!Unit("data", i + 1)
      BY <2>1
    <3>2. QED
      BY <3>1 DEF SP!Unit
  <2>3. \A i \in 1..g : UpSent[i] = c_encrypted[i + 1]
    BY <1>2, <1>3, <1>4
  <2>4. UpGot = [i \in 1..g |-> IF s_at_sender[i].tag = "data" THEN c_encrypted[s_at_sender[i].n]
                                                               ELSE s_at_sender[i]]
    BY <1>2 DEF UpGot
  <2>5. QED
    BY <2>2, <2>3, <2>4
<1>6. SubSeq(UpSent, 1, g) = [i \in 1..g |-> UpSent[i]]
  <2>1. 1 + g - 1 = g /\ \A i \in 1..g : i + 1 - 1 = i
    BY <1>2
  <2>2. QED
    BY <1>2, <1>3, <1>4, <2>1, SubSeqProperties
<1>7. QED
  BY <1>2, <1>3, <1>4, <1>5, <1>6 DEF UpStreams

(* Where the client's stream grows, or nothing happens to it.              *)
LEMMA UpSendStep ==
    ASSUME TunnelInv, UpStreams, UpStreams', UNCHANGED s_at_sender,
           NEW msgs \in Seq(CP!Item), c_encrypted' = c_encrypted \o msgs
    PROVE  UpFifo!Send
<1> DEFINE g == Len(s_at_sender)
           s == AfterFirst(c_encrypted)
           t == AfterFirst(c_encrypted')
<1>1. /\ UpSent = s /\ UpSent' = t
  BY DEF UpSent, AfterFirst
<1>2. c_encrypted \in Seq(CP!Item)
  BY DEF TunnelInv, ClientInv, CP!TypeOK, CP!TcpTypeOK
<1>3. Len(s) <= Len(t) /\ \A i \in 1..Len(s) : s[i] = t[i]
  BY <1>2, AfterFirstGrows
<1>4. /\ s \in Seq(CP!Item) /\ t \in Seq(CP!Item)
      /\ g \in Nat /\ g <= Len(s) /\ g <= Len(t) /\ Len(s) \in Nat
      /\ UpGot = SubSeq(s, 1, g) /\ UpGot' = SubSeq(t, 1, g)
  BY <1>1, LenProperties DEF UpStreams
<1> HIDE DEF g, s, t
<1>5. UpFifo!Begins(s, t)
  BY <1>3, <1>4, BeginsWith
<1>6. SubSeq(s, 1, g) = SubSeq(t, 1, g)
  <2>1. /\ SubSeq(s, 1, g) \in Seq(CP!Item) /\ Len(SubSeq(s, 1, g)) = g
        /\ \A i \in 1..g : SubSeq(s, 1, g)[i] = s[i]
    BY <1>4, Prefix
  <2>2. /\ SubSeq(t, 1, g) \in Seq(CP!Item) /\ Len(SubSeq(t, 1, g)) = g
        /\ \A i \in 1..g : SubSeq(t, 1, g)[i] = t[i]
    BY <1>4, Prefix
  <2>3. \A i \in 1..g : i \in 1..Len(s)
    BY <1>4
  <2>4. \A i \in 1..g : SubSeq(s, 1, g)[i] = SubSeq(t, 1, g)[i]
    BY <1>3, <2>1, <2>2, <2>3
  <2>5. QED
    BY <2>1, <2>2, <2>4, SeqEqual
<1>7. QED
  BY <1>1, <1>4, <1>5, <1>6 DEF UpFifo!Send

(* Where the target gets something, or nothing changes for it.             *)
LEMMA UpDeliverStep ==
    ASSUME UpStreams, UpStreams', UNCHANGED c_encrypted,
           Len(s_at_sender) <= Len(s_at_sender')
    PROVE  UpFifo!Deliver
<1> DEFINE g == Len(s_at_sender)
           h == Len(s_at_sender')
           s == AfterFirst(c_encrypted)
<1>1. UpSent = s /\ UpSent' = s
  BY DEF UpSent, AfterFirst
<1>2. /\ s \in Seq(CP!Item) /\ g \in Nat /\ h \in Nat /\ g <= h /\ h <= Len(s)
      /\ UpGot = SubSeq(s, 1, g) /\ UpGot' = SubSeq(s, 1, h) /\ Len(s) \in Nat
  BY <1>1, LenProperties DEF UpStreams
<1> HIDE DEF g, h, s
<1>3. /\ UpGot \in Seq(CP!Item) /\ Len(UpGot) = g
      /\ \A i \in 1..g : UpGot[i] = s[i]
  <2>1. g <= Len(s)
    BY <1>2
  <2>2. QED
    BY <1>2, <2>1, Prefix
<1>4. /\ UpGot' \in Seq(CP!Item) /\ Len(UpGot') = h
      /\ \A i \in 1..h : UpGot'[i] = s[i]
  BY <1>2, Prefix
<1>5. UpFifo!Begins(UpGot', s)
  BY <1>2, <1>4, BeginsWith
<1>6. UpFifo!Begins(UpGot, UpGot')
  <2>1. \A i \in 1..g : i \in 1..h
    BY <1>2
  <2>2. \A i \in 1..Len(UpGot) : UpGot[i] = UpGot'[i]
    BY <1>3, <1>4, <2>1
  <2>3. QED
    BY <1>2, <1>3, <1>4, <2>2, BeginsWith
<1>7. QED
  BY <1>1, <1>5, <1>6 DEF UpFifo!Deliver

(* The target gets what the local program asked the client to relay, in    *)
(* that order, each unit once, with no gap and nothing else between,       *)
(* however the network cuts and joins and whatever fails (base.py 28-33,   *)
(* 165-185, client.py 39-64, server.py 21-52).                             *)
THEOREM UpStreamIsFifo == Spec => UpIsFifo
<1>1. TunnelInv => UpStreams
  BY UpIsPrefix
<1>2. Init => UpFifo!Init
  <2> SUFFICES ASSUME Init PROVE UpFifo!Init
    OBVIOUS
  <2>1. c_encrypted = <<>> /\ s_at_sender = <<>>
    BY DEF Init, C!Init, C!TcpInit, S!Init, S!TcpInit
  <2>2. DOMAIN s_at_sender = {}
    BY <2>1
  <2>3. UpGot = <<>>
    BY <2>2 DEF UpGot
  <2>4. QED
    BY <2>1, <2>3 DEF UpSent, UpFifo!Init
<1>3. ASSUME TunnelInv, UpStreams, UpStreams', [Next]_vars
      PROVE  [UpFifo!Send \/ UpFifo!Deliver]_<<UpSent, UpGot>>
  <2>1. ASSUME UNCHANGED <<c_encrypted, s_at_sender>>
        PROVE  UpFifo!Deliver
    <3>1. Len(s_at_sender) <= Len(s_at_sender')
      BY <2>1 DEF UpStreams
    <3>2. QED
      BY <1>3, <2>1, <3>1, UpDeliverStep
  <2>2. CASE LocalSends
    BY <1>3, <2>2, LocalSendsStep, UpSendStep
  <2>3. CASE TargetSends \/ UpCut \/ Up \/ DownCut \/ Down \/ ClientTask
    BY <1>3, <2>1, <2>3, TargetSendsStep, UpCutStep, UpStep, DownCutStep, DownStep,
       ClientTaskStep
  <2>4. CASE ServerTask
    <3>1. /\ UNCHANGED c_encrypted
          /\ s_at_sender' \in {s_at_sender, s_at_sender \o s_to_sender_queue}
      BY <1>3, <2>4, ServerTaskStep
    <3>2. s_at_sender \in Seq(SP!Item) /\ s_to_sender_queue \in Seq(SP!Item)
      BY <1>3 DEF TunnelInv, ServerInv, SP!TypeOK, SP!TcpTypeOK
    <3>3. /\ Len(s_at_sender \o s_to_sender_queue) = Len(s_at_sender) + Len(s_to_sender_queue)
          /\ Len(s_at_sender) \in Nat /\ Len(s_to_sender_queue) \in Nat
      BY <3>2, ConcatProperties, LenProperties
    <3>4. Len(s_at_sender) <= Len(s_at_sender')
      BY <3>1, <3>3
    <3>5. QED
      BY <1>3, <3>1, <3>4, UpDeliverStep
  <2>5. CASE UNCHANGED vars
    <3>1. UNCHANGED <<c_encrypted, s_at_sender>>
      BY <2>5 DEF vars, c_vars, s_vars
    <3>2. QED
      BY <2>1, <3>1
  <2>6. QED
    BY <1>3, <2>2, <2>3, <2>4, <2>5 DEF Next
<1>4. QED
  BY <1>1, <1>2, <1>3, TunnelInvariant, PTL DEF Spec, UpIsFifo, UpFifo!Spec

-----------------------------------------------------------------------------
(* The direction down, until the client misreads the response.             *)

(* The client has dropped the response and decrypted all that it read      *)
(* since, as long as it took the response alone for the response; and what *)
(* the server wrote is the response and its stream.                        *)
DownRead ==
    /\ CP!ReadyInv /\ SP!AnswerOnWire
    /\ c_out_stage # 0 => down_read = 0 /\ c_deciphered = 0 /\ ~down_cut /\ ~misread
    /\ ~misread => /\ ~down_cut
                   /\ c_out_stage = 0 => down_read = c_deciphered + 1
                   /\ CP!LocalInv /\ CP!LocalGot

LEMMA InitDown == Init => DownRead
<1> SUFFICES ASSUME Init PROVE DownRead
  OBVIOUS
<1>1. /\ c_encrypted = <<>> /\ c_at_sender = <<>> /\ c_to_sender_queue = <<>>
      /\ c_residual = <<>> /\ c_at_local = <<>> /\ c_to_local_queue = <<>>
      /\ c_deciphered = 0 /\ ~c_garbled /\ c_proto = "none" /\ c_stage = 4
      /\ c_out_stage = 1 /\ s_at_local = <<>>
      /\ down_read = 0 /\ ~down_cut /\ ~misread
  BY DEF Init, C!Init, C!TcpInit, S!Init, S!TcpInit
<1>2. CP!ReadyInv /\ SP!AnswerOnWire
  <2>1. DOMAIN s_at_local = {}
    BY <1>1
  <2>2. QED
    BY <1>1, <2>1 DEF CP!ReadyInv, SP!AnswerOnWire
<1>3. CP!Units("data", 0, 0) = <<>> /\ <<>> \o <<>> = <<>>
  BY DEF CP!Units
<1>4. CP!AnsweredWith(<<>>) /\ <<>> \in CP!Answers
  BY <1>1, <1>3 DEF CP!AnsweredWith, CP!Answers
<1>5. CP!LocalInv
  BY <1>1, <1>4 DEF CP!LocalInv
<1>6. CP!LocalGot
  <2>1. 0 \in Nat /\ 0 <= c_deciphered /\ c_at_local = <<>> \o CP!Units("data", 0, 0)
    BY <1>1, <1>3
  <2>2. QED
    BY <1>4, <2>1 DEF CP!LocalGot
<1>7. QED
  BY <1>1, <1>2, <1>5, <1>6 DEF DownRead

(* The lemmas about the client's handlers, for this part.                  *)
LEMMA ClientLocalDown ==
    ASSUME ClientInv, CP!ReadyInv, NEW u \in CP!Item, CP!LocalStep(u)
    PROVE  /\ CP!ReadyInv'
           /\ CP!LocalInv => CP!LocalInv'
           /\ CP!LocalGot => CP!LocalGot'
           /\ UNCHANGED <<c_at_local, c_deciphered>>
           /\ c_out_stage' = 0 <=> c_out_stage = 0
<1>1. CP!TypeOK
  BY DEF ClientInv
<1>2. CP!ReadyInv'
  BY <1>1, CP!LocalStepReady, TunnelBounds, TunnelParam
  DEF CP!ClientBounds, CP!HashParamAssumption
<1>3. CP!LocalInv => CP!LocalInv'
  BY <1>1, CP!LocalStepLocal, TunnelBounds, TunnelParam
  DEF CP!ClientBounds, CP!HashParamAssumption
<1>4. CP!LocalGot => CP!LocalGot'
  BY <1>1, CP!LocalStepGot, TunnelBounds, TunnelParam
  DEF CP!ClientBounds, CP!HashParamAssumption
<1>5. QED
  BY <1>1, <1>2, <1>3, <1>4, CP!LocalStepFrame, TunnelBounds, TunnelParam
  DEF CP!ClientBounds, CP!HashParamAssumption

LEMMA ClientSenderDown ==
    ASSUME ClientInv, CP!ReadyInv, NEW us \in Seq(CP!Item), CP!SenderStep(us)
    PROVE  /\ CP!ReadyInv'
           /\ CP!LocalGot => CP!LocalGot'
           /\ UNCHANGED c_at_local
<1>1. CP!TypeOK
  BY DEF ClientInv
<1>2. CP!ReadyInv'
  BY <1>1, CP!SenderStepReady, TunnelBounds, TunnelParam
  DEF CP!ClientBounds, CP!HashParamAssumption
<1>3. CP!LocalGot => CP!LocalGot'
  BY <1>1, CP!SenderStepGot, TunnelBounds, TunnelParam
  DEF CP!ClientBounds, CP!HashParamAssumption
<1>4. UNCHANGED c_at_local
  BY DEF CP!SenderStep, CP!ServerResponded, CP!RelayToLocal, CP!DecryptFails, CP!localVars
<1>5. QED
  BY <1>2, <1>3, <1>4

LEMMA ClientTcpDown ==
    ASSUME ClientInv, CP!ReadyInv, CP!TcpNext, UNCHANGED CP!clientVars
    PROVE  /\ CP!ReadyInv'
           /\ CP!LocalInv => CP!LocalInv'
           /\ CP!LocalInv /\ CP!LocalGot => CP!LocalGot'
           /\ c_at_local' \in {c_at_local, c_at_local \o c_to_local_queue}
           /\ UNCHANGED <<c_deciphered, c_out_stage>>
<1>1. CP!TypeOK
  BY DEF ClientInv
<1>2. CP!ReadyInv'
  BY <1>1, CP!TcpNextReady, TunnelBounds, TunnelParam
  DEF CP!ClientBounds, CP!HashParamAssumption
<1>3. CP!LocalInv => CP!LocalInv'
  BY <1>1, CP!TcpNextLocal, TunnelBounds, TunnelParam
  DEF CP!ClientBounds, CP!HashParamAssumption
<1>4. CP!LocalInv /\ CP!LocalGot => CP!LocalGot'
  BY <1>1, CP!TcpNextGot, TunnelBounds, TunnelParam
  DEF CP!ClientBounds, CP!HashParamAssumption
<1>5. /\ c_at_local' \in {c_at_local, c_at_local \o c_to_local_queue}
      /\ UNCHANGED c_deciphered
  BY CP!TcpNextFrame, TunnelBounds, TunnelParam
  DEF CP!ClientBounds, CP!HashParamAssumption, CP!cryptVars
<1>6. QED
  BY <1>2, <1>3, <1>4, <1>5 DEF CP!clientVars

(* Steps that leave the client as it is.                                   *)
LEMMA DownReadUnchanged ==
    ASSUME DownRead, UNCHANGED <<c_vars, down_read, down_cut, misread>>, SP!AnswerOnWire'
    PROVE  DownRead'
<1> USE DEF c_vars
<1>1. CP!ReadyInv'
  BY DEF DownRead, CP!ReadyInv
<1>2. CP!LocalInv => CP!LocalInv'
  BY DEF CP!LocalInv, CP!AnsweredWith, CP!Answers, CP!Method, CP!Unit, CP!Units
<1>3. CP!LocalGot => CP!LocalGot'
  BY DEF CP!LocalGot, CP!Answers, CP!Unit, CP!Units
<1>4. QED
  BY <1>1, <1>2, <1>3 DEF DownRead

LEMMA AnswerUnchanged ==
    ASSUME SP!AnswerOnWire, UNCHANGED s_at_local
    PROVE  SP!AnswerOnWire'
BY DEF SP!AnswerOnWire, SP!Unit

(* How a step changes the two ends of the direction down.                  *)
DownFrame ==
    \/ /\ UNCHANGED <<c_at_local, misread>>
       /\ \E us \in Seq(SP!Item) : s_encrypted' = s_encrypted \o us
    \/ /\ UNCHANGED <<s_encrypted, misread>>
       /\ c_at_local' \in {c_at_local, c_at_local \o c_to_local_queue}
    \/ UNCHANGED <<s_encrypted, c_at_local>>

(* The steps of the server and of what comes to it.                        *)
LEMMA ServerDown ==
    ASSUME TunnelInv, DownRead, TargetSends \/ UpCut \/ Up \/ ServerTask
    PROVE  DownRead' /\ DownFrame
<1>1. UNCHANGED <<c_vars, down_read, down_cut, misread>>
  BY DEF TargetSends, UpCut, Up, ServerTask, net
<1>2. CASE TargetSends
  <2> DEFINE us == <<C!Unit("data", Len(s_encrypted) + 1)>>
  <2>1. s_at_local' = s_at_local /\ s_encrypted' = s_encrypted \o us
    BY <1>2 DEF TargetSends, S!RelayToLocal
  <2>2. us \in Seq(SP!Item)
    <3>1. Len(s_encrypted) \in Nat
      BY LenProperties DEF TunnelInv, ServerInv, SP!TypeOK, SP!TcpTypeOK
    <3>2. C!Unit("data", Len(s_encrypted) + 1) \in SP!Item
      BY <3>1 DEF C!Unit, SP!Item, SP!Tags
    <3>3. QED
      BY <3>2
  <2> HIDE DEF us
  <2>3. DownRead'
    BY <1>1, <2>1, AnswerUnchanged, DownReadUnchanged DEF DownRead
  <2>4. QED
    BY <1>1, <2>1, <2>2, <2>3 DEF DownFrame, c_vars
<1>3. CASE UpCut \/ Up
  <2>1. UNCHANGED <<s_at_local, s_encrypted>>
    BY <1>3 DEF UpCut, Up, S!RequestRefused, S!RequestAccepted, S!RelayToSender,
                S!DecryptFails, S!Respond, S!NoReply, S!cryptVars
  <2>2. DownRead'
    BY <1>1, <2>1, AnswerUnchanged, DownReadUnchanged DEF DownRead
  <2>3. QED
    BY <1>1, <2>1, <2>2 DEF DownFrame, c_vars
<1>4. CASE ServerTask
  <2>1. SP!TcpNext
    BY <1>4, ServerTasks
  <2>2. UNCHANGED s_encrypted
    BY <2>1, SP!TcpNextFrame, TunnelBounds DEF SP!ServerBounds, SP!cryptVars
  <2>3. SP!AnswerOnWire'
    BY <2>1, SP!TcpNextAnswer, TunnelBounds
    DEF SP!ServerBounds, TunnelInv, ServerInv, DownRead
  <2>4. DownRead'
    BY <1>1, <2>3, DownReadUnchanged
  <2>5. QED
    BY <1>1, <2>2, <2>4 DEF DownFrame, c_vars
<1>5. QED
  BY <1>2, <1>3, <1>4

(* What the client reads next is what its decryptor waits for.             *)
LEMMA DownUnits ==
    ASSUME TunnelInv, DownRead, ~misread, c_out_stage = 0,
           NEW k \in 1..(Len(s_at_local) - down_read)
    PROVE  DownSegment(k) = CP!Units("cipher", c_deciphered, k)
<1>1. /\ s_at_local \in Seq(SP!Item) /\ Len(s_at_local) \in Nat
      /\ DOMAIN s_at_local = 1..Len(s_at_local)
      /\ c_deciphered \in Nat /\ down_read = c_deciphered + 1 /\ ~down_cut
  BY LenProperties
  DEF TunnelInv, ClientInv, ServerInv, CP!TypeOK, CP!TcpTypeOK, SP!TypeOK,
      SP!TcpTypeOK, DownRead
<1>2. DownSegment(k) = [i \in 1..k |-> s_at_local[down_read + i]]
  BY <1>1 DEF DownSegment, Segment
<1>3. ASSUME NEW i \in 1..k
      PROVE  s_at_local[down_read + i] = CP!Unit("cipher", c_deciphered + i)
  <2>1. /\ down_read + i \in DOMAIN s_at_local /\ down_read + i # 1
        /\ (down_read + i) - 1 = c_deciphered + i
    BY <1>1
  <2>2. s_at_local[down_read + i] = SP!Unit("cipher", (down_read + i) - 1)
    BY <2>1 DEF DownRead, SP!AnswerOnWire
  <2>3. QED
    BY <2>1, <2>2 DEF SP!Unit, CP!Unit
<1>4. QED
  BY <1>2, <1>3 DEF CP!Units

(* The steps of the client and of what comes to it.                        *)
LEMMA LocalSendsDown ==
    ASSUME TunnelInv, DownRead, LocalSends
    PROVE  DownRead' /\ DownFrame
<1>1. PICK u \in CP!Item : CP!LocalStep(u) /\ UNCHANGED <<s_vars, net>>
  BY ClientSends DEF TunnelInv
<1>2. /\ CP!ReadyInv' /\ (CP!LocalInv => CP!LocalInv') /\ (CP!LocalGot => CP!LocalGot')
      /\ UNCHANGED <<c_at_local, c_deciphered>>
      /\ c_out_stage' = 0 <=> c_out_stage = 0
  BY <1>1, ClientLocalDown DEF TunnelInv, DownRead
<1>3. SP!AnswerOnWire'
  BY <1>1, AnswerUnchanged DEF DownRead, s_vars
<1>4. UNCHANGED <<down_read, down_cut, misread, s_encrypted>>
  BY <1>1 DEF net, s_vars
<1>5. DownRead'
  BY <1>2, <1>3, <1>4 DEF DownRead
<1>6. QED
  BY <1>2, <1>4, <1>5 DEF DownFrame

LEMMA ClientTaskDown ==
    ASSUME TunnelInv, DownRead, ClientTask
    PROVE  DownRead' /\ DownFrame
<1>1. CP!TcpNext /\ UNCHANGED <<CP!clientVars, s_vars, net>>
  BY ClientTasks
<1>2. /\ CP!ReadyInv' /\ (CP!LocalInv => CP!LocalInv')
      /\ CP!LocalInv /\ CP!LocalGot => CP!LocalGot'
      /\ c_at_local' \in {c_at_local, c_at_local \o c_to_local_queue}
      /\ UNCHANGED <<c_deciphered, c_out_stage>>
  BY <1>1, ClientTcpDown DEF TunnelInv, DownRead
<1>3. SP!AnswerOnWire'
  BY <1>1, AnswerUnchanged DEF DownRead, s_vars
<1>4. UNCHANGED <<down_read, down_cut, misread, s_encrypted>>
  BY <1>1 DEF net, s_vars
<1>5. DownRead'
  BY <1>2, <1>3, <1>4 DEF DownRead
<1>6. QED
  BY <1>2, <1>4, <1>5 DEF DownFrame

LEMMA DownCutDown ==
    ASSUME TunnelInv, DownRead, DownCut
    PROVE  DownRead' /\ DownFrame
<1>1. CP!ServerResponded /\ misread' = TRUE /\ UNCHANGED s_vars
  BY ClientReads DEF DownCut
<1>2. CP!SenderStep(<<>>) /\ <<>> \in Seq(CP!Item)
  BY <1>1 DEF CP!SenderStep
<1>3. CP!ReadyInv' /\ UNCHANGED c_at_local
  BY <1>2, ClientSenderDown DEF TunnelInv, DownRead
<1>4. c_out_stage' = 0
  BY <1>1 DEF CP!ServerResponded
<1>5. SP!AnswerOnWire'
  BY <1>1, AnswerUnchanged DEF DownRead, s_vars
<1>6. QED
  BY <1>1, <1>3, <1>4, <1>5 DEF DownRead, DownFrame, s_vars

LEMMA DownDown ==
    ASSUME TunnelInv, DownRead, Down
    PROVE  DownRead' /\ DownFrame
<1>1. PICK k \in 1..(Len(s_at_local) - down_read) :
          /\ down_read' = down_read + k
          /\ \/ C!ServerResponded /\ misread' = (k > 1)
             \/ /\ C!RelayToLocal(DownSegment(k)) \/ C!DecryptFails(DownSegment(k))
                /\ UNCHANGED misread
  BY DEF Down
<1> DEFINE us == DownSegment(k)
<1>2. down_cut' = FALSE /\ UNCHANGED <<s_vars, up_read, up_cut>>
  BY DEF Down
<1>3. k \in Nat \ {0} /\ us \in Seq(CP!Item) /\ Len(us) = k
  BY DownSegments
<1>4. ~misread /\ c_out_stage = 0 => us = CP!Units("cipher", c_deciphered, k)
  BY DownUnits
<1>5. CP!TypeOK /\ ClientInv /\ c_deciphered \in Nat /\ down_read \in Nat /\ misread \in BOOLEAN
  BY DEF TunnelInv, ClientInv, NetOK, CP!TypeOK, CP!TcpTypeOK
<1>6. SP!AnswerOnWire'
  BY <1>2, AnswerUnchanged DEF DownRead, s_vars
<1>7. /\ CP!ServerResponded /\ misread' = (k > 1)
      \/ /\ CP!RelayToLocal(us) \/ CP!DecryptFails(us)
         /\ UNCHANGED misread
  BY <1>1, ClientReads
<1> HIDE DEF us
<1>8. CP!SenderStep(us)
  BY <1>7 DEF CP!SenderStep
<1>9. CP!ReadyInv' /\ (CP!LocalGot => CP!LocalGot') /\ UNCHANGED c_at_local
  BY <1>3, <1>5, <1>8, ClientSenderDown DEF DownRead
<1>10. ASSUME CP!ServerResponded, misread' = (k > 1)
       PROVE  DownRead'
  <2>1. /\ c_out_stage = 2 /\ c_out_stage' = 0
        /\ UNCHANGED <<c_deciphered, c_garbled>>
    BY <1>10 DEF CP!ServerResponded, CP!cryptVars
  <2>2. down_read = 0 /\ c_deciphered = 0 /\ ~misread
    BY <2>1 DEF DownRead
  <2>3. ~misread' => k = 1
    <3>1. ~misread' => ~(k > 1)
      BY <1>10, Zenon
    <3>2. ~(k > 1) => k = 1
      BY <1>3
    <3>3. QED
      BY <3>1, <3>2
  <2>4. ~misread' => down_read' = c_deciphered' + 1
    BY <1>1, <2>1, <2>2, <2>3
  <2>5. CP!LocalInv'
    <3>1. c_encrypted # <<>>
      BY <2>1 DEF TunnelInv, ClientInv, CP!KindInv
    <3>2. CP!SenderStep(CP!Units("cipher", c_deciphered, 0)) /\ 0 \in Nat
      BY <1>10 DEF CP!SenderStep
    <3>3. QED
      BY <1>5, <2>2, <3>1, <3>2, CP!SenderStepLocal, TunnelBounds, TunnelParam
      DEF CP!ClientBounds, CP!HashParamAssumption, DownRead
  <2>6. CP!LocalGot'
    BY <1>9, <2>2 DEF DownRead
  <2>7. QED
    BY <1>2, <1>6, <1>9, <2>1, <2>4, <2>5, <2>6 DEF DownRead
<1>11. ASSUME CP!RelayToLocal(us) \/ CP!DecryptFails(us), UNCHANGED misread
       PROVE  DownRead'
  <2>1. c_out_stage = 0 /\ c_out_stage' = 0
    BY <1>11 DEF CP!RelayToLocal, CP!DecryptFails, CP!clientVars
  <2>2. ASSUME ~misread
        PROVE  down_read' = c_deciphered' + 1 /\ CP!LocalInv' /\ CP!LocalGot'
    <3>1. us = CP!Units("cipher", c_deciphered, k) /\ k \in Nat
      BY <1>3, <1>4, <2>1, <2>2
    <3>2. CP!LocalInv /\ CP!LocalGot /\ down_read = c_deciphered + 1
      BY <2>1, <2>2 DEF DownRead
    <3>3. c_encrypted # <<>>
      BY <2>1 DEF TunnelInv, ClientInv, CP!KindInv
    <3>4. CP!LocalInv'
      BY <1>5, <1>8, <3>1, <3>2, <3>3, CP!SenderStepLocal, TunnelBounds, TunnelParam
      DEF CP!ClientBounds, CP!HashParamAssumption
    <3>5. ~CP!DecryptFails(us)
      BY <3>4 DEF CP!DecryptFails, CP!LocalInv
    <3>6. c_deciphered' = c_deciphered + k
      BY <1>3, <1>11, <3>5 DEF CP!RelayToLocal, CP!Decrypt
    <3>7. QED
      BY <1>1, <1>3, <1>5, <1>9, <3>2, <3>4, <3>6
  <2>3. QED
    BY <1>2, <1>6, <1>9, <1>11, <2>1, <2>2 DEF DownRead
<1>12. QED
  BY <1>2, <1>7, <1>9, <1>10, <1>11, <1>6 DEF DownFrame, s_vars

(* What the client has decrypted, and what the local program has been sent *)
(* and got of it, is what it has read, as long as it took the response     *)
(* alone for the response (http_simple.py 54-60, client.py 39-64).         *)
THEOREM DownReadInvariant == Spec => []DownRead
<1>1. TunnelInv /\ DownRead /\ [Next]_vars => DownRead'
  <2> SUFFICES ASSUME TunnelInv, DownRead, [Next]_vars
               PROVE  DownRead'
    OBVIOUS
  <2>1. CASE UNCHANGED vars
    BY <2>1, AnswerUnchanged, DownReadUnchanged DEF vars, net, s_vars, DownRead
  <2>2. QED
    BY <2>1, ServerDown, LocalSendsDown, ClientTaskDown, DownCutDown, DownDown DEF Next
<1>2. QED
  BY <1>1, InitDown, TunnelInvariant, PTL DEF Spec

(* The answers at the beginning of what the program got, and the payload   *)
(* behind them, of a sequence that is of this form.                        *)
AnswersIn(s) == Cardinality({i \in DOMAIN s : s[i].tag \notin {"data", "garbage"}})

PayloadIn(s, e) ==
    [i \in 1..(Len(s) - AnswersIn(s)) |->
        LET u == s[AnswersIn(s) + i]
        IN  IF u.tag = "data" THEN e[u.n] ELSE u]

LEMMA AnswersFirst ==
    ASSUME NEW r \in CP!Answers, NEW d \in Nat
    PROVE  LET s == r \o CP!Units("data", 0, d)
           IN  /\ r \in Seq(CP!Item) /\ Len(r) \in Nat
               /\ s \in Seq(CP!Item) /\ Len(s) = Len(r) + d
               /\ \A i \in 1..Len(r) : s[i].tag \notin {"data", "garbage"}
               /\ \A i \in 1..d : s[Len(r) + i] = CP!Unit("data", i)
<1> DEFINE us == CP!Units("data", 0, d)
           s  == r \o us
<1>1. /\ r \in Seq(CP!Item) /\ Len(r) \in Nat
      /\ \A i \in 1..Len(r) : r[i].tag \notin {"data", "garbage"}
  <2>1. r \in Seq(CP!Item)
    BY CP!AnswerTypes, TunnelBounds, TunnelParam
    DEF CP!ClientBounds, CP!HashParamAssumption
  <2>2. CASE r = <<>>
    BY <2>2
  <2>3. ASSUME NEW t \in {"method", "established"}, r = <<CP!Unit(t, 0)>>
        PROVE  \A i \in 1..Len(r) : r[i].tag \notin {"data", "garbage"}
    <3>1. Len(r) = 1 /\ r[1].tag = t
      BY <2>3 DEF CP!Unit
    <3>2. \A i \in 1..1 : i = 1
      OBVIOUS
    <3>3. QED
      BY <3>1, <3>2
  <2>4. ASSUME r = <<CP!Unit("method", 0), CP!Unit("success", 0)>>
        PROVE  \A i \in 1..Len(r) : r[i].tag \notin {"data", "garbage"}
    <3>1. Len(r) = 2 /\ r[1].tag = "method" /\ r[2].tag = "success"
      BY <2>4 DEF CP!Unit
    <3>2. \A i \in 1..2 : i = 1 \/ i = 2
      OBVIOUS
    <3>3. QED
      BY <3>1, <3>2
  <2>5. QED
    BY <2>1, <2>2, <2>3, <2>4 DEF CP!Answers
<1>2. us \in Seq(CP!Item) /\ Len(us) = d
  <2>1. us \in [1..d -> CP!Item]
    BY DEF CP!Units, CP!Unit, CP!Item, CP!Tags
  <2>2. us \in Seq(CP!Item)
    BY <2>1, SeqDef
  <2>3. QED
    BY <2>1, <2>2, LenProperties
<1>3. \A i \in 1..d : us[i] = CP!Unit("data", i)
  BY DEF CP!Units
<1> HIDE DEF us
<1>4. /\ s \in Seq(CP!Item) /\ Len(s) = Len(r) + d
      /\ \A i \in 1..(Len(r) + d) : s[i] = IF i <= Len(r) THEN r[i] ELSE us[i - Len(r)]
  BY <1>1, <1>2, ConcatProperties
<1>5. \A i \in 1..Len(r) : s[i] = r[i]
  BY <1>1, <1>4
<1>6. ASSUME NEW i \in 1..d
      PROVE  s[Len(r) + i] = CP!Unit("data", i)
  <2>1. Len(r) + i \in 1..(Len(r) + d) /\ ~(Len(r) + i <= Len(r)) /\ (Len(r) + i) - Len(r) = i
    BY <1>1
  <2>2. QED
    BY <1>3, <1>4, <2>1
<1>7. QED
  BY <1>1, <1>4, <1>5, <1>6 DEF us

(* So the payload is the first d of what its numbers refer to.             *)
LEMMA PayloadIs ==
    ASSUME NEW r \in CP!Answers, NEW d \in Nat, NEW e
    PROVE  PayloadIn(r \o CP!Units("data", 0, d), e) = [i \in 1..d |-> e[i]]
<1> DEFINE s == r \o CP!Units("data", 0, d)
           l == Len(r)
<1>1. /\ l \in Nat /\ s \in Seq(CP!Item) /\ Len(s) = l + d
      /\ \A i \in 1..l : s[i].tag \notin {"data", "garbage"}
      /\ \A i \in 1..d : s[l + i] = CP!Unit("data", i)
  BY AnswersFirst
<1> HIDE DEF s, l
<1>2. AnswersIn(s) = l
  <2>1. DOMAIN s = 1..(l + d)
    BY <1>1, LenProperties
  <2>2. ASSUME NEW i \in 1..(l + d), i > l
        PROVE  s[i].tag = "data"
    <3>1. i - l \in 1..d /\ l + (i - l) = i
      BY <1>1, <2>2
    <3>2. s[i] = CP!Unit("data", i - l)
      BY <1>1, <3>1
    <3>3. QED
      BY <3>2 DEF CP!Unit
  <2>3. {i \in DOMAIN s : s[i].tag \notin {"data", "garbage"}} = 1..l
    BY <1>1, <2>1, <2>2
  <2>4. Cardinality(1..l) = l
    BY <1>1, FS_Interval
  <2>5. QED
    BY <2>3, <2>4 DEF AnswersIn
<1>3. Len(s) - AnswersIn(s) = d
  BY <1>1, <1>2
<1>4. ASSUME NEW i \in 1..d
      PROVE  s[l + i].tag = "data" /\ s[l + i].n = i
  <2>1. s[l + i] = CP!Unit("data", i)
    BY <1>1
  <2>2. QED
    BY <2>1 DEF CP!Unit
<1>5. PayloadIn(s, e) = [i \in 1..d |-> e[i]]
  BY <1>2, <1>3, <1>4 DEF PayloadIn
<1>6. QED
  BY <1>5 DEF s

(* More of it never means less payload.                                    *)
LEMMA PayloadGrows ==
    ASSUME NEW r \in CP!Answers, NEW q \in CP!Answers, NEW d \in Nat, NEW c \in Nat,
           NEW more \in Seq(CP!Item),
           (r \o CP!Units("data", 0, d)) \o more = q \o CP!Units("data", 0, c)
    PROVE  d <= c
<1> DEFINE s == r \o CP!Units("data", 0, d)
           t == q \o CP!Units("data", 0, c)
           l == Len(r)
           m == Len(q)
<1>1. /\ l \in Nat /\ s \in Seq(CP!Item) /\ Len(s) = l + d
      /\ \A i \in 1..d : s[l + i] = CP!Unit("data", i)
  BY AnswersFirst
<1>2. /\ m \in Nat /\ Len(t) = m + c
      /\ \A i \in 1..m : t[i].tag \notin {"data", "garbage"}
  BY AnswersFirst
<1>3. s \o more = t
  OBVIOUS
<1> HIDE DEF s, t, l, m
<1>4. /\ Len(more) \in Nat /\ m + c = (l + d) + Len(more)
      /\ \A i \in 1..(l + d) : t[i] = s[i]
  <2>1. Len(more) \in Nat
    BY LenProperties
  <2>2. /\ Len(s \o more) = Len(s) + Len(more)
        /\ \A i \in 1..(Len(s) + Len(more)) :
              (s \o more)[i] = IF i <= Len(s) THEN s[i] ELSE more[i - Len(s)]
    BY <1>1, ConcatProperties
  <2>3. \A i \in 1..(l + d) : i \in 1..(Len(s) + Len(more)) /\ i <= Len(s)
    BY <1>1, <2>1
  <2>4. \A i \in 1..(l + d) : t[i] = s[i]
    BY <1>3, <2>2, <2>3
  <2>5. QED
    BY <1>1, <1>2, <1>3, <2>1, <2>2, <2>4
<1>5. CASE d > 0
  <2>1. 1 \in 1..d /\ l + 1 \in 1..(l + d)
    BY <1>1, <1>5
  <2>2. t[l + 1] = CP!Unit("data", 1)
    BY <1>1, <1>4, <2>1
  <2>3. t[l + 1].tag = "data"
    BY <2>2 DEF CP!Unit
  <2>4. l + 1 \notin 1..m
    BY <1>2, <2>3
  <2>5. QED
    BY <1>1, <1>2, <1>4, <2>4
<1>6. QED
  BY <1>5

(* What the local program got, as long as the client read the response     *)
(* right.                                                                  *)
DownStreams ==
    ~misread => \E r \in CP!Answers, d \in Nat :
                    /\ d <= Len(s_encrypted)
                    /\ c_at_local = r \o CP!Units("data", 0, d)

LEMMA DownIsPrefix ==
    ASSUME TunnelInv, DownRead
    PROVE  DownStreams
<1> SUFFICES ASSUME ~misread
             PROVE  \E r \in CP!Answers, d \in Nat :
                        /\ d <= Len(s_encrypted)
                        /\ c_at_local = r \o CP!Units("data", 0, d)
  BY DEF DownStreams
<1>1. PICK r \in CP!Answers, d \in Nat :
          d <= c_deciphered /\ c_at_local = r \o CP!Units("data", 0, d)
  BY DEF DownRead, CP!LocalGot
<1>2. c_deciphered \in Nat /\ c_deciphered <= Len(s_encrypted) /\ Len(s_encrypted) \in Nat
  <2>1. c_deciphered \in Nat
    BY DEF TunnelInv, ClientInv, CP!TypeOK, CP!TcpTypeOK
  <2>2. s_encrypted \in Seq(SP!Item)
    BY DEF TunnelInv, ServerInv, SP!TypeOK, SP!TcpTypeOK
  <2>3. c_deciphered <= Len(s_encrypted)
    BY DEF TunnelInv, DownInv, DownRead, CP!LocalInv
  <2>4. QED
    BY <2>1, <2>2, <2>3, LenProperties
<1>3. d \in Nat /\ d <= Len(s_encrypted)
  BY ONLY <1>1, <1>2
<1>4. QED
  BY <1>1, <1>3, Zenon

LEMMA DownGotIs ==
    ASSUME NEW r \in CP!Answers, NEW d \in Nat, c_at_local = r \o CP!Units("data", 0, d)
    PROVE  DownGot = [i \in 1..d |-> s_encrypted[i]]
<1>1. DownGot = PayloadIn(c_at_local, s_encrypted)
  BY DEF DownGot, OwnAnswers, PayloadIn, AnswersIn
<1>2. QED
  BY <1>1, PayloadIs

LEMMA DownGotIsNext ==
    ASSUME NEW r \in CP!Answers, NEW d \in Nat, c_at_local' = r \o CP!Units("data", 0, d)
    PROVE  DownGot' = [i \in 1..d |-> s_encrypted'[i]]
<1>1. DownGot' = PayloadIn(c_at_local', s_encrypted')
  BY DEF DownGot, OwnAnswers, PayloadIn, AnswersIn
<1>2. QED
  BY <1>1, PayloadIs

LEMMA Firsts ==
    ASSUME NEW T, NEW s \in Seq(T), NEW d \in Nat, d <= Len(s)
    PROVE  LET f == [i \in 1..d |-> s[i]]
           IN  /\ f \in Seq(T) /\ Len(f) = d
               /\ UpFifo!Begins(f, s)
<1> DEFINE f == [i \in 1..d |-> s[i]]
<1>1. Len(s) \in Nat /\ \A i \in 1..d : s[i] \in T
  BY LenProperties, ElementOfSeq
<1>2. f \in [1..d -> T]
  BY <1>1
<1>3. f \in Seq(T)
  BY <1>2, SeqDef
<1>4. Len(f) = d
  BY <1>2, <1>3, LenProperties
<1>5. \A i \in 1..d : f[i] = s[i]
  OBVIOUS
<1> HIDE DEF f
<1>6. UpFifo!Begins(f, s)
  BY <1>3, <1>4, <1>5, BeginsWith
<1>7. QED
  BY <1>3, <1>4, <1>6 DEF f

(* Where the target sends, and where the local program gets something.     *)
LEMMA DownSendStep ==
    ASSUME TunnelInv, DownStreams, ~misread, UNCHANGED c_at_local,
           NEW us \in Seq(SP!Item), s_encrypted' = s_encrypted \o us
    PROVE  DownFifo!Send
<1>1. PICK r \in CP!Answers, d \in Nat :
          d <= Len(s_encrypted) /\ c_at_local = r \o CP!Units("data", 0, d)
  BY DEF DownStreams
<1>2. /\ DownGot = [i \in 1..d |-> s_encrypted[i]]
      /\ DownGot' = [i \in 1..d |-> s_encrypted'[i]]
  BY <1>1, DownGotIs, DownGotIsNext
<1>3. /\ s_encrypted \in Seq(SP!Item) /\ s_encrypted' \in Seq(SP!Item)
      /\ Len(s_encrypted) \in Nat /\ Len(s_encrypted) <= Len(s_encrypted')
      /\ \A i \in 1..Len(s_encrypted) : s_encrypted[i] = s_encrypted'[i]
  <2>1. s_encrypted \in Seq(SP!Item)
    BY DEF TunnelInv, ServerInv, SP!TypeOK, SP!TcpTypeOK
  <2>2. /\ s_encrypted' \in Seq(SP!Item)
        /\ Len(s_encrypted') = Len(s_encrypted) + Len(us)
        /\ \A i \in 1..(Len(s_encrypted) + Len(us)) :
              s_encrypted'[i] = IF i <= Len(s_encrypted) THEN s_encrypted[i]
                                ELSE us[i - Len(s_encrypted)]
    BY <2>1, ConcatProperties
  <2>3. Len(s_encrypted) \in Nat /\ Len(us) \in Nat
    BY <2>1, LenProperties
  <2>4. \A i \in 1..Len(s_encrypted) : s_encrypted[i] = s_encrypted'[i]
    BY <2>2, <2>3
  <2>5. QED
    BY <2>1, <2>2, <2>3, <2>4
<1>4. \A i \in 1..d : s_encrypted[i] = s_encrypted'[i]
  BY <1>1, <1>3
<1>5. UNCHANGED DownGot
  BY <1>2, <1>4
<1>6. UpFifo!Begins(s_encrypted, s_encrypted')
  BY <1>3, BeginsWith
<1>7. DownFifo!Begins(DownSent, DownSent')
  BY <1>6 DEF UpFifo!Begins, DownFifo!Begins, DownSent
<1>8. QED
  BY <1>5, <1>7 DEF DownFifo!Send

LEMMA DownDeliverStep ==
    ASSUME TunnelInv, DownStreams, DownStreams', ~misread, ~misread',
           UNCHANGED s_encrypted,
           c_at_local' \in {c_at_local, c_at_local \o c_to_local_queue}
    PROVE  DownFifo!Deliver
<1>1. PICK r \in CP!Answers, d \in Nat :
          d <= Len(s_encrypted) /\ c_at_local = r \o CP!Units("data", 0, d)
  BY DEF DownStreams
<1>2. PICK q \in CP!Answers, c \in Nat :
          c <= Len(s_encrypted') /\ c_at_local' = q \o CP!Units("data", 0, c)
  BY DEF DownStreams
<1>3. /\ DownGot = [i \in 1..d |-> s_encrypted[i]]
      /\ DownGot' = [i \in 1..c |-> s_encrypted[i]]
  BY <1>1, <1>2, DownGotIs, DownGotIsNext
<1>4. d <= c
  <2>1. c_at_local \in Seq(CP!Item) /\ c_to_local_queue \in Seq(CP!Item)
    BY DEF TunnelInv, ClientInv, CP!TypeOK, CP!TcpTypeOK
  <2>2. \E more \in Seq(CP!Item) : c_at_local' = c_at_local \o more
    <3>1. <<>> \in Seq(CP!Item) /\ c_at_local \o <<>> = c_at_local
      BY <2>1, EmptySeq, ConcatEmptySeq
    <3>2. QED
      BY <2>1, <3>1
  <2>3. QED
    BY <1>1, <1>2, <2>2, PayloadGrows
<1>5. s_encrypted \in Seq(SP!Item)
  BY DEF TunnelInv, ServerInv, SP!TypeOK, SP!TcpTypeOK
<1>6. /\ DownGot \in Seq(SP!Item) /\ Len(DownGot) = d
      /\ DownGot' \in Seq(SP!Item) /\ Len(DownGot') = c
      /\ UpFifo!Begins(DownGot', s_encrypted)
  BY <1>1, <1>2, <1>3, <1>5, Firsts
<1>7. \A i \in 1..d : DownGot[i] = DownGot'[i]
  BY <1>3, <1>4
<1>8. UpFifo!Begins(DownGot, DownGot')
  BY <1>4, <1>6, <1>7, BeginsWith
<1>9. QED
  BY <1>6, <1>8 DEF UpFifo!Begins, DownFifo!Begins, DownFifo!Deliver, DownSent

(* As long as the client's first segment was the HTTP response alone, the  *)
(* local program gets what the target sent: behind the answers of its own  *)
(* proxy, in that order, each unit once and with no gap, however else the  *)
(* network cuts and joins and whatever fails (base.py 187-196, client.py   *)
(* 39-64, http_simple.py 54-60).                                           *)
THEOREM DownStreamUntilMisread == Spec => DownUntilMisread
<1>1. TunnelInv /\ DownRead => DownStreams
  BY DownIsPrefix
<1>2. Init => DownFifo!Init
  <2> SUFFICES ASSUME Init PROVE DownFifo!Init
    OBVIOUS
  <2>1. c_at_local = <<>> /\ s_encrypted = <<>>
    BY DEF Init, C!Init, C!TcpInit, S!Init, S!TcpInit
  <2>2. <<>> \in CP!Answers /\ c_at_local = <<>> \o CP!Units("data", 0, 0)
    BY <2>1 DEF CP!Answers, CP!Units
  <2>3. DownGot = [i \in 1..0 |-> s_encrypted[i]]
    BY <2>2, DownGotIs
  <2>4. DownGot = <<>>
    BY <2>3
  <2>5. QED
    BY <2>1, <2>4 DEF DownFifo!Init, DownSent
<1>3. ASSUME TunnelInv, DownRead, DownStreams, DownStreams', [Next]_vars
      PROVE  [misread \/ DownFifo!Send \/ DownFifo!Deliver]_<<DownSent, DownGot>>
  <2> SUFFICES ASSUME ~misread
               PROVE  DownFifo!Send \/ DownFifo!Deliver \/ UNCHANGED <<DownSent, DownGot>>
    OBVIOUS
  <2>1. DownFrame
    <3>1. CASE UNCHANGED vars
      BY <3>1 DEF vars, c_vars, s_vars, DownFrame
    <3>2. QED
      BY <1>3, <3>1, ServerDown, LocalSendsDown, ClientTaskDown, DownCutDown, DownDown
      DEF Next
  <2>2. CASE /\ UNCHANGED <<c_at_local, misread>>
             /\ \E us \in Seq(SP!Item) : s_encrypted' = s_encrypted \o us
    BY <1>3, <2>2, DownSendStep
  <2>3. CASE /\ UNCHANGED <<s_encrypted, misread>>
             /\ c_at_local' \in {c_at_local, c_at_local \o c_to_local_queue}
    BY <1>3, <2>3, DownDeliverStep
  <2>4. CASE UNCHANGED <<s_encrypted, c_at_local>>
    BY <2>4 DEF DownSent, DownGot, OwnAnswers
  <2>5. QED
    BY <2>1, <2>2, <2>3, <2>4 DEF DownFrame
<1>4. QED
  BY <1>1, <1>2, <1>3, TunnelInvariant, DownReadInvariant, PTL
  DEF Spec, DownUntilMisread
=============================================================================
