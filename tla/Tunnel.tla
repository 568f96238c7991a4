------------------------------- MODULE Tunnel -------------------------------
(***************************************************************************)
(* A client proxy and a server proxy joined by a TCP connection: what the  *)
(* local program writes comes out at the target, and back.  ClientProtocol *)
(* (c_...) and ServerProtocol (s_...) are taken whole; this module adds    *)
(* the network between them, which cuts and joins segments as TCP may, and *)
(* the two ends that number the payload they send.                         *)
(*                                                                         *)
(* The bytes under way are what one side wrote and the other has not read: *)
(* c_at_sender after up_read, s_at_local after down_read.                  *)
(***************************************************************************)
EXTENDS Naturals, Sequences, FiniteSets

CONSTANTS
    HashParam,      \* as in ClientProtocol: then no request can be built
    CleanSegments,  \* do the HTTP request and response arrive each in a
                    \* segment, the response in one of its own?
    Faults,         \* may lookups, connection attempts and connections fail?
    Openings,       \* the ways the local program may open: "Socks5",
                    \* "HttpConnect", "HttpRequest"
    MaxUp, MaxDown  \* bounds: units sent each way

ASSUME TunnelParam == HashParam \in BOOLEAN
ASSUME TunnelBounds == MaxUp \in Nat /\ MaxDown \in Nat

VARIABLES
    c_transport, c_task, c_dns, c_sender, c_sender_task, c_to_sender_queue,
    c_to_local_queue, c_at_sender, c_at_local, c_encrypted, c_deciphered,
    c_garbled, c_proto, c_stage, c_out_stage, c_residual,
    s_transport, s_task, s_dns, s_sender, s_sender_task, s_to_sender_queue,
    s_to_local_queue, s_at_sender, s_at_local, s_encrypted, s_deciphered,
    s_garbled, s_stage,
    up_read,        \* how many units the server has read from the client
    down_read,      \* how many units the client has read from the server
    up_cut,         \* was a first piece of the HTTP request read already?
    down_cut,       \* was a first piece of the HTTP response read already?
    misread         \* history: did the client's first segment hold anything
                    \* but the HTTP response?

c_vars == <<c_transport, c_task, c_dns, c_sender, c_sender_task,
            c_to_sender_queue, c_to_local_queue, c_at_sender, c_at_local,
            c_encrypted, c_deciphered, c_garbled, c_proto, c_stage,
            c_out_stage, c_residual>>
s_vars == <<s_transport, s_task, s_dns, s_sender, s_sender_task,
            s_to_sender_queue, s_to_local_queue, s_at_sender, s_at_local,
            s_encrypted, s_deciphered, s_garbled, s_stage>>
net    == <<up_read, down_read, up_cut, down_cut, misread>>
vars   == <<c_vars, s_vars, net>>

C == INSTANCE ClientProtocol WITH
        CloseOnError <- TRUE, Obfs <- TRUE,
        transport <- c_transport, task <- c_task, dns <- c_dns,
        sender <- c_sender, sender_task <- c_sender_task,
        to_sender_queue <- c_to_sender_queue,
        to_local_queue <- c_to_local_queue,
        at_sender <- c_at_sender, at_local <- c_at_local,
        encrypted <- c_encrypted, deciphered <- c_deciphered,
        garbled <- c_garbled, proto <- c_proto, stage <- c_stage,
        out_stage <- c_out_stage, residual <- c_residual

S == INSTANCE ServerProtocol WITH
        CloseOnError <- TRUE,
        transport <- s_transport, task <- s_task, dns <- s_dns,
        sender <- s_sender, sender_task <- s_sender_task,
        to_sender_queue <- s_to_sender_queue,
        to_local_queue <- s_to_local_queue,
        at_sender <- s_at_sender, at_local <- s_at_local,
        encrypted <- s_encrypted, deciphered <- s_deciphered,
        garbled <- s_garbled, stage <- s_stage

-----------------------------------------------------------------------------
(* The units read next: k of those under way, the first of which is only a *)
(* piece when an earlier piece of it was read.                             *)
Segment(written, read, cut, k) ==
    [i \in 1..k |-> IF i = 1 /\ cut THEN C!Unit("part", 0) ELSE written[read + i]]

UpSegment(k)   == Segment(c_at_sender, up_read, up_cut, k)
DownSegment(k) == Segment(s_at_local, down_read, down_cut, k)

Init ==
    /\ C!Init
    /\ S!Init
    /\ up_read = 0 /\ down_read = 0
    /\ up_cut = FALSE /\ down_cut = FALSE /\ misread = FALSE

-----------------------------------------------------------------------------
(* The local program opens with a protocol the client proxy understands    *)
(* and then sends its payload, numbered.                                   *)
Payload == C!Unit("data", Len(c_encrypted) + (IF c_encrypted = <<>> THEN 1 ELSE 0))

LocalSends ==
    /\ \/ "Socks5" \in Openings /\ C!Socks5Greeting
       \/ C!Socks5Connect(C!Addr)
       \/ "HttpConnect" \in Openings /\ C!HttpConnect(C!Addr)
       \/ "HttpRequest" \in Openings /\ C!HttpRequest(C!Addr, Payload)
       \/ C!RelayToSender(Payload)
    /\ UNCHANGED <<s_vars, net>>

TargetSends ==
    /\ Len(s_encrypted) < MaxDown
    /\ S!RelayToLocal(<<C!Unit("data", Len(s_encrypted) + 1)>>)
    /\ UNCHANGED <<c_vars, net>>

(* A first piece of the request reaches the server, which refuses it.      *)
UpCut ==
    /\ ~CleanSegments
    /\ c_at_sender # <<>> /\ up_read = 0 /\ ~up_cut
    /\ up_cut' = TRUE
    /\ S!RequestRefused
    /\ UNCHANGED <<c_vars, up_read, down_read, down_cut, misread>>

(* A segment reaches the server.  The two sides have one method and one    *)
(* password and the whole first message travels in the request line, so a  *)
(* request that is complete holds the address: of the server's requests    *)
(* only RequestAccepted, or RequestRefused above, occurs here.             *)
Up ==
    /\ \E k \in 1..(Len(c_at_sender) - up_read) :
          /\ up_read' = up_read + k
          /\ \/ S!RequestAccepted(UpSegment(k))
             \/ S!RelayToSender(UpSegment(k))
             \/ S!DecryptFails(UpSegment(k))
    /\ up_cut' = FALSE
    /\ UNCHANGED <<c_vars, down_read, down_cut, misread>>

(* A first piece of the response reaches the client, which takes it for    *)
(* the whole.                                                              *)
DownCut ==
    /\ ~CleanSegments
    /\ s_at_local # <<>> /\ down_read = 0 /\ ~down_cut
    /\ down_cut' = TRUE /\ misread' = TRUE
    /\ C!ServerResponded
    /\ UNCHANGED <<s_vars, up_read, down_read, up_cut>>

Down ==
    /\ \E k \in 1..(Len(s_at_local) - down_read) :
          /\ down_read' = down_read + k
          /\ \/ /\ CleanSegments => k = 1
                /\ C!ServerResponded
                /\ misread' = (k > 1)
             \/ /\ C!RelayToLocal(DownSegment(k)) \/ C!DecryptFails(DownSegment(k))
                /\ UNCHANGED misread
    /\ down_cut' = FALSE
    /\ UNCHANGED <<s_vars, up_read, up_cut>>

ClientTask ==
    /\ \/ C!ResolveDns \/ C!CreateSender \/ C!SendToSender \/ C!SendToLocal
       \/ Faults /\ (C!ResolveDnsFails \/ C!CreateSenderFails \/ C!Callbacks)
    /\ UNCHANGED <<c_proto, c_stage, c_out_stage, c_residual, s_vars, net>>

ServerTask ==
    /\ \/ S!ResolveDns \/ S!CreateSender \/ S!SendToSender \/ S!SendToLocal
       \/ Faults /\ (S!ResolveDnsFails \/ S!CreateSenderFails \/ S!Callbacks)
    /\ UNCHANGED <<s_stage, c_vars, net>>

Next == LocalSends \/ TargetSends \/ UpCut \/ Up \/ DownCut \/ Down
        \/ ClientTask \/ ServerTask

Spec == Init /\ [][Next]_vars

(* The network delivers what is under way; the loops run their tasks.      *)
FairSpec ==
    /\ Spec
    /\ WF_vars(Up) /\ WF_vars(Down)
    /\ WF_vars(ClientTask) /\ WF_vars(ServerTask)

-----------------------------------------------------------------------------
(* Properties.                                                             *)

(* What the local program asked to be relayed, and what the target got.    *)
UpSent == IF c_encrypted = <<>> THEN <<>> ELSE Tail(c_encrypted)
UpGot  == [i \in DOMAIN s_at_sender |->
              IF s_at_sender[i].tag = "data" THEN c_encrypted[s_at_sender[i].n]
                                             ELSE s_at_sender[i]]

(* What the target sent, and what the local program got beyond the answers *)
(* of its own proxy, which come before anything else.                      *)
DownSent == s_encrypted
OwnAnswers == Cardinality({i \in DOMAIN c_at_local :
                              c_at_local[i].tag \notin {"data", "garbage"}})
DownGot ==
    [i \in 1..(Len(c_at_local) - OwnAnswers) |->
        LET u == c_at_local[OwnAnswers + i]
        IN  IF u.tag = "data" THEN s_encrypted[u.n] ELSE u]

(* Each direction of the tunnel implements a FIFO: the target never gets a *)
(* byte it was not sent, in another order or after a gap.                  *)
UpFifo   == INSTANCE Fifo WITH sent <- UpSent, got <- UpGot
UpIsFifo == UpFifo!Spec

(* The same towards the local program (base.py 187, "data from sender      *)
(* >>>>>> outbound >>>>>>> inbound >>>>>> data to local").                 *)
DownFifo   == INSTANCE Fifo WITH sent <- DownSent, got <- DownGot
DownIsFifo == DownFifo!Spec

(* What of it holds when TCP cuts and joins as it likes: as long as the    *)
(* client's first segment was the HTTP response alone, the other direction *)
(* is a FIFO, too (http_simple.py 54-60).                                  *)
DownUntilMisread ==
    /\ DownFifo!Init
    /\ [][misread \/ DownFifo!Send \/ DownFifo!Deliver]_<<DownSent, DownGot>>

(* The decryptors follow the encryptors: a side has decrypted no more than *)
(* the other has encrypted, and while nothing garbled it, exactly what it  *)
(* has read beyond the HTTP head.                                          *)
InStep ==
    /\ ~s_garbled => s_deciphered \in {up_read, 0} /\ s_deciphered <= Len(c_encrypted)
    /\ ~c_garbled => c_deciphered <= Len(s_encrypted)

(* Everything the local program sends arrives, if nothing fails: the units *)
(* the client holds back are released by the server's response.            *)
UpArrives ==
    \A k \in 1..MaxUp : Len(UpSent) = k ~> Len(UpGot) >= k

(* Everything the target sends arrives, if nothing fails.                  *)
DownArrives ==
    \A k \in 1..MaxDown : Len(DownSent) = k ~> Len(DownGot) >= k
=============================================================================
