--------------------------- MODULE ServerProtocol ---------------------------
(***************************************************************************)
(* The proxy on the remote machine: ServerProtocol (server.py) on top of   *)
(* TcpProtocol.  The accepted connection ("local") comes from a client     *)
(* proxy that speaks http_simple, the sender goes to the target the first  *)
(* message names, with nothing added ("plain").                            *)
(*                                                                         *)
(* From the client come [head, 1], the HTTP request that carries cipher    *)
(* unit 1, [part, 0], a piece of such a request, and [cipher, i].  The     *)
(* decrypted unit 1 is the address, the others are payload: [data, i].     *)
(* To the client go [response, 0] and the server's own [cipher, i].        *)
(***************************************************************************)
EXTENDS TcpProtocol

CONSTANTS
    MaxUp,      \* bound: units decrypted from the client
    MaxDown     \* bound: units accepted from the target

ASSUME ServerBounds == MaxUp \in Nat /\ MaxDown \in Nat

VARIABLE stage  \* the stage of the inbound http_simple object

vars == <<tcpVars, stage>>

(* The state invariant of the variables' domains.                          *)
TypeOK == TcpTypeOK /\ stage \in {4, 5, 0}

(* connection_made: no destination yet, so handle_dns is not called.       *)
Init == TcpInit /\ dns = "idle" /\ stage = 4

-----------------------------------------------------------------------------
(* Mutations of Respond: the stage stays; the response is not queued; the   *)
(* stage is that of a client.                                              *)
RespondStays ==
    /\ to_local_queue' = Append(to_local_queue, Unit("response", 0))
    /\ stage' = 5
    /\ UNCHANGED <<task, at_local>>

RespondSilent ==
    /\ stage' = 0
    /\ UNCHANGED <<task, to_local_queue, at_local>>

RespondStage1 ==
    /\ to_local_queue' = Append(to_local_queue, Unit("response", 0))
    /\ stage' = 1
    /\ UNCHANGED <<task, at_local>>

(* _handle_inbound_send(None) in stage 5: the HTTP response, and stage 0.  *)
Respond ==
    /\ to_local_queue' = Append(to_local_queue, Unit("response", 0))
    /\ stage' = 0
    /\ UNCHANGED <<task, at_local>>

NoReply == UNCHANGED <<task, to_local_queue, at_local>>

(* What a segment brings to the decryptor: a head carries cipher unit 1.   *)
Carried(us) ==
    [i \in DOMAIN us |-> IF us[i].tag = "head" THEN Unit("cipher", us[i].n) ELSE us[i]]

Forward(us) == to_sender_queue' = to_sender_queue \o us

-----------------------------------------------------------------------------
(* data_received of the accepted transport; us are the segment's units.    *)

(* Mutation of RequestAccepted: what came with the request is dropped.     *)
RequestAcceptedAlone(us) ==
    /\ transport = "open" /\ stage = 4
    /\ us[1].tag = "head"
    /\ Respond
    /\ Decrypt(Carried(us))
    /\ HandleDns
    /\ UNCHANGED <<transport, sender, sender_task, at_sender, encrypted, to_sender_queue>>

(* A request from which an address comes out: the response is queued, unit *)
(* 1 and what followed it in the segment are decrypted, the name is looked *)
(* up and the rest waits for the sender.                                   *)
RequestAccepted(us) ==
    /\ transport = "open" /\ stage = 4
    /\ us[1].tag = "head"
    /\ Respond
    /\ Decrypt(Carried(us))
    /\ HandleDns
    /\ Forward(Tail(Plain(Carried(us))))
    /\ UNCHANGED <<transport, sender, sender_task, at_sender, encrypted>>

(* Mutation of RequestBadAddress: the client is left waiting, and what was *)
(* decrypted is gone.                                                      *)
RequestBadAddressKept(us) ==
    /\ transport = "open" /\ stage = 4
    /\ us[1].tag = "head"
    /\ Respond
    /\ Decrypt(Carried(us))
    /\ UNCHANGED <<senderVars, encrypted, transport>>

(* The decrypted unit is no address of type 3, or nothing came out although *)
(* more follows in the segment: the response is queued all the same, then  *)
(* the transport is closed and the rest dropped.                           *)
RequestBadAddress(us) ==
    /\ transport = "open" /\ stage = 4
    /\ us[1].tag = "head"
    /\ Respond
    /\ Decrypt(Carried(us))
    /\ Close
    /\ UNCHANGED <<senderVars, encrypted>>

(* A request alone in its segment from which nothing comes out: it carries *)
(* no more than the salt, or a chunk that is not complete.  The response   *)
(* is queued, but no name is looked up and the connection stays open; what *)
(* follows is queued for a sender that nobody creates.                     *)
RequestEmpty ==
    /\ transport = "open" /\ stage = 4
    /\ Respond
    /\ UNCHANGED <<transport, senderVars, cryptVars>>

(* A request whose first chunk does not authenticate: the decryptor raises, *)
(* but the response is queued by then.                                     *)
RequestUndecipherable ==
    /\ transport = "open" /\ stage = 4
    /\ Respond
    /\ garbled' = TRUE
    /\ Raise
    /\ UNCHANGED <<senderVars, encrypted, deciphered>>

(* Mutation of RequestRefused: the name is looked up before the checks.    *)
RequestRefusedLookedUp ==
    /\ transport = "open" /\ stage = 4
    /\ stage' = 5
    /\ HandleDns
    /\ NoReply
    /\ UNCHANGED <<transport, sender, sender_task, to_sender_queue, at_sender, cryptVars>>

(* No end of the header in the segment, or an address too short: no        *)
(* answer, and stage 5 stays.                                              *)
RequestRefused ==
    /\ transport = "open" /\ stage = 4
    /\ stage' = 5
    /\ NoReply
    /\ UNCHANGED <<transport, senderVars, cryptVars>>

(* A header without hex digits or that does not decode, and any request    *)
(* with a Host line once protocol_param is set: host.find of a bytes object *)
(* in a str raises.                                                        *)
RequestFails ==
    /\ transport = "open" /\ stage = 4
    /\ stage' = 5
    /\ Raise
    /\ NoReply
    /\ UNCHANGED <<senderVars, cryptVars>>

(* Mutation of RelayToSender: forwarded without passing the decryptor.     *)
RelayToSenderRaw(us) ==
    /\ transport = "open" /\ stage \in {5, 0}
    /\ Forward(us)
    /\ NoReply
    /\ UNCHANGED <<transport, stage, dns, sender, sender_task, at_sender, cryptVars>>

(* Stage 5 answers WAIT and stage 0 hands the segment on, but the caller   *)
(* makes no difference: both are decrypted and queued for the sender.      *)
RelayToSender(us) ==
    /\ transport = "open" /\ stage \in {5, 0}
    /\ Decrypt(us)
    /\ Forward(Plain(us))
    /\ NoReply
    /\ UNCHANGED <<transport, stage, dns, sender, sender_task, at_sender, encrypted>>

(* An authenticated cipher (aead.py) raises on a segment that is out of    *)
(* step with its stream.                                                   *)
DecryptFails(us) ==
    /\ transport = "open" /\ stage \in {5, 0}
    /\ ~InSync(us)
    /\ garbled' = TRUE
    /\ Raise
    /\ NoReply
    /\ UNCHANGED <<senderVars, stage, encrypted, deciphered>>

(* Mutation of RelayToLocal: is_closing() is not asked.                    *)
RelayToLocalUnguarded(us) ==
    /\ sender = "open"
    /\ encrypted' = encrypted \o us
    /\ to_local_queue' = to_local_queue \o Units("cipher", Len(encrypted), Len(us))
    /\ UNCHANGED <<senderVars, transport, task, at_local, deciphered, garbled, stage>>

(* data_received of the sender: encrypted and queued for the client, unless *)
(* the accepted transport is closing.  (RespondedFirst says that the       *)
(* inbound protocol is in stage 0 then.)                                   *)
RelayToLocal(us) ==
    /\ sender = "open" /\ transport = "open"
    /\ encrypted' = encrypted \o us
    /\ to_local_queue' = to_local_queue \o Units("cipher", Len(encrypted), Len(us))
    /\ UNCHANGED <<senderVars, transport, task, at_local, deciphered, garbled, stage>>

-----------------------------------------------------------------------------
(* A client sends its request, possibly with its second unit behind it,    *)
(* and goes on with its stream.  After a refusal unit 1 was not decrypted, *)
(* so the decryptor is one unit behind.                                    *)
DataFromLocal ==
    \/ \E us \in {<<Unit("head", 1)>>, <<Unit("head", 1), Unit("cipher", 2)>>} :
           RequestAccepted(us) \/ RequestBadAddress(us)
    \/ RequestEmpty \/ RequestUndecipherable
    \/ RequestRefused \/ RequestFails
    \/ /\ deciphered < MaxUp
       /\ LET next == IF stage = 5 THEN deciphered + 2 ELSE deciphered + 1
              us == <<Unit("cipher", next)>>
          IN  RelayToSender(us) \/ DecryptFails(us)

DataFromSender ==
    /\ Len(encrypted) < MaxDown
    /\ RelayToLocal(<<Unit("data", 0)>>)

Next ==
    \/ DataFromLocal
    \/ DataFromSender
    \/ TcpNext /\ UNCHANGED stage

Spec == Init /\ [][Next]_vars
FairSpec == Spec /\ TcpFairness

-----------------------------------------------------------------------------
(* Properties.                                                             *)

(* The target gets units 2, 3, ... of the client's stream, in order and    *)
(* none missing while the connection to it lives: the address is taken out *)
(* and what came with it in the same segment is not (server.py 21-52).     *)
TargetStream ==
    /\ \A i \in DOMAIN at_sender : at_sender[i] = Unit("data", i + 1)
    /\ dns # "idle" /\ sender \in {"none", "open"} =>
           at_sender \o to_sender_queue = Units("data", 1, deciphered - 1)

(* An open client connection that got past the request carries the HTTP    *)
(* response first, once, and then the server's cipher stream in order: the *)
(* client throws away the first segment it gets.  Before, it carries       *)
(* nothing (base.py 155-157, 216-242).                                     *)
RespondedFirst ==
    transport = "open" =>
        at_local \o to_local_queue =
            IF stage = 0
            THEN <<Unit("response", 0)>> \o Units("cipher", 0, Len(encrypted))
            ELSE <<>>

(* No connection to anywhere is made for a request that was refused, and   *)
(* none before the address was decrypted.                                  *)
TargetNeedsAddress ==
    dns # "idle" => stage = 0 /\ deciphered > 0

(* As long as an open connection has no address, nothing of it reaches     *)
(* anyone, and nothing that was decrypted is lost: an address that was     *)
(* taken out and leads nowhere closes it (server.py 34-52, base.py 98-105). *)
KeptUntilAddress ==
    transport = "open" /\ dns = "idle" =>
        at_sender = <<>> /\ Len(to_sender_queue) = deciphered

(* Once the client's connection is closing nothing more is decrypted for   *)
(* the target or encrypted for the client (base.py 304-306).               *)
ClosedIsQuiet ==
    [][transport # "open" => UNCHANGED <<cryptVars, stage>>]_vars

(* What is queued for the target is sent once there is a connection, and   *)
(* there is one unless lookup or connecting fails.                         *)
Drained ==
    dns # "idle" /\ to_sender_queue # <<>> ~>
        \/ to_sender_queue = <<>>
        \/ dns = "failed"
        \/ sender \in {"closing", "lost"}
=============================================================================
