--------------------------- MODULE ClientProtocol ---------------------------
(***************************************************************************)
(* The proxy on the user's machine: ClientProtocol (client.py) on top of   *)
(* TcpProtocol.  Inbound it speaks SOCKS5 or HTTP proxy with the local     *)
(* program, whichever the first segment looks like (protocol.py, Socks5.py,*)
(* HttpProxy.py); outbound it sends to the remote server in the clear      *)
(* ("plain") or behind one HTTP request ("http_simple").                   *)
(*                                                                         *)
(* encrypted is the plaintext stream to the server; the units it holds are *)
(*    addr   the address the local program asked for (create_first_data)   *)
(*    wrong  an address, but not the one asked for                         *)
(*    data   payload                                                       *)
(* Unit i of that stream travels as [cipher, i], or as [head, i] when it is *)
(* wrapped into the HTTP request.                                          *)
(***************************************************************************)
EXTENDS TcpProtocol

CONSTANTS
    Obfs,        \* is config.protocol "http_simple"?  Otherwise "plain".
    HashParam,   \* has config.protocol_param (server_address if it is empty)
                 \* text behind a "#", as header lines to send?
    MaxUp,       \* bound: units encrypted towards the server
    MaxDown      \* bound: cipher units accepted from the server

ASSUME ObfsAssumption == Obfs \in BOOLEAN
ASSUME HashParamAssumption == HashParam \in BOOLEAN
ASSUME ClientBounds == MaxUp \in Nat /\ MaxDown \in Nat

VARIABLES
    proto,       \* inbound_protocol.protocol, chosen by Protocol.check
    stage,       \* the stage of that Socks5 or HttpProxy object
    out_stage,   \* the stage of the outbound http_simple object; plain: 0
    residual     \* outbound_send_residual_data

clientVars == <<proto, stage, out_stage, residual>>
vars == <<tcpVars, clientVars>>

ClientTypeOK ==
    /\ proto \in {"none", "Socks5", "HttpProxy"}
    /\ stage \in {4, 5, 6, 7, 0}
    /\ out_stage \in {0, 1, 2}
    /\ residual \in Seq(Item)

(* The state invariant of the variables' domains.                          *)
TypeOK == TcpTypeOK /\ ClientTypeOK

(* connection_made: init_connect sets the protocols and asks at once for a *)
(* connection to the configured server.                                    *)
Init ==
    /\ TcpInit
    /\ dns \in {"resolving", "connecting"}
    /\ proto = "none"
    /\ stage = 4
    /\ out_stage = IF Obfs THEN 1 ELSE 0
    /\ residual = <<>>

-----------------------------------------------------------------------------
(* Pieces of the handlers.                                                 *)

Addr  == Unit("addr", 0)
Wrong == Unit("wrong", 0)

(* Encryption of messages; each gives one cipher unit.                     *)
Encrypt(msgs) ==
    /\ Len(encrypted) + Len(msgs) <= MaxUp
    /\ encrypted' = encrypted \o msgs

Ciphertext(msgs) == Units("cipher", Len(encrypted), Len(msgs))

(* Mutation of HandleClientSend: WAIT is ignored.                          *)
HandleClientSendUnheld(sent) ==
    /\ out_stage' = IF out_stage = 1 THEN 2 ELSE out_stage
    /\ to_sender_queue' = to_sender_queue \o
           (IF out_stage = 1 THEN <<Unit("head", Len(encrypted) + 1)>> \o Tail(sent)
                             ELSE sent)
    /\ UNCHANGED residual

(* The outbound protocol's handle_client_send of each unit sent, and what  *)
(* becomes of its reply.  http_simple wraps the first unit into its request *)
(* and answers WAIT to the others until the server has replied; those are  *)
(* kept in residual.                                                       *)
HandleClientSend(sent) ==
    \/ /\ out_stage = 1
       /\ out_stage' = 2
       /\ to_sender_queue' = Append(to_sender_queue, Unit("head", Len(encrypted) + 1))
       /\ residual' = residual \o Tail(sent)
    \/ /\ out_stage = 2
       /\ residual' = residual \o sent
       /\ UNCHANGED <<out_stage, to_sender_queue>>
    \/ /\ out_stage = 0
       /\ to_sender_queue' = to_sender_queue \o sent
       /\ UNCHANGED <<out_stage, residual>>

(* _handle_outbound_send, once for each message of msgs.                   *)
MessagesSent(msgs) ==
    /\ Encrypt(msgs)
    /\ HandleClientSend(Ciphertext(msgs))
    /\ UNCHANGED <<transport, dns, sender, sender_task, at_sender, deciphered, garbled>>

(* Mutation of RequestRaises: the stage is that of an answered request.    *)
RequestRaisesDone(msgs) ==
    /\ out_stage' = 0
    /\ Encrypt(<<msgs[1]>>)
    /\ Raise
    /\ UNCHANGED <<senderVars, deciphered, garbled, residual>>

(* stage1_send_requests raises when protocol_param brings header lines of  *)
(* its own: it adds bytes to a str.  By then the first message has been    *)
(* encrypted and the stage is 2; a second message is not reached.          *)
RequestRaises(msgs) ==
    /\ out_stage' = 2
    /\ Encrypt(<<msgs[1]>>)
    /\ Raise
    /\ UNCHANGED <<senderVars, deciphered, garbled, residual>>

SendOutbound(msgs) ==
    \/ out_stage = 1 /\ HashParam /\ RequestRaises(msgs)
    \/ ~(out_stage = 1 /\ HashParam) /\ MessagesSent(msgs)

NothingOutbound ==
    UNCHANGED <<senderVars, cryptVars, out_stage, residual>>

(* _handle_inbound_send(None): the protocol's own answer to the program.   *)
ReplyToLocal(t) ==
    /\ to_local_queue' = Append(to_local_queue, Unit(t, 0))
    /\ UNCHANGED <<task, at_local>>

NoReply == UNCHANGED <<task, to_local_queue, at_local>>

-----------------------------------------------------------------------------
(* data_received of the accepted transport.  A segment that reaches an     *)
(* inbound protocol in stage 5 or 7 is ignored: a stuttering step.         *)

(* The first segment begins with version 5 and offers no authentication:   *)
(* stage 4 -> 5 -> 6 within the handler, with the method reply.            *)
Socks5Greeting ==
    /\ transport = "open" /\ proto = "none"
    /\ proto' = "Socks5"
    /\ stage' = 6
    /\ ReplyToLocal("method")
    /\ NothingOutbound /\ UNCHANGED transport

(* It begins with 5 but 0 is not among the methods, or it was cut after    *)
(* two bytes: no answer, and stage 5 ignores all that follows.             *)
Socks5GreetingRefused ==
    /\ transport = "open" /\ proto = "none"
    /\ proto' = "Socks5"
    /\ stage' = 5
    /\ NoReply /\ NothingOutbound /\ UNCHANGED transport

(* No protocol's check accepts the segment: Protocol.handle_server_recv    *)
(* calls a method of None.  The next segment is checked afresh.            *)
UnknownProtocol ==
    /\ transport = "open" /\ proto = "none"
    /\ Raise
    /\ NoReply /\ NothingOutbound /\ UNCHANGED <<proto, stage>>

(* Mutation of Socks5Connect: the address goes out, the reply is forgotten. *)
Socks5ConnectUnanswered(addr) ==
    /\ transport = "open" /\ proto = "Socks5" /\ stage = 6
    /\ stage' = 7
    /\ NoReply
    /\ SendOutbound(<<addr>>)
    /\ UNCHANGED proto

(* CONNECT to a host name: stage 6 -> 7 -> 0 with the success reply, then  *)
(* the address goes out as the first message.  get_addr takes everything   *)
(* from byte 5 to the end of the segment as host and port, so a request    *)
(* that is cut, or merged with data, names another address.                *)
Socks5Connect(addr) ==
    /\ transport = "open" /\ proto = "Socks5" /\ stage = 6
    /\ stage' = 0
    /\ ReplyToLocal("success")
    /\ SendOutbound(<<addr>>)
    /\ UNCHANGED proto

(* CONNECT with an unknown address type, or a host create_first_data       *)
(* cannot pack: it raises, but the success reply is queued by then.        *)
Socks5ConnectFails ==
    /\ transport = "open" /\ proto = "Socks5" /\ stage = 6
    /\ stage' = 0
    /\ ReplyToLocal("success")
    /\ Raise
    /\ NothingOutbound /\ UNCHANGED proto

(* Fewer than four bytes, an IPv4 or an IPv6 address (unpack('!HH') of two *)
(* bytes), or a host that does not decode: parsing raises.                 *)
Socks5RequestFails ==
    /\ transport = "open" /\ proto = "Socks5" /\ stage = 6
    /\ stage' = 7
    /\ Raise
    /\ NoReply /\ NothingOutbound /\ UNCHANGED proto

(* Mutation of Socks5Refused: the refused connection is relayed all the same. *)
Socks5RefusedFree ==
    /\ transport = "open" /\ proto = "Socks5" /\ stage = 6
    /\ stage' = 0
    /\ NoReply /\ NothingOutbound /\ UNCHANGED <<transport, proto>>

(* BIND and unknown commands: no answer, stage 7 ignores what follows.     *)
Socks5Refused ==
    /\ transport = "open" /\ proto = "Socks5" /\ stage = 6
    /\ stage' = 7
    /\ NoReply /\ NothingOutbound /\ UNCHANGED <<transport, proto>>

(* UDP ASSOCIATE: the stage advances to 0 before the reply raises, because *)
(* nobody called set_server_info on a protocol that check selected.        *)
Socks5UdpAssociate ==
    /\ transport = "open" /\ proto = "Socks5" /\ stage = 6
    /\ stage' = 0
    /\ Raise
    /\ NoReply /\ NothingOutbound /\ UNCHANGED proto

(* HTTP CONNECT host:port: stage 4 -> 5 -> 0 with the answer 200.  A cut    *)
(* request can name another port.                                          *)
HttpConnect(addr) ==
    /\ transport = "open" /\ proto = "none"
    /\ proto' = "HttpProxy"
    /\ stage' = 0
    /\ ReplyToLocal("established")
    /\ SendOutbound(<<addr>>)

(* ... with a port or host create_first_data cannot pack.                  *)
HttpConnectFails ==
    /\ transport = "open" /\ proto = "none"
    /\ proto' = "HttpProxy"
    /\ stage' = 0
    /\ ReplyToLocal("established")
    /\ Raise
    /\ NothingOutbound

(* GET, POST, ...: no answer of the proxy; the address and the request     *)
(* itself go out as two messages.  A Host line that is cut names another   *)
(* address.                                                                *)
HttpRequest(addr, u) ==
    /\ transport = "open" /\ proto = "none"
    /\ proto' = "HttpProxy"
    /\ stage' = 0
    /\ SendOutbound(<<addr, u>>)
    /\ NoReply

(* A request without Host is ignored for good; one that does not decode or *)
(* split raises, in stage 5 or, when the address does not pack, in 0.      *)
HttpRequestRefused ==
    /\ transport = "open" /\ proto = "none"
    /\ proto' = "HttpProxy"
    /\ stage' = 5
    /\ NoReply /\ NothingOutbound /\ UNCHANGED transport

HttpRequestFails ==
    /\ transport = "open" /\ proto = "none"
    /\ proto' = "HttpProxy"
    /\ stage' \in {5, 0}
    /\ Raise
    /\ NoReply /\ NothingOutbound

(* Stage 0 of either protocol: payload.                                    *)
RelayToSender(u) ==
    /\ transport = "open" /\ proto # "none" /\ stage = 0
    /\ SendOutbound(<<u>>)
    /\ NoReply /\ UNCHANGED <<proto, stage>>

-----------------------------------------------------------------------------
(* data_received of the sender.  It does nothing once the accepted         *)
(* transport is closing.                                                   *)

(* Mutations of ServerResponded: a stage of its own after the response; the *)
(* residual data is forgotten.                                             *)
ServerRespondedStage3 ==
    /\ sender = "open" /\ transport = "open" /\ out_stage = 2
    /\ out_stage' = 3
    /\ to_sender_queue' = to_sender_queue \o residual
    /\ UNCHANGED <<localVars, cryptVars, dns, sender, sender_task, at_sender,
                   proto, stage, residual>>

ServerRespondedDrops ==
    /\ sender = "open" /\ transport = "open" /\ out_stage = 2
    /\ out_stage' = 0
    /\ UNCHANGED <<localVars, cryptVars, senderVars, proto, stage, residual>>

(* http_simple in stage 2 takes whatever arrives first for the whole HTTP  *)
(* response, drops it and answers DONE, which releases the residual data.  *)
ServerResponded ==
    /\ sender = "open" /\ transport = "open" /\ out_stage = 2
    /\ out_stage' = 0
    /\ to_sender_queue' = to_sender_queue \o residual
    /\ UNCHANGED <<localVars, cryptVars, dns, sender, sender_task, at_sender,
                   proto, stage, residual>>

(* Mutation of RelayToLocal: is_closing() is not asked.                    *)
RelayToLocalUnguarded(us) ==
    /\ sender = "open" /\ out_stage = 0
    /\ Decrypt(us)
    /\ to_local_queue' = to_local_queue \o Plain(us)
    /\ UNCHANGED <<senderVars, transport, task, at_local, encrypted, clientVars>>

(* Stage 0: the segment, the units us, is decrypted and handed to the      *)
(* inbound protocol.  (With no protocol chosen yet, or in its stages 5 and *)
(* 7, that would raise or be taken for a reply; InboundReady says it does  *)
(* not occur.)                                                             *)
RelayToLocal(us) ==
    /\ sender = "open" /\ transport = "open" /\ out_stage = 0
    /\ Decrypt(us)
    /\ to_local_queue' = to_local_queue \o Plain(us)
    /\ UNCHANGED <<senderVars, transport, task, at_local, encrypted, clientVars>>

(* An authenticated cipher (aead.py) raises on a segment that is out of    *)
(* step with its stream; the exception ends the sender's data_received.    *)
DecryptFails(us) ==
    /\ sender = "open" /\ transport = "open" /\ out_stage = 0
    /\ ~InSync(us)
    /\ garbled' = TRUE
    /\ sender' = IF CloseOnError THEN "closing" ELSE sender
    /\ UNCHANGED <<localVars, dns, sender_task, to_sender_queue, at_sender,
                   encrypted, deciphered, clientVars>>

-----------------------------------------------------------------------------
DataFromLocal ==
    \/ Socks5Greeting \/ Socks5GreetingRefused \/ UnknownProtocol
    \/ \E addr \in {Addr, Wrong} :
           \/ Socks5Connect(addr)
           \/ HttpConnect(addr)
           \/ HttpRequest(addr, Unit("data", 0))
    \/ Socks5ConnectFails \/ Socks5RequestFails
    \/ Socks5Refused \/ Socks5UdpAssociate
    \/ HttpConnectFails \/ HttpRequestRefused \/ HttpRequestFails
    \/ RelayToSender(Unit("data", 0))

(* The server answers what it was sent: first the HTTP response, if any,   *)
(* then its cipher stream in order.                                        *)
DataFromSender ==
    /\ at_sender # <<>>
    /\ \/ ServerResponded
       \/ /\ deciphered < MaxDown
          /\ RelayToLocal(<<Unit("cipher", deciphered + 1)>>)

Next ==
    \/ DataFromLocal
    \/ DataFromSender
    \/ TcpNext /\ UNCHANGED clientVars

Spec == Init /\ [][Next]_vars
FairSpec == Spec /\ TcpFairness

-----------------------------------------------------------------------------
(* Properties.                                                             *)

(* What SendOutbound holds back until the server has answered.             *)
Held == IF out_stage = 2 THEN residual ELSE <<>>

Numbered(s) == \A i \in DOMAIN s : s[i].n = i

(* Behind http_simple no request can be built at all.                      *)
Unrequested == Obfs /\ HashParam

(* The remote server decrypts a stream, so the wire must carry the cipher  *)
(* units in the order they were encrypted, although they pass the residual *)
(* list, the queue and a task; and while the sender can still send, none   *)
(* of them is lost on the way (client.py 39-64, base.py 165-185, 318-321). *)
(* Where the request cannot be built its unit is lost: then nothing at all *)
(* leaves, and no later unit takes its place (http_simple.py 108-117).     *)
WireOrder ==
    /\ Numbered(at_sender)
    /\ Unrequested => at_sender \o to_sender_queue = <<>>
    /\ ~Unrequested /\ sender \in {"none", "open"} =>
           LET all == at_sender \o to_sender_queue \o Held
           IN  Len(all) = Len(encrypted) /\ Numbered(all)

(* WireOrder made inductive: the sender connection is made once, its task  *)
(* does not run before, "plain" has no stages, nothing is held back before *)
(* the HTTP request was made, and without one the server has nothing to    *)
(* answer (base.py 120-130, 300-321, client.py 44-49).                     *)
WireInv ==
    /\ WireOrder
    /\ dns \in {"idle", "resolving", "connecting"} => sender = "none"
    /\ sender = "none" => ~sender_task
    /\ out_stage = 1 => residual = <<>>
    /\ ~Obfs => out_stage = 0
    /\ Unrequested => out_stage # 0

(* Behind http_simple whatever leaves begins with the HTTP request, and    *)
(* nothing but that leaves before the server has answered it, however the  *)
(* local program goes on sending meanwhile.                                *)
HeldUntilAnswered ==
    LET out == at_sender \o to_sender_queue
    IN  Obfs => \A i \in DOMAIN out :
                    /\ i = 1 <=> out[i].tag = "head"
                    /\ out_stage # 0 => i = 1

(* The first message to the server is an address, and no later one is      *)
(* (base.py 28-33; the server takes the first message for the address).    *)
FirstIsAddress ==
    \A i \in DOMAIN encrypted :
        (i = 1) <=> encrypted[i] \in {Addr, Wrong}

(* While it is open, the local program's connection carries the answers of *)
(* the inbound protocol and then the server's stream in order, each unit   *)
(* once: the two flows meet in one queue.  No payload overtakes an answer. *)
Answers ==
    {<<>>, <<Unit("method", 0)>>, <<Unit("method", 0), Unit("success", 0)>>,
     <<Unit("established", 0)>>}

LocalStream ==
    transport = "open" =>
        \E r \in Answers :
            /\ at_local \o to_local_queue = r \o Units("data", 0, deciphered)
            /\ CloseOnError /\ deciphered > 0 => r # <<Unit("method", 0)>>

(* When anything comes back from the server the inbound protocol has ended *)
(* its handshake: its handle_server_send would otherwise mistake payload   *)
(* for the moment to answer (Socks5.py 88-116).                            *)
InboundReady == at_sender # <<>> => proto # "none" /\ stage = 0

(* Once the accepted transport is closing, no handler takes up anything:   *)
(* nothing is encrypted, decrypted or queued for either side any more      *)
(* (the guard in SenderProtocol.data_received, base.py 304-306).           *)
ClosedIsQuiet ==
    [][transport # "open" =>
          /\ UNCHANGED <<cryptVars, clientVars>>
          /\ to_local_queue' \in {to_local_queue, <<>>}
          /\ to_sender_queue' \in {to_sender_queue, <<>>}]_vars

(* What is queued for the server is sent, unless there is no connection to *)
(* the server or it breaks: no item waits for ever in the queue, whether   *)
(* it was put before or after the sender's task started.                   *)
Drained ==
    to_sender_queue # <<>> ~>
        \/ to_sender_queue = <<>>
        \/ dns = "failed"
        \/ sender \in {"closing", "lost"}
=============================================================================
