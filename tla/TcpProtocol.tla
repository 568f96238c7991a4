---------------------------- MODULE TcpProtocol ----------------------------
(***************************************************************************)
(* One relayed TCP connection, as class TcpProtocol and its SenderProtocol *)
(* (base.py) keep it: the accepted transport, the outgoing connection      *)
(* called "sender", the two unbounded asyncio queues between them and the  *)
(* tasks that empty those queues.  This module has the state and the steps *)
(* that the client side (ClientProtocol) and the server side               *)
(* (ServerProtocol) share; what a received segment does is theirs.         *)
(*                                                                         *)
(* A step is what the event loop runs without a break: one callback, or a  *)
(* task from one await to the next.                                        *)
(*                                                                         *)
(* Data travels as units [tag, n]: what kind of bytes they are, and their  *)
(* number in the stream they belong to (0 where only the kind matters).    *)
(***************************************************************************)
EXTENDS Naturals, Sequences

CONSTANT CloseOnError
    \* whether the event loop closes a transport whose data_received raised
    \* (uvloop, asyncio since 3.7) or only logs the exception and goes on
    \* reading (asyncio 3.5 and 3.6, the Proactor loop)

ASSUME CloseOnErrorAssumption == CloseOnError \in BOOLEAN

VARIABLES
    transport,        \* the accepted connection, self.transport
    task,             \* is start_send, which empties to_local_queue, running?
    dns,              \* progress of handle_dns, resolve_dns and create_sender
    sender,           \* the transport of the SenderProtocol
    sender_task,      \* is the sender's start_send running?
    to_sender_queue,
    to_local_queue,
    at_sender,        \* history: all that was written to the sender's socket
    at_local,         \* history: all that was written to the accepted socket
    encrypted,        \* history: what self.encryptor has encrypted, in order
    deciphered,       \* how many units self.encryptor has decrypted
    garbled           \* did its input miss a unit, or have one too many?

localVars  == <<transport, task, to_local_queue, at_local>>
cryptVars  == <<encrypted, deciphered, garbled>>
senderVars == <<dns, sender, sender_task, to_sender_queue, at_sender>>
tcpVars    == <<transport, task, dns, sender, sender_task, to_sender_queue,
                to_local_queue, at_sender, at_local, encrypted, deciphered,
                garbled>>

-----------------------------------------------------------------------------
Unit(t, n) == [tag |-> t, n |-> n]

(* The numbers k+1 .. k+m of a stream, as units of one kind.               *)
Units(t, k, m) == [i \in 1..m |-> Unit(t, k + i)]

Tags ==
    {"addr", "wrong", "data", "garbage",         \* decrypted or not encrypted
     "cipher", "head", "part", "response",       \* between the two proxies
     "method", "success", "established"}         \* answers to the program

Item == [tag : Tags, n : Nat]

TcpTypeOK ==
    /\ transport \in {"open", "closing", "lost"}
    /\ task \in BOOLEAN
    /\ dns \in {"idle", "resolving", "connecting", "created", "failed"}
    /\ sender \in {"none", "open", "closing", "lost"}
    /\ sender_task \in BOOLEAN
    /\ to_sender_queue \in Seq(Item)
    /\ to_local_queue \in Seq(Item)
    /\ at_sender \in Seq(Item)
    /\ at_local \in Seq(Item)
    /\ encrypted \in Seq(Item)
    /\ deciphered \in Nat
    /\ garbled \in BOOLEAN

(* connection_made: the start_send task runs and both queues are empty.    *)
TcpInit ==
    /\ transport = "open"
    /\ task = TRUE
    /\ sender = "none"
    /\ sender_task = FALSE
    /\ to_sender_queue = <<>>
    /\ to_local_queue = <<>>
    /\ at_sender = <<>>
    /\ at_local = <<>>
    /\ encrypted = <<>>
    /\ deciphered = 0
    /\ garbled = FALSE

-----------------------------------------------------------------------------
(* Pieces of handlers.                                                     *)

(* transport.close() in a handler of an open transport: nothing is read    *)
(* from it any more and connection_lost will be called later.              *)
Close == transport' = "closing"

(* The handler leaves by an exception that nothing on the way catches.     *)
Raise == transport' = IF CloseOnError THEN "closing" ELSE transport

(* Cryptor.decrypt on the cipher units us.  The cipher is a stream: unit k *)
(* deciphers only after units 1 .. k-1, and anything else garbles the rest. *)
InSync(us) == ~garbled /\ \A i \in DOMAIN us : us[i] = Unit("cipher", deciphered + i)

Decrypt(us) ==
    /\ deciphered' = deciphered + Len(us)
    /\ garbled' = ~InSync(us)

Plain(us) ==
    [i \in DOMAIN us |->
        Unit(IF InSync(SubSeq(us, 1, i)) THEN "data" ELSE "garbage", us[i].n)]

(* handle_dns: a cached name goes straight to the create_sender task, an   *)
(* unknown one to the resolve_dns task.                                    *)
HandleDns == dns' \in {"resolving", "connecting"}

-----------------------------------------------------------------------------
(* The tasks.                                                              *)

(* resolve_dns after getaddrinfo returned: it goes on to create_sender,    *)
(* even when the accepted transport is gone by then.                       *)
ResolveDns ==
    /\ dns = "resolving"
    /\ dns' = "connecting"
    /\ UNCHANGED <<cryptVars, localVars, sender, sender_task, to_sender_queue, at_sender>>

(* resolve_dns after getaddrinfo raised.                                   *)
ResolveDnsFails ==
    /\ dns = "resolving"
    /\ dns' = "failed"
    /\ transport' = IF transport = "open" THEN "closing" ELSE transport
    /\ UNCHANGED <<cryptVars, task, to_local_queue, at_local,
                   sender, sender_task, to_sender_queue, at_sender>>

(* Mutation of CreateSender: no start_send task is started.                *)
CreateSenderIdle ==
    /\ dns = "connecting"
    /\ dns' = "created"
    /\ sender' = "open"
    /\ UNCHANGED <<cryptVars, localVars, sender_task, to_sender_queue, at_sender>>

(* create_connection returned: SenderProtocol.connection_made starts the   *)
(* sender's start_send task.                                               *)
CreateSender ==
    /\ dns = "connecting"
    /\ dns' = "created"
    /\ sender' = "open"
    /\ sender_task' = TRUE
    /\ UNCHANGED <<cryptVars, localVars, to_sender_queue, at_sender>>

(* create_connection raised: the exception is logged and nothing else      *)
(* happens, the accepted transport stays as it is.                         *)
CreateSenderFails ==
    /\ dns = "connecting"
    /\ dns' = "failed"
    /\ UNCHANGED <<cryptVars, localVars, sender, sender_task, to_sender_queue, at_sender>>

(* Mutation of SendToSender: a LIFO queue.                                 *)
SendToSenderLifo ==
    /\ sender_task
    /\ to_sender_queue # <<>>
    /\ LET n == Len(to_sender_queue)
       IN  /\ to_sender_queue' = SubSeq(to_sender_queue, 1, n - 1)
           /\ at_sender' = IF sender = "open" THEN Append(at_sender, to_sender_queue[n])
                                              ELSE at_sender
    /\ UNCHANGED <<cryptVars, localVars, dns, sender, sender_task>>

(* SenderProtocol.start_send: once awake it takes items until the queue is *)
(* empty.  A transport that is closing drops what is written to it.        *)
SendToSender ==
    /\ sender_task
    /\ to_sender_queue # <<>>
    /\ to_sender_queue' = <<>>
    /\ at_sender' = IF sender = "open" THEN at_sender \o to_sender_queue
                                       ELSE at_sender
    /\ UNCHANGED <<cryptVars, localVars, dns, sender, sender_task>>

(* Mutation of SendToLocal: what was written stays in the queue.           *)
SendToLocalPeek ==
    /\ task /\ transport = "open"
    /\ to_local_queue # <<>>
    /\ at_local' = at_local \o to_local_queue
    /\ UNCHANGED <<cryptVars, senderVars, transport, task, to_local_queue>>

(* TcpProtocol.start_send, the same towards the accepted transport.        *)
SendToLocal ==
    /\ task
    /\ to_local_queue # <<>>
    /\ to_local_queue' = <<>>
    /\ at_local' = IF transport = "open" THEN at_local \o to_local_queue
                                         ELSE at_local
    /\ UNCHANGED <<cryptVars, senderVars, transport, task>>

-----------------------------------------------------------------------------
(* The transports' callbacks.                                              *)

(* eof_received of the accepted transport: closed, its task cancelled.  The *)
(* sender is not told.                                                     *)
LocalEof ==
    /\ transport = "open"
    /\ Close
    /\ task' = FALSE
    /\ UNCHANGED <<cryptVars, senderVars, to_local_queue, at_local>>

(* A socket error closes the transport before connection_lost is called,   *)
(* and start_send runs until then.                                         *)
LocalError ==
    /\ transport = "open"
    /\ Close
    /\ UNCHANGED <<cryptVars, senderVars, task, to_local_queue, at_local>>

(* connection_lost of the accepted transport.                              *)
LocalLost ==
    /\ transport = "closing"
    /\ transport' = "lost"
    /\ task' = FALSE
    /\ UNCHANGED <<cryptVars, senderVars, to_local_queue, at_local>>

(* The same three callbacks of the sender.  The accepted side is not told. *)
SenderEof ==
    /\ sender = "open"
    /\ sender' = "closing"
    /\ sender_task' = FALSE
    /\ UNCHANGED <<cryptVars, localVars, dns, to_sender_queue, at_sender>>

SenderError ==
    /\ sender = "open"
    /\ sender' = "closing"
    /\ UNCHANGED <<cryptVars, localVars, dns, sender_task, to_sender_queue, at_sender>>

SenderLost ==
    /\ sender = "closing"
    /\ sender' = "lost"
    /\ sender_task' = FALSE
    /\ UNCHANGED <<cryptVars, localVars, dns, to_sender_queue, at_sender>>

-----------------------------------------------------------------------------
Tasks     == \/ ResolveDns \/ ResolveDnsFails
             \/ CreateSender \/ CreateSenderFails
             \/ SendToSender \/ SendToLocal
Callbacks == \/ LocalEof \/ LocalError \/ LocalLost
             \/ SenderEof \/ SenderError \/ SenderLost

(* Steps of this class; they touch nothing of the subclass.                *)
TcpNext == Tasks \/ Callbacks

(* The loop runs a task that is ready and a callback it has scheduled, and *)
(* a name lookup and a connection attempt end one way or the other.        *)
TcpFairness ==
    /\ WF_tcpVars(ResolveDns \/ ResolveDnsFails)
    /\ WF_tcpVars(CreateSender \/ CreateSenderFails)
    /\ WF_tcpVars(SendToSender)
    /\ WF_tcpVars(SendToLocal)
    /\ WF_tcpVars(LocalLost)
    /\ WF_tcpVars(SenderLost)
=============================================================================
