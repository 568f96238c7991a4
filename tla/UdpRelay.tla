------------------------------- MODULE UdpRelay -------------------------------
(***************************************************************************)
(* The UDP relay: UdpProtocol and UdpSenderProtocol (base.py), as the      *)
(* client (ClientUdpProtocol) and the server (ServerUdpProtocol) use them. *)
(* One UdpProtocol object serves the port, hence every peer that sends to  *)
(* it: one addr, one queue, one dns_resolved flag, one sender.             *)
(*                                                                         *)
(* Targets are what datagrams are to be forwarded to: on the server the    *)
(* address written in each of them, on the client always the remote server.*)
(* A datagram is [id, to].                                                 *)
(***************************************************************************)
EXTENDS Naturals, Sequences, FiniteSets

CONSTANTS
    Peers, Targets,
    None,            \* no address
    MaxDatagrams,    \* bound: datagrams accepted
    MaxReplies       \* bound: replies relayed

ASSUME UdpConstants ==
    None \notin Peers \cup Targets /\ MaxDatagrams \in Nat /\ MaxReplies \in Nat

VARIABLES
    transport,       \* the listening endpoint: "open", "closing" or "lost"
    addr,            \* self.addr: where replies go
    cache,           \* the names in the shared dns_cache
    lookups,         \* the resolve_dns tasks awaiting getaddrinfo
    dns_resolved, resolved_addr,
    scheduled,       \* create_sender tasks that handle_dns made, not yet run
    creating,        \* the endpoints being created, as a sequence of targets
    sender_created,
    endpoints,       \* the sender endpoints made so far: [to, state], see below
    to_sender_queue,
    accepted,        \* history: the datagrams accepted for forwarding
    taken,           \* history: [d, by, went], endpoint by took d off the queue
    replies,         \* history: [by, label, to] of the replies relayed
    failed           \* history: has a lookup, a creation or a send failed?

vars == <<transport, addr, cache, lookups, dns_resolved, resolved_addr, scheduled, creating,
          sender_created, endpoints, to_sender_queue, accepted, taken, replies, failed>>

Datagram == [id : 1..MaxDatagrams, to : Targets]

(* sending: start_send runs; silent: it ended with an exception but the    *)
(* endpoint still receives; lost: connection_lost was called.              *)
Endpoint == [to : Targets, state : {"sending", "silent", "lost"}]

(* The state invariant of the variables' domains.                          *)
TypeOK ==
    /\ transport \in {"open", "closing", "lost"}
    /\ addr \in Peers \cup {None}
    /\ cache \subseteq Targets
    /\ lookups \subseteq Datagram
    /\ dns_resolved \in BOOLEAN /\ sender_created \in BOOLEAN /\ failed \in BOOLEAN
    /\ resolved_addr \in Targets \cup {None}
    /\ scheduled \in Nat
    /\ creating \in Seq(Targets) /\ endpoints \in Seq(Endpoint)
    /\ to_sender_queue \in Seq(Datagram) /\ accepted \in Seq(Datagram)
    /\ taken \in Seq([d : Datagram, by : DOMAIN endpoints, went : BOOLEAN])
    /\ replies \in Seq([by : DOMAIN endpoints, label : Targets, to : Peers])

Init ==
    /\ transport = "open" /\ addr = None
    /\ cache = {}
    /\ lookups = {} /\ dns_resolved = FALSE /\ resolved_addr = None
    /\ scheduled = 0 /\ creating = <<>> /\ sender_created = FALSE
    /\ endpoints = <<>> /\ to_sender_queue = <<>>
    /\ accepted = <<>> /\ taken = <<>> /\ replies = <<>> /\ failed = FALSE

Sending(e) == endpoints[e].state = "sending"

-----------------------------------------------------------------------------
(* Mutation of HandleDns: a cached name does not set resolved_addr.        *)
HandleDnsUnset(d) ==
    \/ /\ d.to \notin cache
       /\ lookups' = lookups \cup {d}
       /\ UNCHANGED <<dns_resolved, resolved_addr, scheduled>>
    \/ /\ d.to \in cache /\ ~dns_resolved
       /\ dns_resolved' = TRUE
       /\ scheduled' = scheduled + 1
       /\ UNCHANGED <<lookups, resolved_addr>>
    \/ /\ d.to \in cache /\ dns_resolved
       /\ UNCHANGED <<lookups, dns_resolved, resolved_addr, scheduled>>

(* handle_dns for datagram d: an unknown name is looked up, a known one is *)
(* used only if nothing was resolved before.                               *)
HandleDns(d) ==
    \/ /\ d.to \notin cache
       /\ lookups' = lookups \cup {d}
       /\ UNCHANGED <<dns_resolved, resolved_addr, scheduled>>
    \/ /\ d.to \in cache /\ ~dns_resolved
       /\ resolved_addr' = d.to
       /\ dns_resolved' = TRUE
       /\ scheduled' = scheduled + 1
       /\ UNCHANGED lookups
    \/ /\ d.to \in cache /\ dns_resolved
       /\ UNCHANGED <<lookups, dns_resolved, resolved_addr, scheduled>>

(* datagram_received of the port, for a datagram that can be forwarded.    *)
DatagramReceived(p, t) ==
    LET d == [id |-> Len(accepted) + 1, to |-> t]
    IN  /\ transport = "open"
        /\ Len(accepted) < MaxDatagrams
        /\ addr' = p
        /\ HandleDns(d)
        /\ to_sender_queue' = Append(to_sender_queue, d)
        /\ accepted' = Append(accepted, d)
        /\ UNCHANGED <<transport, cache, creating, sender_created, endpoints, taken, replies, failed>>

(* ... for one that cannot: it does not decrypt, or get_addr_from_data     *)
(* gives up (a host name followed by payload always does).  addr is the    *)
(* peer's already; a fragment closes the client's transport.               *)
DatagramRefused(p) ==
    /\ transport = "open"
    /\ addr' = p
    /\ transport' \in {"open", "closing"}
    /\ UNCHANGED <<cache, lookups, dns_resolved, resolved_addr, scheduled, creating,
                   sender_created, endpoints, to_sender_queue, accepted, taken, replies, failed>>

(* Mutation of CreateSender: the test of sender_created is inverted.       *)
CreateSenderInverted ==
    /\ scheduled > 0
    /\ scheduled' = scheduled - 1
    /\ creating' = IF sender_created THEN Append(creating, resolved_addr) ELSE creating
    /\ UNCHANGED <<transport, addr, cache, lookups, dns_resolved, resolved_addr,
                   sender_created, endpoints, to_sender_queue, accepted, taken, replies, failed>>

(* create_sender up to its await, in a task of its own.                    *)
CreateSender ==
    /\ scheduled > 0
    /\ scheduled' = scheduled - 1
    /\ creating' = IF sender_created THEN creating ELSE Append(creating, resolved_addr)
    /\ UNCHANGED <<transport, addr, cache, lookups, dns_resolved, resolved_addr,
                   sender_created, endpoints, to_sender_queue, accepted, taken, replies, failed>>

(* resolve_dns after getaddrinfo, and on into create_sender.               *)
ResolveDns(d) ==
    /\ d \in lookups
    /\ lookups' = lookups \ {d}
    /\ resolved_addr' = d.to
    /\ cache' = cache \cup {d.to}
    /\ dns_resolved' = TRUE
    /\ creating' = IF sender_created THEN creating ELSE Append(creating, d.to)
    /\ UNCHANGED <<transport, addr, scheduled, sender_created, endpoints,
                   to_sender_queue, accepted, taken, replies, failed>>

ResolveDnsFails(d) ==
    /\ d \in lookups
    /\ lookups' = lookups \ {d}
    /\ transport' = IF transport = "open" THEN "closing" ELSE transport
    /\ failed' = TRUE
    /\ UNCHANGED <<addr, cache, dns_resolved, resolved_addr, scheduled, creating,
                   sender_created, endpoints, to_sender_queue, accepted, taken, replies>>

(* A TCP connection of the process resolved a name.                        *)
CacheFills(t) ==
    /\ t \notin cache
    /\ cache' = cache \cup {t}
    /\ UNCHANGED <<transport, addr, lookups, dns_resolved, resolved_addr, scheduled, creating,
                   sender_created, endpoints, to_sender_queue, accepted, taken, replies, failed>>

(* create_datagram_endpoint returned, with connection_made called.         *)
SenderCreated ==
    /\ creating # <<>>
    /\ endpoints' = Append(endpoints, [to |-> Head(creating), state |-> "sending"])
    /\ creating' = Tail(creating)
    /\ sender_created' = TRUE
    /\ UNCHANGED <<transport, addr, cache, lookups, dns_resolved, resolved_addr,
                   scheduled, to_sender_queue, accepted, taken, replies, failed>>

(* It raised, as it does for the four items of a fresh IPv6 answer, which  *)
(* is only printed.  dns_resolved stays set: no later hit tries again.     *)
SenderFails ==
    /\ creating # <<>>
    /\ creating' = Tail(creating)
    /\ failed' = TRUE
    /\ UNCHANGED <<transport, addr, cache, lookups, dns_resolved, resolved_addr, scheduled,
                   sender_created, endpoints, to_sender_queue, accepted, taken, replies>>

Queued(e, i, went) == [d |-> to_sender_queue[i], by |-> e, went |-> went]

(* Mutation of Send: an endpoint leaves in the queue what it sends.        *)
SendPeek(e) ==
    /\ Sending(e)
    /\ to_sender_queue # <<>> /\ Len(taken) < MaxDatagrams
    /\ taken' = taken \o [i \in DOMAIN to_sender_queue |-> Queued(e, i, TRUE)]
    /\ UNCHANGED <<transport, addr, cache, lookups, dns_resolved, resolved_addr, scheduled,
                   creating, sender_created, endpoints, to_sender_queue, accepted, replies, failed>>

(* start_send of endpoint e empties the queue that all endpoints share.    *)
Send(e) ==
    /\ Sending(e)
    /\ to_sender_queue # <<>>
    /\ taken' = taken \o [i \in DOMAIN to_sender_queue |-> Queued(e, i, TRUE)]
    /\ to_sender_queue' = <<>>
    /\ UNCHANGED <<transport, addr, cache, lookups, dns_resolved, resolved_addr, scheduled,
                   creating, sender_created, endpoints, accepted, replies, failed>>

(* The k-th send meets an OSError, such as the ICMP answer to an earlier   *)
(* one.  sendto calls error_received, which raises (super().error_received *)
(* lacks its argument) and so ends start_send; datagram k is gone.         *)
SendFails(e, k) ==
    /\ Sending(e)
    /\ k \in DOMAIN to_sender_queue
    /\ taken' = taken \o [i \in 1..k |-> Queued(e, i, i < k)]
    /\ to_sender_queue' = SubSeq(to_sender_queue, k + 1, Len(to_sender_queue))
    /\ endpoints' = [endpoints EXCEPT ![e].state = "silent"]
    /\ failed' = TRUE
    /\ UNCHANGED <<transport, addr, cache, lookups, dns_resolved, resolved_addr, scheduled,
                   creating, sender_created, accepted, replies>>

(* connection_lost of endpoint e: it cancels the task.  Nothing in the code *)
(* closes an endpoint and an OSError goes to error_received, so only a     *)
(* fatal error of the transport leads here; the error and the callback are *)
(* one step.  What is sent between the two is dropped by the transport, and *)
(* is in the model a datagram that the network loses.                      *)
SenderLost(e) ==
    /\ endpoints[e].state # "lost"
    /\ endpoints' = [endpoints EXCEPT ![e].state = "lost"]
    /\ failed' = TRUE
    /\ UNCHANGED <<transport, addr, cache, lookups, dns_resolved, resolved_addr, scheduled,
                   creating, sender_created, to_sender_queue, accepted, taken, replies>>

(* datagram_received of endpoint e: the reply goes to addr, and the server *)
(* labels it with the address of self.sender, the endpoint made last.      *)
Reply(e) ==
    /\ transport # "lost" /\ endpoints[e].state # "lost"
    /\ Len(replies) < MaxReplies
    /\ \E i \in DOMAIN taken : taken[i].by = e /\ taken[i].went
    /\ replies' = Append(replies, [by |-> e, label |-> endpoints[Len(endpoints)].to, to |-> addr])
    /\ UNCHANGED <<transport, addr, cache, lookups, dns_resolved, resolved_addr, scheduled,
                   creating, sender_created, endpoints, to_sender_queue, accepted, taken, failed>>

ConnectionLost ==
    /\ transport = "closing"
    /\ transport' = "lost"
    /\ UNCHANGED <<addr, cache, lookups, dns_resolved, resolved_addr, scheduled, creating,
                   sender_created, endpoints, to_sender_queue, accepted, taken, replies, failed>>

StartSend(e) == Send(e) \/ \E k \in DOMAIN to_sender_queue : SendFails(e, k)

Next ==
    \/ \E p \in Peers : DatagramRefused(p) \/ \E t \in Targets : DatagramReceived(p, t)
    \/ CreateSender
    \/ \E d \in lookups : ResolveDns(d) \/ ResolveDnsFails(d)
    \/ \E t \in Targets : CacheFills(t)
    \/ SenderCreated \/ SenderFails
    \/ \E e \in DOMAIN endpoints : StartSend(e) \/ SenderLost(e) \/ Reply(e)
    \/ ConnectionLost

Spec == Init /\ [][Next]_vars

(* The loop runs its tasks; lookups and the creation of endpoints end.     *)
FairSpec ==
    /\ Spec
    /\ WF_vars(CreateSender)
    /\ WF_vars(\E d \in lookups : ResolveDns(d) \/ ResolveDnsFails(d))
    /\ WF_vars(SenderCreated \/ SenderFails)
    /\ WF_vars(\E e \in DOMAIN endpoints : StartSend(e))

-----------------------------------------------------------------------------
(* Properties.                                                             *)

(* However many endpoints share the queue and fail, each accepted datagram *)
(* is taken off it once, in the order of arrival, and is queued till then; *)
(* only one that an endpoint failed on did not go out, and it was the last *)
(* that endpoint took (base.py 360-366, 438-446).                          *)
ForwardedOnce ==
    /\ [i \in DOMAIN taken |-> taken[i].d] \o to_sender_queue = accepted
    /\ \A i, j \in DOMAIN taken : i < j /\ taken[i].by = taken[j].by => taken[i].went

(* Every endpoint is for a target that some accepted datagram named: two   *)
(* lookups that overwrite resolved_addr never leave it empty or foreign.   *)
EndpointsAskedFor ==
    \A e \in DOMAIN endpoints :
        \E i \in DOMAIN accepted : accepted[i].to = endpoints[e].to

(* A datagram is forwarded to the target it names (server.py 85-96).       *)
DestinationKept ==
    \A i \in DOMAIN taken : taken[i].went => endpoints[taken[i].by].to = taken[i].d.to

(* A queued datagram is sent in the end, whichever lookup or hit was to    *)
(* make the endpoint and however many were under way: unless something     *)
(* failed and left no endpoint that sends (base.py 377-415, 443-446).      *)
Drained ==
    to_sender_queue # <<>> ~>
        to_sender_queue = <<>> \/ (failed /\ \A e \in DOMAIN endpoints : ~Sending(e))
=============================================================================
