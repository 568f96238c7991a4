---------------------------- MODULE UdpRelayProofs ----------------------------
(***************************************************************************)
(* Theorems about UdpRelay, for any peers and targets and any number of    *)
(* datagrams and replies.                                                  *)
(***************************************************************************)
EXTENDS UdpRelay, SequenceTheorems, TLAPS

-----------------------------------------------------------------------------
(* Types.                                                                  *)

(* A create_sender task finds an address to connect to, and a reply finds  *)
(* a peer to go to.                                                        *)
TypeInv ==
    /\ TypeOK
    /\ scheduled > 0 => resolved_addr # None
    /\ to_sender_queue # <<>> \/ taken # <<>> => addr # None

LEMMA InitType == Init => TypeInv
<1> SUFFICES ASSUME Init PROVE TypeInv
  OBVIOUS
<1>1. /\ transport \in {"open", "closing", "lost"} /\ addr \in Peers \cup {None}
      /\ cache \subseteq Targets /\ lookups \subseteq Datagram
      /\ dns_resolved \in BOOLEAN /\ sender_created \in BOOLEAN /\ failed \in BOOLEAN
      /\ resolved_addr \in Targets \cup {None} /\ scheduled \in Nat
  BY DEF Init
<1>2. creating \in Seq(Targets) /\ endpoints \in Seq(Endpoint)
  BY EmptySeq DEF Init
<1>3. to_sender_queue \in Seq(Datagram) /\ accepted \in Seq(Datagram)
  BY EmptySeq DEF Init
<1>4. taken \in Seq([d : Datagram, by : DOMAIN endpoints, went : BOOLEAN])
  BY EmptySeq DEF Init
<1>5. replies \in Seq([by : DOMAIN endpoints, label : Targets, to : Peers])
  BY EmptySeq DEF Init
<1>6. scheduled = 0 /\ to_sender_queue = <<>> /\ taken = <<>>
  BY DEF Init
<1>7. QED
  BY <1>1, <1>2, <1>3, <1>4, <1>5, <1>6 DEF TypeInv, TypeOK

LEMMA DatagramType ==
    ASSUME TypeOK, Len(accepted) < MaxDatagrams, NEW t \in Targets
    PROVE  [id |-> Len(accepted) + 1, to |-> t] \in Datagram
<1>1. Len(accepted) \in Nat
  BY LenProperties DEF TypeOK
<1>2. Len(accepted) + 1 \in 1..MaxDatagrams
  BY <1>1, UdpConstants
<1>3. QED
  BY <1>2 DEF Datagram

LEMMA DatagramReceivedType ==
    ASSUME TypeInv, NEW p \in Peers, NEW t \in Targets, DatagramReceived(p, t)
    PROVE  TypeInv'
<1> DEFINE d == [id |-> Len(accepted) + 1, to |-> t]
<1>1. /\ addr' = p /\ HandleDns(d)
      /\ to_sender_queue' = Append(to_sender_queue, d)
      /\ accepted' = Append(accepted, d)
      /\ UNCHANGED <<transport, cache, creating, sender_created, endpoints, taken, replies, failed>>
      /\ Len(accepted) < MaxDatagrams
  BY DEF DatagramReceived
<1>2. d \in Datagram /\ d.to = t
  BY <1>1, DatagramType DEF TypeInv
<1> HIDE DEF d
<1>3. to_sender_queue' \in Seq(Datagram) /\ accepted' \in Seq(Datagram)
  BY <1>1, <1>2, AppendProperties DEF TypeInv, TypeOK
<1>4. p # None /\ t # None
  BY UdpConstants
<1>5. /\ lookups' \subseteq Datagram
      /\ dns_resolved' \in BOOLEAN
      /\ resolved_addr' \in Targets \cup {None}
      /\ scheduled' \in Nat
      /\ scheduled' > 0 => resolved_addr' # None
  <2>1. /\ lookups \subseteq Datagram /\ dns_resolved \in BOOLEAN
        /\ resolved_addr \in Targets \cup {None} /\ scheduled \in Nat
        /\ scheduled > 0 => resolved_addr # None
    BY DEF TypeInv, TypeOK
  <2>2. CASE /\ lookups' = lookups \cup {d}
             /\ UNCHANGED <<dns_resolved, resolved_addr, scheduled>>
    BY <1>2, <2>1, <2>2
  <2>3. CASE /\ resolved_addr' = d.to /\ dns_resolved' = TRUE
             /\ scheduled' = scheduled + 1 /\ UNCHANGED lookups
    BY <1>2, <1>4, <2>1, <2>3
  <2>4. CASE UNCHANGED <<lookups, dns_resolved, resolved_addr, scheduled>>
    BY <2>1, <2>4
  <2>5. QED
    BY <1>1, <2>2, <2>3, <2>4 DEF HandleDns
<1>6. QED
  BY <1>1, <1>3, <1>4, <1>5 DEF TypeInv, TypeOK

LEMMA CreatingType ==
    ASSUME TypeInv,
           CreateSender \/ SenderFails \/ \E d \in lookups : ResolveDns(d) \/ ResolveDnsFails(d)
    PROVE  TypeInv'
<1>1. CASE CreateSender
  <2>1. resolved_addr \in Targets
    BY <1>1 DEF CreateSender, TypeInv, TypeOK
  <2>2. creating' \in Seq(Targets)
    BY <1>1, <2>1, AppendProperties DEF CreateSender, TypeInv, TypeOK
  <2>3. scheduled' \in Nat /\ (scheduled' > 0 => scheduled > 0)
    BY <1>1 DEF CreateSender, TypeInv, TypeOK
  <2>4. QED
    BY <1>1, <2>2, <2>3 DEF CreateSender, TypeInv, TypeOK
<1>2. CASE SenderFails
  <2>1. creating' \in Seq(Targets)
    BY <1>2, HeadTailProperties DEF SenderFails, TypeInv, TypeOK
  <2>2. QED
    BY <1>2, <2>1 DEF SenderFails, TypeInv, TypeOK
<1>3. ASSUME NEW d \in lookups, ResolveDns(d)
      PROVE  TypeInv'
  <2>1. d.to \in Targets /\ d.to # None
    BY UdpConstants DEF TypeInv, TypeOK, Datagram
  <2>2. creating' \in Seq(Targets)
    BY <1>3, <2>1, AppendProperties DEF ResolveDns, TypeInv, TypeOK
  <2>3. QED
    BY <1>3, <2>1, <2>2 DEF ResolveDns, TypeInv, TypeOK
<1>4. ASSUME NEW d \in lookups, ResolveDnsFails(d)
      PROVE  TypeInv'
  BY <1>4 DEF ResolveDnsFails, TypeInv, TypeOK
<1>5. QED
  BY <1>1, <1>2, <1>3, <1>4

(* The histories refer to endpoints by number, and these only grow.        *)
LEMMA SenderCreatedType ==
    ASSUME TypeInv, SenderCreated
    PROVE  TypeInv'
<1> DEFINE new == [to |-> Head(creating), state |-> "sending"]
<1>1. Head(creating) \in Targets /\ Tail(creating) \in Seq(Targets)
  BY HeadTailProperties DEF SenderCreated, TypeInv, TypeOK
<1>2. new \in Endpoint
  BY <1>1 DEF Endpoint
<1>3. endpoints' = Append(endpoints, new) /\ endpoints \in Seq(Endpoint)
  BY DEF SenderCreated, TypeInv, TypeOK
<1> HIDE DEF new
<1>4. endpoints' \in Seq(Endpoint) /\ Len(endpoints') = Len(endpoints) + 1
  BY <1>2, <1>3, AppendProperties
<1>5. DOMAIN endpoints \subseteq DOMAIN endpoints'
  BY <1>3, <1>4, LenProperties
<1>6. taken \in Seq([d : Datagram, by : DOMAIN endpoints', went : BOOLEAN])
  <2> DEFINE Old == [d : Datagram, by : DOMAIN endpoints, went : BOOLEAN]
             New == [d : Datagram, by : DOMAIN endpoints', went : BOOLEAN]
  <2>1. Old \subseteq New
    BY <1>5
  <2>2. taken \in Seq(Old)
    BY DEF TypeInv, TypeOK
  <2> HIDE DEF Old, New
  <2>3. taken \in Seq(New)
    BY <2>1, <2>2, ElementOfSeq, SeqDef
  <2>4. QED
    BY <2>3 DEF New
<1>7. replies \in Seq([by : DOMAIN endpoints', label : Targets, to : Peers])
  <2> DEFINE Old == [by : DOMAIN endpoints, label : Targets, to : Peers]
             New == [by : DOMAIN endpoints', label : Targets, to : Peers]
  <2>1. Old \subseteq New
    BY <1>5
  <2>2. replies \in Seq(Old)
    BY DEF TypeInv, TypeOK
  <2> HIDE DEF Old, New
  <2>3. replies \in Seq(New)
    BY <2>1, <2>2, ElementOfSeq, SeqDef
  <2>4. QED
    BY <2>3 DEF New
<1>8. taken' = taken /\ replies' = replies /\ creating' = Tail(creating)
  BY DEF SenderCreated
<1>9. /\ taken' \in Seq([d : Datagram, by : DOMAIN endpoints', went : BOOLEAN])
      /\ replies' \in Seq([by : DOMAIN endpoints', label : Targets, to : Peers])
      /\ creating' \in Seq(Targets)
  BY <1>1, <1>6, <1>7, <1>8
<1>10. QED
  BY <1>4, <1>9 DEF SenderCreated, TypeInv, TypeOK

(* An endpoint that changes its state.                                     *)
LEMMA StateChange ==
    ASSUME TypeInv, NEW e \in DOMAIN endpoints, NEW s \in {"silent", "lost"},
           endpoints' = [endpoints EXCEPT ![e].state = s]
    PROVE  /\ endpoints' \in Seq(Endpoint)
           /\ DOMAIN endpoints' = DOMAIN endpoints
           /\ endpoints'[e].state = s
           /\ \A f \in DOMAIN endpoints :
                 /\ endpoints'[f].to = endpoints[f].to
                 /\ f # e => endpoints'[f] = endpoints[f]
<1>1. endpoints \in Seq(Endpoint) /\ e \in 1..Len(endpoints) /\ DOMAIN endpoints = 1..Len(endpoints)
  BY LenProperties DEF TypeInv, TypeOK
<1>2. endpoints[e] \in Endpoint
  BY <1>1, ElementOfSeq
<1>3. [endpoints[e] EXCEPT !.state = s] \in Endpoint
  BY <1>2 DEF Endpoint
<1>4. endpoints' = [endpoints EXCEPT ![e] = [endpoints[e] EXCEPT !.state = s]]
  OBVIOUS
<1>5. /\ endpoints' \in Seq(Endpoint) /\ Len(endpoints') = Len(endpoints)
      /\ \A f \in 1..Len(endpoints) :
            endpoints'[f] = IF f = e THEN [endpoints[e] EXCEPT !.state = s] ELSE endpoints[f]
  BY <1>1, <1>3, <1>4, ExceptSeq
<1>6. DOMAIN endpoints' = DOMAIN endpoints
  BY <1>1, <1>5, LenProperties
<1>7. QED
  BY <1>1, <1>2, <1>5, <1>6 DEF Endpoint

(* What an endpoint takes off the queue, the first k datagrams, as items   *)
(* of the history.                                                         *)
Taking(e, k, went) == [i \in 1..k |-> Queued(e, i, went[i])]

LEMMA TakingType ==
    ASSUME TypeInv, NEW e \in DOMAIN endpoints, NEW k \in 0..Len(to_sender_queue),
           NEW went \in [1..k -> BOOLEAN]
    PROVE  LET more == Taking(e, k, went)
           IN  /\ more \in Seq([d : Datagram, by : DOMAIN endpoints, went : BOOLEAN])
               /\ Len(more) = k
               /\ \A i \in 1..k : /\ more[i].d = to_sender_queue[i]
                                  /\ more[i].by = e
                                  /\ more[i].went = went[i]
<1> DEFINE Item == [d : Datagram, by : DOMAIN endpoints, went : BOOLEAN]
           more == Taking(e, k, went)
<1>1. to_sender_queue \in Seq(Datagram) /\ Len(to_sender_queue) \in Nat /\ k \in Nat
  BY LenProperties DEF TypeInv, TypeOK
<1>2. ASSUME NEW i \in 1..k
      PROVE  /\ Queued(e, i, went[i]) \in Item
             /\ Queued(e, i, went[i]).d = to_sender_queue[i]
             /\ Queued(e, i, went[i]).by = e
             /\ Queued(e, i, went[i]).went = went[i]
  <2>1. to_sender_queue[i] \in Datagram
    BY <1>1, ElementOfSeq
  <2>2. QED
    BY <2>1 DEF Queued
<1>3. more \in [1..k -> Item]
  BY <1>2 DEF Taking
<1>4. \A i \in 1..k : more[i] = Queued(e, i, went[i])
  BY DEF Taking
<1>5. more \in Seq(Item)
  <2> HIDE DEF Item, more
  <2>1. QED
    BY <1>1, <1>3, SeqDef
<1>6. Len(more) = k
  <2> HIDE DEF Item, more
  <2>1. QED
    BY <1>1, <1>3, <1>5, LenProperties
<1>7. QED
  <2> HIDE DEF more
  <2>1. /\ more \in Seq(Item) /\ Len(more) = k
        /\ \A i \in 1..k : /\ more[i].d = to_sender_queue[i]
                           /\ more[i].by = e
                           /\ more[i].went = went[i]
    BY <1>2, <1>4, <1>5, <1>6
  <2>2. QED
    BY <2>1 DEF more

(* The two outcomes of start_send as one: the first k datagrams are taken, *)
(* and each of them went, but for the last if the endpoint failed on it.   *)
Takes(e, k, went) ==
    /\ Sending(e)
    /\ taken' = taken \o Taking(e, k, went)
    /\ to_sender_queue' = SubSeq(to_sender_queue, k + 1, Len(to_sender_queue))
    /\ \A i \in 1..k : i < k => went[i]
    /\ \/ endpoints' = endpoints /\ went[k]
       \/ endpoints' = [endpoints EXCEPT ![e].state = "silent"]
    /\ UNCHANGED <<transport, addr, cache, lookups, dns_resolved, resolved_addr,
                   scheduled, creating, sender_created, accepted, replies>>
    /\ failed' \in BOOLEAN

LEMMA StartSendTakes ==
    ASSUME TypeInv, NEW e \in DOMAIN endpoints, StartSend(e)
    PROVE  \E k \in 1..Len(to_sender_queue) : \E went \in [1..k -> BOOLEAN] : Takes(e, k, went)
<1>1. /\ to_sender_queue \in Seq(Datagram) /\ Len(to_sender_queue) \in Nat
      /\ DOMAIN to_sender_queue = 1..Len(to_sender_queue)
      /\ failed \in BOOLEAN
  BY LenProperties DEF TypeInv, TypeOK
<1>2. CASE Send(e)
  <2> DEFINE k    == Len(to_sender_queue)
             went == [i \in 1..k |-> TRUE]
  <2>1. k \in 1..k
    BY <1>1, <1>2, EmptySeq DEF Send
  <2>2. Taking(e, k, went) = [i \in DOMAIN to_sender_queue |-> Queued(e, i, TRUE)]
    BY <1>1 DEF Taking
  <2>3. SubSeq(to_sender_queue, k + 1, k) = <<>>
    BY <1>1, SubSeqEmpty
  <2>4. went \in [1..k -> BOOLEAN] /\ went[k] /\ \A i \in 1..k : went[i]
    BY <2>1
  <2> HIDE DEF k, went
  <2>5. QED
    BY <1>1, <1>2, <2>1, <2>2, <2>3, <2>4 DEF Send, k, Takes
<1>3. ASSUME NEW k \in DOMAIN to_sender_queue, SendFails(e, k)
      PROVE  \E went \in [1..k -> BOOLEAN] :
                /\ taken' = taken \o Taking(e, k, went)
                /\ \A i \in 1..k : i < k => went[i]
  <2> DEFINE went == [i \in 1..k |-> i < k]
  <2>0. ASSUME NEW i \in 1..k
        PROVE  (i < k) \in BOOLEAN
    <3>1. k \in Nat /\ i \in 1..k
      BY <1>1
    <3>2. QED
      BY <3>1, SMT
  <2>1. went \in [1..k -> BOOLEAN] /\ \A i \in 1..k : i < k => went[i]
    BY <2>0, Zenon
  <2>2. Taking(e, k, went) = [i \in 1..k |-> Queued(e, i, i < k)]
    BY DEF Taking
  <2>3. taken' = taken \o Taking(e, k, went)
    BY <1>3, <2>2 DEF SendFails
  <2> HIDE DEF went
  <2>4. QED
    BY <2>1, <2>3
<1>4. ASSUME NEW k \in DOMAIN to_sender_queue, SendFails(e, k)
      PROVE  /\ k \in 1..Len(to_sender_queue) /\ Sending(e)
             /\ to_sender_queue' = SubSeq(to_sender_queue, k + 1, Len(to_sender_queue))
             /\ endpoints' = [endpoints EXCEPT ![e].state = "silent"]
             /\ UNCHANGED <<transport, addr, cache, lookups, dns_resolved, resolved_addr,
                             scheduled, creating, sender_created, accepted, replies>>
             /\ failed' \in BOOLEAN
  BY <1>1, <1>4 DEF SendFails
<1>5. QED
  BY <1>2, <1>3, <1>4 DEF StartSend, Takes

LEMMA StartSendType ==
    ASSUME TypeInv, NEW e \in DOMAIN endpoints, StartSend(e)
    PROVE  TypeInv' /\ DOMAIN endpoints' = DOMAIN endpoints
<1> DEFINE Item == [d : Datagram, by : DOMAIN endpoints, went : BOOLEAN]
<1>0. PICK k \in 1..Len(to_sender_queue) : \E went \in [1..k -> BOOLEAN] : Takes(e, k, went)
  BY StartSendTakes
<1>1. PICK went \in [1..k -> BOOLEAN] : Takes(e, k, went)
  BY <1>0
<1>2. to_sender_queue \in Seq(Datagram) /\ Len(to_sender_queue) \in Nat /\ k \in Nat
  BY LenProperties DEF TypeInv, TypeOK
<1>3. taken \in Seq(Item)
  BY DEF TypeInv, TypeOK
<1>4. Taking(e, k, went) \in Seq(Item)
  <2>1. k \in 0..Len(to_sender_queue)
    BY <1>2
  <2>2. QED
    BY <2>1, TakingType
<1>5. taken' \in Seq(Item)
  <2> HIDE DEF Item
  <2>1. QED
    BY <1>1, <1>3, <1>4, ConcatProperties DEF Takes
<1>6. to_sender_queue' \in Seq(Datagram)
  <2>1. \A i \in (k + 1)..Len(to_sender_queue) : to_sender_queue[i] \in Datagram
    BY <1>2, ElementOfSeq
  <2>2. QED
    BY <1>1, <1>2, <2>1, SubSeqProperties DEF Takes
<1>7. endpoints' \in Seq(Endpoint) /\ DOMAIN endpoints' = DOMAIN endpoints
  <2>1. CASE endpoints' = endpoints
    BY <2>1 DEF TypeInv, TypeOK
  <2>2. CASE endpoints' = [endpoints EXCEPT ![e].state = "silent"]
    BY <2>2, StateChange
  <2>3. QED
    BY <1>1, <2>1, <2>2 DEF Takes
<1>8. to_sender_queue # <<>>
  BY <1>2, EmptySeq
<1>9. taken' \in Seq([d : Datagram, by : DOMAIN endpoints', went : BOOLEAN])
  BY <1>5, <1>7
<1>10. replies' \in Seq([by : DOMAIN endpoints', label : Targets, to : Peers])
  BY <1>1, <1>7 DEF Takes, TypeInv, TypeOK
<1> HIDE DEF Item
<1>11. QED
  BY <1>1, <1>6, <1>7, <1>8, <1>9, <1>10 DEF Takes, TypeInv, TypeOK

LEMMA SenderLostType ==
    ASSUME TypeInv, NEW e \in DOMAIN endpoints, SenderLost(e)
    PROVE  TypeInv' /\ DOMAIN endpoints' = DOMAIN endpoints
<1>1. endpoints' \in Seq(Endpoint) /\ DOMAIN endpoints' = DOMAIN endpoints
  BY StateChange DEF SenderLost
<1>2. taken' = taken /\ replies' = replies
  BY DEF SenderLost
<1>3. /\ taken' \in Seq([d : Datagram, by : DOMAIN endpoints', went : BOOLEAN])
      /\ replies' \in Seq([by : DOMAIN endpoints', label : Targets, to : Peers])
  BY <1>1, <1>2 DEF TypeInv, TypeOK
<1>4. QED
  BY <1>1, <1>3 DEF SenderLost, TypeInv, TypeOK

LEMMA ReplyType ==
    ASSUME TypeInv, NEW e \in DOMAIN endpoints, Reply(e)
    PROVE  TypeInv'
<1> DEFINE Answer == [by : DOMAIN endpoints, label : Targets, to : Peers]
           answer == [by |-> e, label |-> endpoints[Len(endpoints)].to, to |-> addr]
<1>1. addr \in Peers
  <2>1. taken # <<>>
    BY DEF Reply
  <2>2. QED
    BY <2>1 DEF TypeInv, TypeOK
<1>2. endpoints[Len(endpoints)] \in Endpoint
  <2>1. endpoints \in Seq(Endpoint) /\ Len(endpoints) \in Nat /\ e \in 1..Len(endpoints)
    BY LenProperties DEF TypeInv, TypeOK
  <2>2. Len(endpoints) \in 1..Len(endpoints)
    BY <2>1
  <2>3. QED
    BY <2>1, <2>2, ElementOfSeq
<1>3. answer \in Answer
  BY <1>1, <1>2 DEF Endpoint
<1>4. replies \in Seq(Answer) /\ replies' = Append(replies, answer)
  BY DEF Reply, TypeInv, TypeOK
<1>5. replies' \in Seq(Answer)
  <2> HIDE DEF Answer, answer
  <2>1. QED
    BY <1>3, <1>4, AppendProperties
<1>6. QED
  BY <1>5 DEF Reply, TypeInv, TypeOK

LEMMA NextType == TypeInv /\ [Next]_vars => TypeInv'
<1> SUFFICES ASSUME TypeInv, [Next]_vars PROVE TypeInv'
  OBVIOUS
<1>1. ASSUME NEW p \in Peers, DatagramRefused(p) PROVE TypeInv'
  BY <1>1, UdpConstants DEF DatagramRefused, TypeInv, TypeOK
<1>2. ASSUME NEW t \in Targets, CacheFills(t) PROVE TypeInv'
  BY <1>2 DEF CacheFills, TypeInv, TypeOK
<1>3. CASE ConnectionLost
  BY <1>3 DEF ConnectionLost, TypeInv, TypeOK
<1>4. CASE UNCHANGED vars
  BY <1>4 DEF vars, TypeInv, TypeOK
<1>5. QED
  BY <1>1, <1>2, <1>3, <1>4, DatagramReceivedType, CreatingType, SenderCreatedType,
     StartSendType, SenderLostType, ReplyType DEF Next

(* TypeInv holds in every behaviour.                                       *)
THEOREM TypeInvariant == Spec => []TypeInv
<1>1. QED
  BY InitType, NextType, PTL DEF Spec

(* The state keeps its type; in particular the histories name endpoints    *)
(* that were made, create_sender connects to an address and not to the     *)
(* None that resolved_addr starts with, and a reply goes to a peer and not *)
(* to the None that addr starts with (base.py 354-415).                    *)
THEOREM TypeCorrect == Spec => []TypeOK
<1>1. TypeInv => TypeOK
  BY DEF TypeInv
<1>2. QED
  BY <1>1, TypeInvariant, PTL

-----------------------------------------------------------------------------
(* Each datagram forwarded once.                                           *)

(* An endpoint that a datagram failed on sends no more, so that datagram   *)
(* stays the last it took.                                                 *)
OnceInv ==
    /\ ForwardedOnce
    /\ \A i \in DOMAIN taken : ~taken[i].went => ~Sending(taken[i].by)

Items == [d : Datagram, by : DOMAIN endpoints, went : BOOLEAN]

(* The datagrams of a history of items.                                    *)
Datagrams(s) == [i \in DOMAIN s |-> s[i].d]

LEMMA DatagramsType ==
    ASSUME NEW s \in Seq(Items)
    PROVE  /\ Datagrams(s) \in Seq(Datagram)
           /\ Len(Datagrams(s)) = Len(s)
           /\ \A i \in 1..Len(s) : Datagrams(s)[i] = s[i].d
<1>1. DOMAIN s = 1..Len(s) /\ Len(s) \in Nat
  BY LenProperties
<1>2. \A i \in 1..Len(s) : s[i].d \in Datagram
  <2>1. TAKE i \in 1..Len(s)
  <2>2. s[i] \in Items
    BY ElementOfSeq
  <2>3. QED
    BY <2>2 DEF Items
<1>3. Datagrams(s) \in [1..Len(s) -> Datagram] /\ \A i \in 1..Len(s) : Datagrams(s)[i] = s[i].d
  BY <1>1, <1>2 DEF Datagrams
<1>4. Datagrams(s) \in Seq(Datagram)
  BY <1>1, <1>3, SeqDef
<1>5. QED
  BY <1>1, <1>3, <1>4, LenProperties

LEMMA DatagramsConcat ==
    ASSUME NEW s \in Seq(Items), NEW t \in Seq(Items)
    PROVE  Datagrams(s \o t) = Datagrams(s) \o Datagrams(t)
<1> DEFINE both == s \o t
           a    == Datagrams(both)
           u    == Datagrams(s)
           v    == Datagrams(t)
           b    == u \o v
<1>1. /\ both \in Seq(Items) /\ Len(both) = Len(s) + Len(t)
      /\ \A i \in 1..(Len(s) + Len(t)) : both[i] = IF i <= Len(s) THEN s[i] ELSE t[i - Len(s)]
  BY ConcatProperties
<1> HIDE DEF both
<1>2. u \in Seq(Datagram) /\ Len(u) = Len(s) /\ \A i \in 1..Len(s) : u[i] = s[i].d
  BY DatagramsType
<1>3. v \in Seq(Datagram) /\ Len(v) = Len(t) /\ \A i \in 1..Len(t) : v[i] = t[i].d
  BY DatagramsType
<1>4. /\ a \in Seq(Datagram) /\ Len(a) = Len(s) + Len(t)
      /\ \A i \in 1..(Len(s) + Len(t)) : a[i] = both[i].d
  BY <1>1, DatagramsType
<1>5. /\ b \in Seq(Datagram) /\ Len(b) = Len(s) + Len(t)
      /\ \A i \in 1..(Len(s) + Len(t)) :
            b[i] = IF i <= Len(s) THEN u[i] ELSE v[i - Len(s)]
  <2> HIDE DEF u, v
  <2>1. /\ b \in Seq(Datagram) /\ Len(b) = Len(u) + Len(v)
        /\ \A i \in 1..(Len(u) + Len(v)) : b[i] = IF i <= Len(u) THEN u[i] ELSE v[i - Len(u)]
    <3>1. u \in Seq(Datagram) /\ v \in Seq(Datagram)
      BY <1>2, <1>3
    <3>2. QED
      BY <3>1, ConcatProperties
  <2> HIDE DEF b
  <2>2. QED
    BY <1>2, <1>3, <2>1
<1>6. Len(s) \in Nat /\ Len(t) \in Nat
  BY LenProperties
<1> HIDE DEF a, b, u, v
<1>7. ASSUME NEW i \in 1..(Len(s) + Len(t))
      PROVE  a[i] = b[i]
  <2>1. CASE i <= Len(s)
    <3>1. i \in 1..Len(s)
      BY <1>6, <2>1
    <3>2. QED
      BY <1>1, <1>2, <1>4, <1>5, <2>1, <3>1
  <2>2. CASE ~(i <= Len(s))
    <3>1. i - Len(s) \in 1..Len(t)
      BY <1>6, <2>2
    <3>2. QED
      BY <1>1, <1>3, <1>4, <1>5, <2>2, <3>1
  <2>3. QED
    BY <2>1, <2>2
<1>8. a = b
  BY <1>4, <1>5, <1>7, SeqEqual
<1>9. QED
  BY <1>8 DEF a, b, u, v, both

(* A datagram that arrives is the last of those accepted and of those      *)
(* queued.                                                                 *)
LEMMA DatagramReceivedOnce ==
    ASSUME TypeInv, OnceInv, NEW p \in Peers, NEW t \in Targets, DatagramReceived(p, t)
    PROVE  OnceInv'
<1> DEFINE d == [id |-> Len(accepted) + 1, to |-> t]
           x == Datagrams(taken)
<1>1. /\ to_sender_queue' = Append(to_sender_queue, d)
      /\ accepted' = Append(accepted, d)
      /\ UNCHANGED <<endpoints, taken>>
      /\ Len(accepted) < MaxDatagrams
  BY DEF DatagramReceived
<1>2. d \in Datagram
  BY <1>1, DatagramType DEF TypeInv
<1>3. to_sender_queue \in Seq(Datagram) /\ accepted \in Seq(Datagram) /\ taken \in Seq(Items)
  BY DEF TypeInv, TypeOK, Items
<1>4. x \in Seq(Datagram)
  BY <1>3, DatagramsType
<1>5. x \o to_sender_queue = accepted
  BY DEF OnceInv, ForwardedOnce, Datagrams
<1> HIDE DEF d, x
<1>6. x \o Append(to_sender_queue, d) = Append(accepted, d)
  <2>1. <<d>> \in Seq(Datagram)
    BY <1>2
  <2>2. Append(to_sender_queue, d) = to_sender_queue \o <<d>>
    BY <1>2, <1>3, AppendIsConcat
  <2>3. Append(accepted, d) = accepted \o <<d>>
    BY <1>2, <1>3, AppendIsConcat
  <2>4. (x \o to_sender_queue) \o <<d>> = x \o (to_sender_queue \o <<d>>)
    <3>1. x \in Seq(Datagram) /\ to_sender_queue \in Seq(Datagram) /\ <<d>> \in Seq(Datagram)
      BY <1>3, <1>4, <2>1
    <3>2. \A a, b, c \in Seq(Datagram) : (a \o b) \o c = a \o (b \o c)
      BY ConcatAssociative
    <3>3. QED
      BY ONLY <3>1, <3>2
  <2>5. QED
    BY <1>5, <2>2, <2>3, <2>4
<1>7. [i \in DOMAIN taken' |-> taken'[i].d] = x
  BY <1>1 DEF x, Datagrams
<1>8. QED
  BY <1>1, <1>6, <1>7 DEF OnceInv, ForwardedOnce, Sending

(* The datagrams that an endpoint takes off the queue go from the head of  *)
(* the one sequence to the end of the other.                               *)
LEMMA StartSendOnce ==
    ASSUME TypeInv, OnceInv, NEW e \in DOMAIN endpoints, StartSend(e)
    PROVE  OnceInv'
<1>0. PICK k \in 1..Len(to_sender_queue) : \E went \in [1..k -> BOOLEAN] : Takes(e, k, went)
  BY StartSendTakes
<1>1. PICK went \in [1..k -> BOOLEAN] : Takes(e, k, went)
  BY <1>0
<1> DEFINE more == Taking(e, k, went)
           q    == to_sender_queue
           n    == Len(taken)
<1>2. /\ q \in Seq(Datagram) /\ Len(q) \in Nat /\ k \in Nat /\ k \in 0..Len(q) /\ n \in Nat
      /\ taken \in Seq(Items) /\ DOMAIN taken = 1..n
  BY LenProperties DEF TypeInv, TypeOK, Items
<1>3. /\ more \in Seq(Items) /\ Len(more) = k
      /\ \A i \in 1..k : more[i].d = q[i] /\ more[i].by = e /\ more[i].went = went[i]
  <2> HIDE DEF q, n, more
  <2>1. k \in 0..Len(to_sender_queue)
    BY <1>2 DEF q
  <2>2. /\ Taking(e, k, went) \in Seq([d : Datagram, by : DOMAIN endpoints, went : BOOLEAN])
        /\ Len(Taking(e, k, went)) = k
        /\ \A i \in 1..k : /\ Taking(e, k, went)[i].d = to_sender_queue[i]
                           /\ Taking(e, k, went)[i].by = e
                           /\ Taking(e, k, went)[i].went = went[i]
    BY <2>1, TakingType, Zenon
  <2>3. QED
    BY <2>2 DEF Items, q, more
<1>4. taken' = taken \o more
  BY <1>1 DEF Takes
<1> HIDE DEF more
<1>5. /\ taken' \in Seq(Items) /\ Len(taken') = n + k
      /\ \A i \in 1..(n + k) : taken'[i] = IF i <= n THEN taken[i] ELSE more[i - n]
  BY <1>2, <1>3, <1>4, ConcatProperties
<1>6. DOMAIN taken' = 1..(n + k)
  BY <1>5, LenProperties
<1> HIDE DEF n
<1>7. Datagrams(taken') \o to_sender_queue' = accepted'
  <2>1. Datagrams(more) = SubSeq(q, 1, k)
    <3>1. /\ Datagrams(more) \in Seq(Datagram) /\ Len(Datagrams(more)) = k
          /\ \A i \in 1..k : Datagrams(more)[i] = q[i]
      BY <1>3, DatagramsType
    <3>2. \A i \in 1..k : q[i] \in Datagram
      BY <1>2, ElementOfSeq
    <3>3. /\ SubSeq(q, 1, k) \in Seq(Datagram) /\ Len(SubSeq(q, 1, k)) = k
          /\ \A i \in 1..k : SubSeq(q, 1, k)[i] = q[i]
      BY <1>2, <3>2, SubSeqProperties
    <3>4. QED
      BY <3>1, <3>3, SeqEqual
  <2>2. SubSeq(q, 1, k) \o SubSeq(q, k + 1, Len(q)) = q
    <3>1. SubSeq(q, 1, k) \o SubSeq(q, k + 1, Len(q)) = SubSeq(q, 1, Len(q))
      BY <1>2, ConcatAdjacentSubSeq
    <3>2. QED
      BY <1>2, <3>1, SubSeqFull
  <2>3. Datagrams(taken) \o q = accepted
    BY DEF OnceInv, ForwardedOnce, Datagrams
  <2>4. Datagrams(taken') = Datagrams(taken) \o Datagrams(more)
    BY <1>2, <1>3, <1>4, DatagramsConcat
  <2>5. to_sender_queue' = SubSeq(q, k + 1, Len(q)) /\ accepted' = accepted
    BY <1>1 DEF Takes
  <2>6. /\ Datagrams(taken) \in Seq(Datagram) /\ Datagrams(more) \in Seq(Datagram)
        /\ SubSeq(q, k + 1, Len(q)) \in Seq(Datagram)
    <3>1. \A i \in (k + 1)..Len(q) : q[i] \in Datagram
      BY <1>2, ElementOfSeq
    <3>2. SubSeq(q, k + 1, Len(q)) \in Seq(Datagram)
      BY <1>2, <3>1, SubSeqProperties
    <3>3. QED
      BY <1>2, <1>3, <3>2, DatagramsType
  <2>7. (Datagrams(taken) \o Datagrams(more)) \o SubSeq(q, k + 1, Len(q))
           = Datagrams(taken) \o (Datagrams(more) \o SubSeq(q, k + 1, Len(q)))
    <3>1. \A x, y, z \in Seq(Datagram) : (x \o y) \o z = x \o (y \o z)
      BY ConcatAssociative
    <3>2. QED
      BY <2>6, <3>1
  <2>8. QED
    BY <2>1, <2>2, <2>3, <2>4, <2>5, <2>7
<1>8. Sending(e) /\ \A i \in 1..k : i < k => went[i]
  BY <1>1 DEF Takes
<1>9. ASSUME NEW i \in DOMAIN taken', NEW j \in DOMAIN taken',
             i < j, taken'[i].by = taken'[j].by
      PROVE  taken'[i].went
  <2>1. i \in Nat /\ j \in Nat /\ 1 <= i /\ j <= n + k
    BY <1>2, <1>6
  <2>2. CASE j <= n
    <3>1. /\ i \in DOMAIN taken /\ j \in DOMAIN taken
          /\ taken'[i] = taken[i] /\ taken'[j] = taken[j]
      BY <1>2, <1>5, <1>6, <1>9, <2>1, <2>2
    <3>2. QED
      BY <1>9, <3>1 DEF OnceInv, ForwardedOnce
  <2>3. CASE i <= n /\ ~(j <= n)
    <3>1. /\ i \in DOMAIN taken /\ j - n \in 1..k
          /\ taken'[i] = taken[i] /\ taken'[j] = more[j - n]
      BY <1>2, <1>5, <1>6, <2>1, <2>3
    <3>2. taken[i].by = e
      BY <1>3, <1>9, <3>1
    <3>3. QED
      BY <1>8, <3>1, <3>2 DEF OnceInv
  <2>4. CASE ~(i <= n)
    <3>1. i - n \in 1..k /\ i - n < k /\ taken'[i] = more[i - n]
      BY <1>2, <1>5, <1>6, <1>9, <2>1, <2>4
    <3>2. QED
      BY <1>3, <1>8, <3>1
  <2>5. QED
    BY <2>2, <2>3, <2>4
<1>10. ASSUME NEW i \in DOMAIN taken', ~taken'[i].went
       PROVE  ~(endpoints'[taken'[i].by].state = "sending")
  <2>1. i \in Nat /\ 1 <= i /\ i <= n + k
    BY <1>2, <1>6
  <2>2. CASE i <= n
    <3>1. i \in DOMAIN taken /\ taken'[i] = taken[i]
      BY <1>2, <1>5, <1>6, <2>1, <2>2
    <3>2. taken[i].by \in DOMAIN endpoints /\ ~Sending(taken[i].by)
      <4>1. taken[i] \in Items
        BY <1>2, <3>1, ElementOfSeq
      <4>2. QED
        BY <1>10, <3>1, <4>1 DEF OnceInv, Items
    <3>3. taken[i].by # e
      BY <1>8, <3>2
    <3>4. endpoints'[taken[i].by] = endpoints[taken[i].by]
      <4>1. CASE endpoints' = endpoints
        BY <4>1
      <4>2. CASE endpoints' = [endpoints EXCEPT ![e].state = "silent"]
        BY <3>2, <3>3, <4>2, StateChange
      <4>3. QED
        BY <1>1, <4>1, <4>2 DEF Takes
    <3>5. QED
      BY <3>1, <3>2, <3>4 DEF Sending
  <2>3. CASE ~(i <= n)
    <3>1. i - n \in 1..k /\ taken'[i] = more[i - n]
      BY <1>2, <1>5, <1>6, <2>1, <2>3
    <3>2. taken'[i].by = e /\ ~went[i - n]
      BY <1>3, <1>10, <3>1
    <3>3. ~went[k]
      BY <1>2, <1>8, <3>1, <3>2
    <3>4. endpoints' = [endpoints EXCEPT ![e].state = "silent"]
      BY <1>1, <3>3 DEF Takes
    <3>5. endpoints'[e].state = "silent"
      BY <3>4, StateChange
    <3>6. QED
      BY <3>2, <3>5
  <2>4. QED
    BY <2>2, <2>3
<1>11. QED
  BY <1>7, <1>9, <1>10 DEF OnceInv, ForwardedOnce, Sending, Datagrams

(* An endpoint more, or one that is lost, leaves the histories alone.      *)
LEMMA EndpointsOnce ==
    ASSUME TypeInv, OnceInv, SenderCreated \/ \E e \in DOMAIN endpoints : SenderLost(e)
    PROVE  OnceInv'
<1>1. UNCHANGED <<taken, to_sender_queue, accepted>>
  BY DEF SenderCreated, SenderLost
<1>2. ASSUME NEW f \in DOMAIN endpoints, ~Sending(f)
      PROVE  endpoints'[f].state # "sending"
  <2>1. endpoints \in Seq(Endpoint) /\ Len(endpoints) \in Nat /\ f \in 1..Len(endpoints)
    BY LenProperties DEF TypeInv, TypeOK
  <2>2. CASE SenderCreated
    <3> DEFINE new == [to |-> Head(creating), state |-> "sending"]
    <3>1. new \in Endpoint
      BY <2>2, HeadTailProperties DEF SenderCreated, TypeInv, TypeOK, Endpoint
    <3>2. endpoints' = Append(endpoints, new)
      BY <2>2 DEF SenderCreated
    <3> HIDE DEF new
    <3>3. endpoints'[f] = endpoints[f]
      BY <2>1, <3>1, <3>2, AppendProperties
    <3>4. QED
      BY <1>2, <3>3 DEF Sending
  <2>3. ASSUME NEW e \in DOMAIN endpoints, SenderLost(e)
        PROVE  endpoints'[f].state # "sending"
    <3>1. endpoints' = [endpoints EXCEPT ![e].state = "lost"]
      BY <2>3 DEF SenderLost
    <3>2. endpoints'[e].state = "lost" /\ (f # e => endpoints'[f] = endpoints[f])
      BY <3>1, StateChange
    <3>3. QED
      BY <1>2, <3>2 DEF Sending
  <2>4. QED
    BY <2>2, <2>3
<1>3. \A i \in DOMAIN taken : taken[i].by \in DOMAIN endpoints
  <2>1. TAKE i \in DOMAIN taken
  <2>2. taken \in Seq(Items) /\ i \in 1..Len(taken)
    BY LenProperties DEF TypeInv, TypeOK, Items
  <2>3. taken[i] \in Items
    BY <2>2, ElementOfSeq
  <2>4. QED
    BY <2>3 DEF Items
<1>4. QED
  BY <1>1, <1>2, <1>3 DEF OnceInv, ForwardedOnce, Sending

LEMMA NextOnce == TypeInv /\ OnceInv /\ [Next]_vars => OnceInv'
<1> SUFFICES ASSUME TypeInv, OnceInv, [Next]_vars PROVE OnceInv'
  OBVIOUS
<1>1. ASSUME UNCHANGED <<taken, to_sender_queue, accepted, endpoints>>
      PROVE  OnceInv'
  BY <1>1 DEF OnceInv, ForwardedOnce, Sending
<1>2. CASE \/ \E p \in Peers : DatagramRefused(p)
           \/ CreateSender
           \/ \E d \in lookups : ResolveDns(d) \/ ResolveDnsFails(d)
           \/ \E t \in Targets : CacheFills(t)
           \/ SenderFails
           \/ \E e \in DOMAIN endpoints : Reply(e)
           \/ ConnectionLost
           \/ UNCHANGED vars
  <2>1. UNCHANGED <<taken, to_sender_queue, accepted, endpoints>>
    BY <1>2 DEF DatagramRefused, CreateSender, ResolveDns, ResolveDnsFails, CacheFills,
                SenderFails, Reply, ConnectionLost, vars
  <2>2. QED
    BY <1>1, <2>1
<1>3. QED
  BY <1>2, DatagramReceivedOnce, StartSendOnce, EndpointsOnce DEF Next

THEOREM OnceInvariant == Spec => []OnceInv
<1>1. Init => OnceInv
  <2> SUFFICES ASSUME Init PROVE OnceInv
    OBVIOUS
  <2>1. taken = <<>> /\ to_sender_queue = <<>> /\ accepted = <<>>
    BY DEF Init
  <2>2. [i \in DOMAIN taken |-> taken[i].d] = <<>>
    BY <2>1
  <2>3. <<>> \o to_sender_queue = accepted
    BY <2>1
  <2>4. DOMAIN taken = {}
    BY <2>1
  <2>5. QED
    BY <2>2, <2>3, <2>4 DEF OnceInv, ForwardedOnce
<1>2. QED
  BY <1>1, NextOnce, TypeInvariant, PTL DEF Spec

(* However many endpoints share the queue and however they fail, the       *)
(* datagrams taken off it and those left in it are those accepted, each    *)
(* once and in their order of arrival; one that did not go out was the     *)
(* last its endpoint took (base.py 360-366, 438-446).                      *)
THEOREM EachForwardedOnce == Spec => []ForwardedOnce
<1>1. OnceInv => ForwardedOnce
  BY DEF OnceInv
<1>2. QED
  BY <1>1, OnceInvariant, PTL

-----------------------------------------------------------------------------
(* Only targets that were asked for.                                       *)

Named(t, seq) == \E i \in DOMAIN seq : seq[i].to = t

(* Everything that can become an endpoint's target was named by a datagram *)
(* that was accepted; TypeInv adds that resolved_addr is a target whenever *)
(* a create_sender task is going to read it.                               *)
AskedInv ==
    /\ resolved_addr # None => Named(resolved_addr, accepted)
    /\ \A d \in lookups : Named(d.to, accepted)
    /\ \A i \in DOMAIN creating : Named(creating[i], accepted)
    /\ EndpointsAskedFor

LEMMA NamedGrows ==
    ASSUME NEW seq \in Seq(Datagram), NEW d \in Datagram
    PROVE  /\ Named(d.to, Append(seq, d))
           /\ \A t : Named(t, seq) => Named(t, Append(seq, d))
<1> DEFINE more == Append(seq, d)
<1>1. /\ more \in Seq(Datagram) /\ Len(more) = Len(seq) + 1
      /\ \A i \in 1..Len(seq) : more[i] = seq[i]
      /\ more[Len(seq) + 1] = d
  BY AppendProperties
<1> HIDE DEF more
<1>2. DOMAIN more = 1..(Len(seq) + 1) /\ DOMAIN seq = 1..Len(seq) /\ Len(seq) \in Nat
  BY <1>1, LenProperties
<1>3. Named(d.to, more)
  <2>1. Len(seq) + 1 \in DOMAIN more
    BY <1>2
  <2>2. QED
    BY <1>1, <2>1 DEF Named
<1>4. ASSUME NEW t, Named(t, seq)
      PROVE  Named(t, more)
  <2>1. PICK i \in DOMAIN seq : seq[i].to = t
    BY <1>4 DEF Named
  <2>2. i \in DOMAIN more /\ more[i] = seq[i]
    BY <1>1, <1>2
  <2>3. QED
    BY <2>1, <2>2 DEF Named
<1>5. QED
  BY <1>3, <1>4 DEF more

LEMMA DatagramReceivedAsked ==
    ASSUME TypeInv, AskedInv, NEW p \in Peers, NEW t \in Targets, DatagramReceived(p, t)
    PROVE  AskedInv'
<1> DEFINE d == [id |-> Len(accepted) + 1, to |-> t]
<1>1. /\ HandleDns(d) /\ accepted' = Append(accepted, d)
      /\ UNCHANGED <<creating, endpoints>>
      /\ Len(accepted) < MaxDatagrams
  BY DEF DatagramReceived
<1>2. d \in Datagram
  BY <1>1, DatagramType DEF TypeInv
<1> HIDE DEF d
<1>3. Named(d.to, accepted') /\ \A u : Named(u, accepted) => Named(u, accepted')
  BY <1>1, <1>2, NamedGrows DEF TypeInv, TypeOK
<1>4. /\ resolved_addr' # None => Named(resolved_addr', accepted')
      /\ \A x \in lookups' : Named(x.to, accepted')
  BY <1>1, <1>3 DEF HandleDns, AskedInv
<1>5. \A i \in DOMAIN creating' : Named(creating'[i], accepted')
  BY <1>1, <1>3 DEF AskedInv
<1>6. \A e \in DOMAIN endpoints' : Named(endpoints'[e].to, accepted')
  BY <1>1, <1>3 DEF AskedInv, EndpointsAskedFor, Named
<1>7. QED
  BY <1>4, <1>5, <1>6 DEF AskedInv, EndpointsAskedFor, Named

(* A target joins those that endpoints are being created for.              *)
LEMMA CreatingGrows ==
    ASSUME TypeInv, AskedInv, NEW t \in Targets, Named(t, accepted),
           creating' = IF sender_created THEN creating ELSE Append(creating, t)
    PROVE  \A i \in DOMAIN creating' : Named(creating'[i], accepted)
<1>1. CASE creating' = creating
  BY <1>1 DEF AskedInv
<1>2. CASE creating' = Append(creating, t)
  <2>1. creating \in Seq(Targets)
    BY DEF TypeInv, TypeOK
  <2>2. /\ creating' \in Seq(Targets) /\ Len(creating') = Len(creating) + 1
        /\ \A i \in 1..Len(creating) : creating'[i] = creating[i]
        /\ creating'[Len(creating) + 1] = t
    BY <1>2, <2>1, AppendProperties
  <2>3. /\ DOMAIN creating' = 1..(Len(creating) + 1) /\ DOMAIN creating = 1..Len(creating)
        /\ Len(creating) \in Nat
    BY <2>1, <2>2, LenProperties
  <2>4. TAKE i \in DOMAIN creating'
  <2>5. i \in DOMAIN creating \/ i = Len(creating) + 1
    BY <2>3
  <2>6. QED
    BY <2>2, <2>3, <2>5 DEF AskedInv
<1>3. QED
  BY <1>1, <1>2

LEMMA CreatingAsked ==
    ASSUME TypeInv, AskedInv,
           CreateSender \/ \E d \in lookups : ResolveDns(d) \/ ResolveDnsFails(d)
    PROVE  AskedInv'
<1>1. CASE CreateSender
  <2>1. resolved_addr \in Targets /\ Named(resolved_addr, accepted)
    BY <1>1 DEF CreateSender, AskedInv, TypeInv, TypeOK
  <2>2. \A i \in DOMAIN creating' : Named(creating'[i], accepted)
    BY <1>1, <2>1, CreatingGrows DEF CreateSender
  <2>3. QED
    BY <1>1, <2>2 DEF CreateSender, AskedInv, EndpointsAskedFor
<1>2. ASSUME NEW d \in lookups, ResolveDns(d)
      PROVE  AskedInv'
  <2>1. d.to \in Targets /\ Named(d.to, accepted)
    BY DEF AskedInv, TypeInv, TypeOK, Datagram
  <2>2. \A i \in DOMAIN creating' : Named(creating'[i], accepted)
    BY <1>2, <2>1, CreatingGrows DEF ResolveDns
  <2>3. QED
    BY <1>2, <2>1, <2>2 DEF ResolveDns, AskedInv, EndpointsAskedFor
<1>3. ASSUME NEW d \in lookups, ResolveDnsFails(d)
      PROVE  AskedInv'
  BY <1>3 DEF ResolveDnsFails, AskedInv, EndpointsAskedFor
<1>4. QED
  BY <1>1, <1>2, <1>3

(* The creation of an endpoint ends.                                       *)
LEMMA CreationAsked ==
    ASSUME TypeInv, AskedInv, SenderCreated \/ SenderFails
    PROVE  AskedInv'
<1>1. /\ creating \in Seq(Targets) /\ creating # <<>> /\ Len(creating) \in Nat
      /\ DOMAIN creating = 1..Len(creating)
  BY LenProperties DEF SenderCreated, SenderFails, TypeInv, TypeOK
<1>2. /\ Tail(creating) \in Seq(Targets) /\ Len(Tail(creating)) = Len(creating) - 1
      /\ \A i \in 1..Len(Tail(creating)) : Tail(creating)[i] = creating[i + 1]
      /\ Head(creating) = creating[1]
  BY <1>1, HeadTailProperties
<1>3. 1 \in DOMAIN creating
  BY <1>1, EmptySeq
<1>4. Named(Head(creating), accepted)
  BY <1>2, <1>3 DEF AskedInv
<1>5. \A i \in DOMAIN Tail(creating) : Named(Tail(creating)[i], accepted)
  <2>1. TAKE i \in DOMAIN Tail(creating)
  <2>2. i \in 1..(Len(creating) - 1) /\ i + 1 \in DOMAIN creating
    BY <1>1, <1>2, LenProperties
  <2>3. QED
    BY <1>2, <2>2 DEF AskedInv
<1>6. UNCHANGED <<accepted, resolved_addr, lookups>> /\ creating' = Tail(creating)
  BY DEF SenderCreated, SenderFails
<1>7. \A e \in DOMAIN endpoints' : Named(endpoints'[e].to, accepted)
  <2>1. \A e \in DOMAIN endpoints : Named(endpoints[e].to, accepted)
    BY DEF AskedInv, EndpointsAskedFor, Named
  <2>2. CASE SenderCreated
    <3> DEFINE new == [to |-> Head(creating), state |-> "sending"]
    <3>1. new \in Endpoint /\ new.to = Head(creating)
      BY <1>1, HeadTailProperties DEF Endpoint
    <3>2. endpoints' = Append(endpoints, new) /\ endpoints \in Seq(Endpoint)
      BY <2>2 DEF SenderCreated, TypeInv, TypeOK
    <3> HIDE DEF new
    <3>3. /\ endpoints' \in Seq(Endpoint) /\ Len(endpoints') = Len(endpoints) + 1
          /\ \A e \in 1..Len(endpoints) : endpoints'[e] = endpoints[e]
          /\ endpoints'[Len(endpoints) + 1] = new
      BY <3>1, <3>2, AppendProperties
    <3>4. /\ DOMAIN endpoints' = 1..(Len(endpoints) + 1) /\ DOMAIN endpoints = 1..Len(endpoints)
          /\ Len(endpoints) \in Nat
      BY <3>2, <3>3, LenProperties
    <3>5. TAKE e \in DOMAIN endpoints'
    <3>6. e \in DOMAIN endpoints \/ e = Len(endpoints) + 1
      BY <3>4
    <3>7. QED
      BY <1>4, <2>1, <3>1, <3>3, <3>4, <3>6
  <2>3. CASE SenderFails
    BY <2>1, <2>3 DEF SenderFails
  <2>4. QED
    BY <2>2, <2>3
<1>8. QED
  BY <1>5, <1>6, <1>7 DEF AskedInv, EndpointsAskedFor, Named

(* No step changes an endpoint's target.                                   *)
LEMMA TargetsStay ==
    ASSUME TypeInv, AskedInv, NEW e \in DOMAIN endpoints, StartSend(e) \/ SenderLost(e)
    PROVE  AskedInv'
<1>1. UNCHANGED <<accepted, resolved_addr, lookups, creating>>
  BY DEF StartSend, Send, SendFails, SenderLost
<1>2. \/ endpoints' = endpoints
      \/ \E s \in {"silent", "lost"} : endpoints' = [endpoints EXCEPT ![e].state = s]
  BY DEF StartSend, Send, SendFails, SenderLost
<1>3. /\ DOMAIN endpoints' = DOMAIN endpoints
      /\ \A f \in DOMAIN endpoints : endpoints'[f].to = endpoints[f].to
  BY <1>2, StateChange
<1>4. QED
  BY <1>1, <1>3 DEF AskedInv, EndpointsAskedFor

LEMMA NextAsked == TypeInv /\ AskedInv /\ [Next]_vars => AskedInv'
<1> SUFFICES ASSUME TypeInv, AskedInv, [Next]_vars PROVE AskedInv'
  OBVIOUS
<1>1. CASE \/ \E p \in Peers : DatagramRefused(p)
           \/ \E t \in Targets : CacheFills(t)
           \/ \E e \in DOMAIN endpoints : Reply(e)
           \/ ConnectionLost
           \/ UNCHANGED vars
  <2>1. UNCHANGED <<accepted, resolved_addr, lookups, creating, endpoints>>
    BY <1>1 DEF DatagramRefused, CacheFills, Reply, ConnectionLost, vars
  <2>2. QED
    BY <2>1 DEF AskedInv, EndpointsAskedFor, Named
<1>2. QED
  BY <1>1, DatagramReceivedAsked, CreatingAsked, CreationAsked, TargetsStay DEF Next

THEOREM AskedInvariant == Spec => []AskedInv
<1>1. Init => AskedInv
  BY DEF Init, AskedInv, EndpointsAskedFor
<1>2. QED
  BY <1>1, NextAsked, TypeInvariant, PTL DEF Spec

(* Every endpoint is for a target that some accepted datagram named,       *)
(* although lookups that overlap overwrite resolved_addr and create_sender *)
(* reads it a task later (base.py 377-415).                                *)
THEOREM NoForeignEndpoint == Spec => []EndpointsAskedFor
<1>1. AskedInv => EndpointsAskedFor
  BY DEF AskedInv
<1>2. QED
  BY <1>1, AskedInvariant, PTL
=============================================================================
