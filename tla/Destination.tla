----------------------------- MODULE Destination -----------------------------
(***************************************************************************)
(* From the address a local program names to the address the server        *)
(* connects to, for several connections that share one DnsCache (cache.py).*)
(* The client reads the address (Socks5.get_addr, HttpProxy), packs it into *)
(* the first message (create_first_data); the server unpacks it            *)
(* (get_addr_from_first_data), looks the name up or finds it in the cache, *)
(* and connects.                                                           *)
(*                                                                         *)
(* A host is a sequence of characters, a message one of bytes.  A name may *)
(* have several answers, of which each lookup gets any one first.          *)
(***************************************************************************)
EXTENDS Naturals, SequencesExt

CONSTANTS
    Connections,
    Base,        \* the values of a byte, 256
    Encoding,    \* UTF-8: [characters -> their bytes]
    Answers,     \* [names that exist -> sets of IP addresses]
    Ipv6,        \* which of those addresses are IPv6
    Overhead,    \* bytes encryption adds to the first message; table: none
    Least,       \* bytes an HTTP request must carry, 13
    Requests     \* what the local programs ask for

MaxPort     == Base * Base - 1    \* what pack('!H') takes
MaxHost     == Base - 1           \* ... and pack('!B')
DefaultPort == 80

Byte    == 0..(Base - 1)
Host    == Seq(DOMAIN Encoding)
Address == [host : Host, port : Nat]

(* atyp 1, 3, 4: an IPv4 address, a host name, an IPv6 address; the last   *)
(* and the first only with SOCKS5.                                         *)
Request == [via : {"socks5", "connect", "get"}, atyp : {1, 3, 4},
            host : Host, port : Nat]

ASSUME DestinationConstants ==
    /\ Base \in Nat /\ Base > 5
    /\ Overhead \in Nat /\ Least \in Nat
    /\ \A ch \in DOMAIN Encoding : Encoding[ch] \in Seq(Byte) \ {<<>>}
    /\ DOMAIN Answers \subseteq Host
    /\ Requests \subseteq Request
    /\ \A r \in Requests : r.via = "socks5" => r.port <= MaxPort

(* Any two characters differ in a byte, as in UTF-8, where the first byte  *)
(* tells how many there are: so none is the beginning of another.          *)
ASSUME EncodingConstants ==
    \A ch, d \in DOMAIN Encoding : ch # d =>
        \E i \in DOMAIN Encoding[ch] \cap DOMAIN Encoding[d] : Encoding[ch][i] # Encoding[d][i]

VARIABLES
    status,         \* how far each connection has come, see below
    asked,          \* the request made on it
    given,          \* self._addr: what the client made of that
    raw_addr,       \* what the server made of the first message
    resolved_addr,  \* [ip, port, parts]: parts counts the tuple's items
    dns_cache       \* [names -> IP address], never forgotten

vars == <<status, asked, given, raw_addr, resolved_addr, dns_cache>>

(* raised, cut: an exception in the client, with the whole request or a    *)
(* part of it; sent: the first message is under way; refused: the server   *)
(* printed that and left the connection open; scheduled: a create_sender   *)
(* task waits to run; unconnected: create_connection failed, which is only *)
(* logged.                                                                 *)
Pending == {"sent", "resolving", "scheduled", "connecting"}
Status  == {"idle", "raised", "cut", "refused", "closed", "unconnected", "connected"} \cup Pending

(* The state invariant of the variables' domains.                          *)
TypeOK ==
    LET Ip == UNION {Answers[n] : n \in DOMAIN Answers}
    IN  /\ status \in [Connections -> Status]
        /\ \A c \in Connections :
               /\ status[c] # "idle" => asked[c] \in Requests
               /\ status[c] \notin {"idle", "raised", "cut"} =>
                      given[c] \in Address /\ given[c].port <= MaxPort
               /\ raw_addr[c] \in Address \cup {<<>>}
               /\ status[c] \in {"scheduled", "connecting", "connected"} =>
                      resolved_addr[c] \in [ip : Ip, port : 0..MaxPort, parts : {2, 4}]
        /\ \A n \in DOMAIN dns_cache : dns_cache[n] \in Ip

Init ==
    /\ status = [c \in Connections |-> "idle"]
    /\ asked = [c \in Connections |-> <<>>]
    /\ given = [c \in Connections |-> <<>>]
    /\ raw_addr = [c \in Connections |-> <<>>]
    /\ resolved_addr = [c \in Connections |-> <<>>]
    /\ dns_cache = <<>>

-----------------------------------------------------------------------------
(* Conversions.                                                            *)

(* str.encode, and bytes.decode as a set: empty when it raises.            *)
Encode(host) == FlattenSeq([i \in DOMAIN host |-> Encoding[host[i]]])

Decode(bytes) ==
    {host \in UNION {[1..n -> DOMAIN Encoding] : n \in 0..Len(bytes)} :
        Encode(host) = bytes}

PortBytes(port)  == <<port \div Base, port % Base>>
PortOf(bytes)    == bytes[1] * Base + bytes[2]
LastTwo(bytes)   == SubSeq(bytes, Len(bytes) - 1, Len(bytes))

(* A SOCKS5 request: ver, cmd, rsv, atyp, address and port.                *)
Socks5Bytes(r) ==
    <<5, 1, 0, r.atyp, Len(Encode(r.host)) % Base>> \o Encode(r.host) \o PortBytes(r.port)

(* get_addr of a segment.  A name is what lies between the sixth byte and  *)
(* the last two, whatever the length says; for the other address types     *)
(* unpack('!HH') of two bytes raises.                                      *)
Socks5Addr(seg) ==
    IF seg[4] = 3
    THEN {[host |-> h, port |-> PortOf(LastTwo(seg))] : h \in Decode(SubSeq(seg, 6, Len(seg) - 2))}
    ELSE {}

(* A segment of a decimal number that still has a digit.                   *)
DigitsCut(number) == {number \div cut : cut \in {10, 100, 1000, 10000}} \ {0}

(* What stage4_receive_requests reads: the request whole, or cut in its    *)
(* port, or before that in the host of a Host line.                        *)
HttpAddr(r) ==
    {[host |-> r.host, port |-> p] : p \in {r.port} \cup DigitsCut(r.port)}
    \cup IF r.via = "get"
         THEN {[host |-> SubSeq(r.host, 1, k), port |-> DefaultPort] : k \in 0..Len(r.host)}
         ELSE {}

(* What a client makes of a request that comes whole, and what it can make *)
(* of one that was cut.                                                    *)
WholeAddr(r) ==
    IF r.via = "socks5" THEN Socks5Addr(Socks5Bytes(r))
                        ELSE {[host |-> r.host, port |-> r.port]}

Parsed(r) ==
    IF r.via = "socks5"
    THEN UNION {Socks5Addr(SubSeq(Socks5Bytes(r), 1, n)) : n \in 4..Len(Socks5Bytes(r))}
    ELSE HttpAddr(r)

Fits(addr) == Len(addr.host) <= MaxHost /\ addr.port <= MaxPort

(* Mutation of CreateFirstData: the port in the other byte order.          *)
CreateFirstDataLittle(addr) ==
    <<3, Len(addr.host)>> \o Encode(addr.host) \o <<addr.port % Base, addr.port \div Base>>

(* create_first_data: the length is that of the string, in characters.     *)
CreateFirstData(addr) ==
    <<3, Len(addr.host)>> \o Encode(addr.host) \o PortBytes(addr.port)

(* get_addr_from_first_data: there the length counts bytes.  Empty: None.  *)
AddrFromFirstData(data) ==
    LET len == data[2]
    IN  {[host |-> h, port |-> PortOf(SubSeq(data, 3 + len, 4 + len))] :
            h \in Decode(SubSeq(data, 3, 2 + len))}

-----------------------------------------------------------------------------
(* The client.                                                             *)

Ask(c, r, addr) ==
    /\ status[c] = "idle"
    /\ addr \in Parsed(r) /\ Fits(addr)
    /\ status' = [status EXCEPT ![c] = "sent"]
    /\ asked' = [asked EXCEPT ![c] = r]
    /\ given' = [given EXCEPT ![c] = addr]
    /\ UNCHANGED <<raw_addr, resolved_addr, dns_cache>>

(* Parsing of a whole request raises, or packing does.                     *)
AskRaises(c, r) ==
    /\ status[c] = "idle"
    /\ ~\E addr \in WholeAddr(r) : Fits(addr)
    /\ status' = [status EXCEPT ![c] = "raised"]
    /\ asked' = [asked EXCEPT ![c] = r]
    /\ UNCHANGED <<given, raw_addr, resolved_addr, dns_cache>>

(* A request is cut so that it does not parse at all.                      *)
AskCut(c, r) ==
    /\ status[c] = "idle"
    /\ status' = [status EXCEPT ![c] = "cut"]
    /\ asked' = [asked EXCEPT ![c] = r]
    /\ UNCHANGED <<given, raw_addr, resolved_addr, dns_cache>>

-----------------------------------------------------------------------------
(* The server.                                                             *)

(* Mutations of HandleDns: a cached name does not set resolved_addr; the   *)
(* cache is not asked.                                                     *)
HandleDnsUnset(c, addr) ==
    /\ status' = [status EXCEPT ![c] =
           IF addr.host \in DOMAIN dns_cache THEN "scheduled" ELSE "resolving"]
    /\ UNCHANGED resolved_addr

HandleDnsUncached(c, addr) ==
    /\ status' = [status EXCEPT ![c] = "resolving"]
    /\ UNCHANGED resolved_addr

(* handle_dns: a task is made to look an unknown name up, or to connect.   *)
HandleDns(c, addr) ==
    \/ /\ addr.host \notin DOMAIN dns_cache
       /\ status' = [status EXCEPT ![c] = "resolving"]
       /\ UNCHANGED resolved_addr
    \/ /\ addr.host \in DOMAIN dns_cache
       /\ status' = [status EXCEPT ![c] = "scheduled"]
       /\ resolved_addr' = [resolved_addr EXCEPT ![c] =
              [ip |-> dns_cache[addr.host], port |-> addr.port, parts |-> 2]]

(* stage4_recv_requests counts the bytes the HTTP request carries.         *)
LongEnough(c) == Len(CreateFirstData(given[c])) + Overhead >= Least

(* handle_inbound_recv_reply for the first message.                        *)
FirstMessage(c) ==
    /\ status[c] = "sent" /\ LongEnough(c)
    /\ \E addr \in AddrFromFirstData(CreateFirstData(given[c])) :
           /\ raw_addr' = [raw_addr EXCEPT ![c] = addr]
           /\ HandleDns(c, addr)
    /\ UNCHANGED <<asked, given, dns_cache>>

(* Fewer bytes than that are taken for no request at all: there is no      *)
(* answer and the connection stays open.                                   *)
FirstMessageShort(c) ==
    /\ status[c] = "sent" /\ ~LongEnough(c)
    /\ status' = [status EXCEPT ![c] = "refused"]
    /\ UNCHANGED <<asked, given, raw_addr, resolved_addr, dns_cache>>

FirstMessageRefused(c) ==
    /\ status[c] = "sent" /\ LongEnough(c)
    /\ AddrFromFirstData(CreateFirstData(given[c])) = {}
    /\ status' = [status EXCEPT ![c] = "closed"]
    /\ UNCHANGED <<asked, given, raw_addr, resolved_addr, dns_cache>>

(* create_sender up to its await, with a resolved address.  getaddrinfo    *)
(* gives an IPv6 address four items, which create_connection does not take *)
(* as positional arguments.                                                *)
Outcome(resolved) == IF resolved.parts = 2 THEN "connecting" ELSE "unconnected"

Store(name, ip) == [n \in DOMAIN dns_cache \cup {name} |-> IF n = name THEN ip ELSE dns_cache[n]]

(* Mutation of ResolveDns: the name is taken from something that another   *)
(* lookup overwrites.                                                      *)
ResolveDnsShared(c, ip) ==
    LET addr     == raw_addr[c]
        resolved == [ip |-> ip, port |-> addr.port, parts |-> IF ip \in Ipv6 THEN 4 ELSE 2]
        last     == CHOOSE d \in Connections :
                        status[d] = "resolving" /\ (d # c \/ \A e \in Connections \ {c} : status[e] # "resolving")
    IN  /\ status[c] = "resolving"
        /\ addr.host \in DOMAIN Answers /\ ip \in Answers[addr.host]
        /\ resolved_addr' = [resolved_addr EXCEPT ![c] = resolved]
        /\ dns_cache' = Store(raw_addr[last].host, ip)
        /\ status' = [status EXCEPT ![c] = Outcome(resolved)]
        /\ UNCHANGED <<asked, given, raw_addr>>

(* resolve_dns after its await, and on into create_sender.                 *)
ResolveDns(c, ip) ==
    LET addr     == raw_addr[c]
        resolved == [ip |-> ip, port |-> addr.port, parts |-> IF ip \in Ipv6 THEN 4 ELSE 2]
    IN  /\ status[c] = "resolving"
        /\ addr.host \in DOMAIN Answers /\ ip \in Answers[addr.host]
        /\ resolved_addr' = [resolved_addr EXCEPT ![c] = resolved]
        /\ dns_cache' = Store(addr.host, ip)
        /\ status' = [status EXCEPT ![c] = Outcome(resolved)]
        /\ UNCHANGED <<asked, given, raw_addr>>

ResolveDnsFails(c) ==
    /\ status[c] = "resolving"
    /\ status' = [status EXCEPT ![c] = "closed"]
    /\ UNCHANGED <<asked, given, raw_addr, resolved_addr, dns_cache>>

(* Mutation of CreateSender: the test of sender_created is inverted.       *)
CreateSenderSkipped(c) == status[c] = "scheduled" /\ UNCHANGED vars

(* create_sender in a task of its own, after a hit.                        *)
CreateSender(c) ==
    /\ status[c] = "scheduled"
    /\ status' = [status EXCEPT ![c] = Outcome(resolved_addr[c])]
    /\ UNCHANGED <<asked, given, raw_addr, resolved_addr, dns_cache>>

(* The connection attempt ends.                                            *)
SenderCreated(c) ==
    /\ status[c] = "connecting"
    /\ status' \in {[status EXCEPT ![c] = s] : s \in {"connected", "unconnected"}}
    /\ UNCHANGED <<asked, given, raw_addr, resolved_addr, dns_cache>>

Lookup(c) ==
    \/ \E ip \in UNION {Answers[n] : n \in DOMAIN Answers} : ResolveDns(c, ip)
    \/ ResolveDnsFails(c)

Server(c) ==
    \/ FirstMessage(c) \/ FirstMessageShort(c) \/ FirstMessageRefused(c)
    \/ Lookup(c) \/ CreateSender(c) \/ SenderCreated(c)

Next ==
    \E c \in Connections :
        \/ \E r \in Requests :
               AskRaises(c, r) \/ AskCut(c, r) \/ \E addr \in Parsed(r) : Ask(c, r, addr)
        \/ Server(c)

Spec == Init /\ [][Next]_vars

(* The network delivers, lookups and connection attempts end some way.     *)
FairSpec == Spec /\ \A c \in Connections : WF_vars(Server(c))

-----------------------------------------------------------------------------
(* Properties.                                                             *)

(* A request that reached the client in one segment, for a host whose      *)
(* characters take one byte each, leads to its own port and to an answer   *)
(* for its own name, whichever other connections filled the cache and when *)
(* (client.py 71-73, server.py 59-78, base.py 96-130).                     *)
Whole(c) == given[c] = [host |-> asked[c].host, port |-> asked[c].port]

ConnectedToAsked ==
    \A c \in Connections :
        /\ status[c] \in {"scheduled", "connecting", "connected"}
        /\ Whole(c) /\ Len(Encode(asked[c].host)) = Len(asked[c].host)
        => /\ resolved_addr[c].port = asked[c].port
           /\ resolved_addr[c].ip \in Answers[asked[c].host]

(* The connections that wait for an answer for this name.                 *)
Resolving(n) == {c \in Connections : status[c] = "resolving" /\ raw_addr[c].host = n}

(* Lookups of one name may overlap, and then the later answer replaces the *)
(* earlier one in the cache.  But once a name is cached and no lookup of it *)
(* is left over, its entry never changes again and nobody looks the name   *)
(* up any more, however many connections name it (base.py 96-113).         *)
CacheSettles ==
    [][\A n \in DOMAIN dns_cache :
          Resolving(n) = {} =>
              /\ n \in DOMAIN dns_cache' /\ dns_cache'[n] = dns_cache[n]
              /\ Resolving(n)' = {}]_vars

(* No request is left half way: it is connected, refused, closed, or its   *)
(* failure was logged.  A client whose first message was refused, or whose *)
(* connection attempt failed, keeps an open connection without a target    *)
(* (http_simple.py 143-149, base.py 126-130).                              *)
Settled == \A c \in Connections : status[c] \in Pending ~> status[c] \notin Pending
=============================================================================
