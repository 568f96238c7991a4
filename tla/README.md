# aioss, specified in TLA+

aioss is a shadowsocks-like pair of proxies on asyncio. A *client* on the user's
machine accepts SOCKS5 or HTTP proxy connections from local programs; a *server*
elsewhere opens the connections the local programs asked for; between the two
everything is encrypted and may be dressed up as HTTP. This directory holds TLA+
models of that code, the TLC configurations that check them on small instances,
and theorems about them with proofs that TLAPS checks.

Paths are relative to the repository; `base.py` stands for `src/base.py`.

    tlc -workers 2 -config client_http.cfg MCClientProtocol.tla     # one run
    tlapm ClientProtocolProofs.tla                                  # the proofs of a module

PROJECT.json lists the components, the runs, the lines of code each definition
stands for, the mutations that show that each property can fail, the hazards and
the theorems.

## 1. The system

### Components

| Component | State | Operations | Modelled in |
|---|---|---|---|
| `TcpProtocol`, `SenderProtocol` (base.py) | accepted transport, outgoing transport ("sender"), two queues, two tasks, lookup progress | connection made / lost / eof, start_send twice, handle_dns, resolve_dns, create_sender, data paths | TcpProtocol |
| `ClientProtocol` (client.py) | inbound and outbound protocol objects, `outbound_send_residual_data` | first segment, negotiation, relaying both ways | ClientProtocol |
| `ServerProtocol` (server.py) | inbound protocol's stage | HTTP request, address, relaying both ways | ServerProtocol |
| `Protocol` (protocol.py) | the protocol object chosen | check, dispatch | ClientProtocol |
| `Socks5`, `HttpProxy` (Protocol/) | stage, the address asked for | handshake, request, replies | ClientProtocol, Destination |
| `HttpSimple`, `Plain` (Protocol/) | stage | request and response, wrapping | ClientProtocol, ServerProtocol, Tunnel |
| `UdpProtocol`, `UdpSenderProtocol` and subclasses | one address, one queue, one sender, flags, for all peers of a port | datagrams both ways, lookups, endpoints made, failing and lost | UdpRelay |
| `DnsCache` (cache.py) and lookups | names known, for all connections | hit, miss, answer | Destination, TcpProtocol, UdpRelay |
| `Cryptor` (cryptor.py) | salt sent?, cipher, decipher | encrypt, decrypt | Cryptor |
| AEAD chunk format (Crypto/aead.py) | nonce, `_chunk` | chunks, reassembly | Aead, Cryptor |
| AEAD implementations (openssl.py, sodium.py, mbedtls.py) | nonce, context | seal, open, clean | Aead, Cryptor |
| libsodium stream ciphers (sodium.py) | byte counter; one buffer for the process | update | SodiumStream |
| Config (config.py) | the assembled options | get_config of the client | Config (partly) |
| OpenSSL and mbedTLS stream ciphers, rc4-md5, table, hkdf, util, common, start scripts, http_post, https, manager, setup | see section 7 | | not modelled |

### How they interact

Everything in one process runs on one event loop. A transport calls
`connection_made`, `data_received`, `eof_received`, `connection_lost` on its
protocol object; these run to their end without a break. `TcpProtocol` starts
tasks: `start_send`, which awaits an item of `to_local_queue` and writes all
items there are to the accepted transport; `resolve_dns`, which awaits the loop's
`getaddrinfo`; `create_sender`, which awaits `create_connection` and so gives
birth to a `SenderProtocol` with its own `start_send` on `to_sender_queue`. The
two protocols of a connection share the queues and the `Cryptor`; they never call
each other except that the sender's `data_received` calls back into
`TcpProtocol.data_from_sender` unless the accepted transport is closing.

    local program -> [inbound protocol] -> encrypt -> [outbound protocol]
       -> to_sender_queue -> server ... decrypt -> to_sender_queue -> target

On the client, the inbound protocol is SOCKS5 or HTTP proxy, the outbound one
`plain` or `http_simple`; on the server, the inbound one is `http_simple` and the
outbound one `plain`.

### What is hard

*Order across queues and tasks.* A message is encrypted first and only then does
the outbound protocol decide whether it is sent, wrapped into the HTTP request
or held back in a list until the server has answered. The remote cipher is a
stream: one message lost, repeated or overtaken and everything after it is
garbage. Answers of the negotiation and relayed data come from two callbacks and
share a queue. Items are queued before the task that sends them exists.

*Negotiation against an adversary called TCP.* Each handler takes a segment for a
message. The stages of Socks5, HttpProxy and HttpSimple are advanced before the
work they stand for is done, so exceptions leave them half-way; replies to the
program and payload go through the same method, told apart by the stage alone.

*Failure.* Either connection may end while a lookup, a connection attempt or a
queue is pending. Neither end tells the other. Exceptions in a handler close the
connection on some event loops and are merely logged on others.

*Ciphers.* AEAD chunks are found again in segments of any length; nonces are
counted with a carry, and OpenSSL's is held one step away from the others';
libsodium works in blocks although calls end anywhere, in a buffer shared by all
connections.

*One object for many.* A UDP port has one protocol object, hence one reply
address, one queue and one destination for every peer. Its endpoints compete for
the queue, and any of them can fail in the middle of it. One cache serves all
connections and ports of a process.

*The same address in four shapes.* Text of a request, bytes with a length,
host and port on the server, the tuple that a lookup or the cache gives: each
conversion has its own limits and its own idea of what it measures.

### What makes each component correct

| Component | Correct when |
|---|---|
| TcpProtocol | what is queued is sent in order and sent at all; a closing connection takes nothing up any more |
| ClientProtocol | cipher units leave in the order of their encryption and none is missing (unless the request cannot be built, and then nothing leaves); the first is the address; behind http_simple only the request leaves before the response; the program sees its answers before payload |
| ServerProtocol | the target gets the client's stream without the address and nothing else; the client gets the HTTP response once and first; there is no lookup for what was refused; nothing is lost, to a target or otherwise, before there is an address |
| Tunnel | each direction is a FIFO, and delivers everything if nothing fails |
| Destination | a connection goes to what it asked for, whatever others put into the cache; a cached name is looked up no more; every request is settled |
| Cryptor, Aead | output is an initial part of the plaintext under any segmentation, also after a refused block; nothing is held back; different libraries agree on nonces; no nonce repeats |
| SodiumStream | keystream byte *i* is used for byte *i* |
| UdpRelay | a datagram is forwarded once, in order, to the target it names, and waits for ever only if something failed |
| Config | an option given is the option used |

## 2. The modules

| Module | Models | Extends / uses |
|---|---|---|
| TcpProtocol | state and steps common to client and server: queues, tasks, callbacks | |
| ClientProtocol | the client proxy, both directions | extends TcpProtocol |
| ServerProtocol | the server proxy, both directions | extends TcpProtocol |
| Fifo | abstract: `got` is always an initial part of `sent` | |
| Tunnel | a client and a server, the network between, both ends | INSTANCE of ClientProtocol, ServerProtocol, Fifo |
| Destination | from the address asked for to the one connected to, several connections over one cache | |
| Aead | the chunk format: cutting, sealing, reassembly as functions; the cipher object of each library | |
| Cryptor | one direction of an encrypted connection | extends Aead, INSTANCE Fifo |
| SodiumStream | counter, padding and shared buffer | INSTANCE Fifo |
| UdpRelay | a UDP port and its sender endpoints | |
| Config | the client's get_config | |
| TcpProtocolProofs | lemmas on units, sequences of them and the steps of the base class, for the next two | extends TcpProtocol |
| ClientProtocolProofs, ServerProtocolProofs | theorems about the two sides | extend the module named and TcpProtocolProofs |
| CryptorProofs, SodiumStreamProofs, UdpRelayProofs, DestinationProofs | theorems about these components | extend the module named |
| TunnelProofs | theorems about the two sides and the network together | extends Tunnel, INSTANCE of ClientProtocolProofs and ServerProtocolProofs |

`MC*` modules are the instances TLC checks: they extend a module, and the .cfg of a
run gives its constants values (MCUdpRelay and MCDestination add model values; the latter
also gives the encoding, the answers of the lookups and the requests). All bounds are in the guards of the modules themselves. Definitions introduced by
"Mutation of X" are X with one plausible slip; no specification uses them, they
show which properties notice.

### How state and steps correspond to the code

A step is what the event loop runs without a break: a callback, or a task from
one `await` to the next. So `Socks5Connect` is one action although the code
passes through three stages, sends the success reply, creates the first data,
encrypts it and puts it in a queue: all of that happens in one
`data_received`. `start_send` is one action, too: once awake its inner loop
writes everything queued, without another await that could suspend it. The
choice of what a segment holds is an existential over the kinds of segments the
handlers tell apart; a segment the code ignores (a SOCKS5 object in stage 5 or 7)
is a stuttering step.

| Variable (TcpProtocol, ClientProtocol) | Code |
|---|---|
| `transport`, `sender` | the two transports: open, `is_closing()`, after `connection_lost` |
| `task`, `sender_task` | the two `start_send` tasks, until cancelled |
| `dns` | how far `handle_dns` / `resolve_dns` / `create_sender` got |
| `to_sender_queue`, `to_local_queue` | the queues |
| `at_sender`, `at_local` | history: what was written to each socket |
| `encrypted` | history: what went through the encryptor, in plaintext |
| `deciphered`, `garbled` | position of the decryptor; has it been fed anything out of place? |
| `proto`, `stage` | `inbound_protocol.protocol` and its stage |
| `out_stage`, `residual` | stage of the outbound protocol, `outbound_send_residual_data` |

Stages are the numbers in the code: 4, 5, 6, 7 for a server role, 1, 2 for a
client role, 0 for a connection that relays.

**Data** are units `[tag, n]`: an address, payload, a cipher unit with its number
in the stream, an HTTP head that carries cipher unit *n*, an answer. The cipher
of TcpProtocol, ClientProtocol, ServerProtocol and Tunnel is anything whose unit
*k* deciphers only after 1 .. *k*-1; a unit out of place gives garbage ever
after or, with an AEAD cipher, an exception (`DecryptFails`). Ciphers in CFB
mode recover after some bytes of garbage; for the properties here garbage is
garbage. Whether the real ciphers implement that abstraction is what Cryptor
and SodiumStream are about. They work on single bytes.

Destination sees no data but addresses. A host is a sequence of characters,
`Encoding` gives the bytes of each; a byte counts to `Base` instead of 256, so
lengths and ports overflow within reach. `status` is how far a connection has
come, from the request on the client (`given`, what it read) over the first
message (`raw_addr`, what the server read) to the lookup (`resolved_addr`) and
the connection. A first message of fewer than 13 bytes is taken for no request
(http_simple.py 143-149): `Least` is that number, `Overhead` what encryption adds
to the message, which is nothing with the table cipher; `FirstMessageShort` leaves the connection open
(`refused`). `parts` is the number of items in the resolved tuple: a fresh
IPv6 answer has four, with which `create_connection` raises; one from the cache
has two.

In UdpRelay an endpoint is `sending` while its `start_send` runs, `silent` when
that has ended with an exception, and `lost` after `connection_lost`. A failing
send reaches it by a detour: `sendto` calls `error_received`, which calls its
parent's without the argument, and the TypeError comes out of `sendto` in
`start_send`. The same method of the port, or of an endpoint that was reading,
raises into the event loop, before it changes anything: those are no steps.
So `SenderLost` is reached only by a fatal error of the endpoint's transport; the error and
the callback that follows it are one step, and what is sent in between counts as lost by the network.

The block counter of SodiumStream is a natural. The code passes a `c_uint` for
chacha20-ietf (sodium.py 83-89) and 64 bits for the others: for that cipher the
model, and the theorems, are exact up to 2^38 bytes on one connection.

**A request that cannot be built.** When `protocol_param` (or, if that is empty, the
server's address) has a `#`, `stage1_send_requests` adds bytes to a str
(http_simple.py 110-117), and raises. The first message is encrypted by then and the
stage is 2. `HashParam` says whether the configuration is of that kind;
`RequestRaises` is what happens in it, `MessagesSent` what happens otherwise. A
constant of the client, it is one of Tunnel, too.

**A request that brings no address.** `handle_inbound_recv` queues the response before anything
is decrypted (base.py 155-161), so what goes wrong afterwards goes wrong for a client
that was answered. `RequestUndecipherable`: decrypting raises. `RequestBadAddress`: what was
decrypted is no address, and the connection is closed. `RequestEmpty`: nothing comes out,
because the request carries only the salt, or a chunk that goes on in the next segment;
then server.py 34 skips the address for good, and the connection relays, in stage 0, to
a queue that nobody empties. In Tunnel only `RequestAccepted` and `RequestRefused` occur: both sides
have the same method and password, and the client puts its whole first message into the
request line, so a request that is complete holds the address.

**CloseOnError.** `data_received` raising is fatal for the transport under
uvloop and asyncio since 3.7, and only logged by older asyncio; README.md asks
for 3.5 and later. So it is a constant: TRUE in the runs, either in the
theorems. With FALSE, `FirstIsAddress` does not hold: an HTTP `CONNECT` to a port
or host that `create_first_data` cannot pack is answered with 200 and leaves the
object in stage 0 before the exception, and what the program sends next is
relayed as the first message. Tunnel has it TRUE for both sides. Cryptor always lets calls go on after an
exception, which includes a loop that makes none.

## 3. The runs

| Run | Module | Asks | Distinct states |
|---|---|---|---|
| client_http | ClientProtocol | client behind http_simple, all failures | 20 238 |
| client_hash | ClientProtocol | the client whose request cannot be built, on a loop that keeps the connection | 2 352 |
| server | ServerProtocol | server from request to relaying, all failures | 1 700 |
| tunnel_clean | Tunnel | both ends, nothing fails: does everything arrive? | 17 082 |
| tunnel_faults | Tunnel | everything cut and joined, everything fails: is what arrives an initial part of what was sent? | 2 662 824 |
| tunnel_coalesced | Tunnel | is the downward direction a FIFO under every segmentation? *No* | |
| aead_stream | Cryptor | chunk stream under every segmentation, between different libraries, the salt cut or whole, a byte damaged | 120 724 |
| sodium_stream | SodiumStream | pieces on both sides of block and buffer size | 748 |
| udp_relay | UdpRelay | two peers, two targets, endpoints that fail | 665 320 |
| udp_two_targets | UdpRelay | is the destination kept? *No* | |
| config_shell | Config | are options of the command line used? *No* | |
| destination | Destination | two connections on one cache: does each get where it asked to? | 22 340 |

What they show:

*client_http.* `WireInv` (whose first part is `WireOrder`): the
cipher units written, queued and held back are together exactly what was
encrypted, in order, as long as the sender lives; unless the request cannot be
built, and then nothing leaves at all. `HeldUntilAnswered`: before
the HTTP response only the request leaves. `FirstIsAddress`: what was encrypted
first is the address, if the loop closes connections whose handler raised.
`LocalStream`: the program sees at most two negotiation answers, then payload in
order. `InboundReady`: when data comes back the inbound protocol is in the stage
that relays. `ClosedIsQuiet`: no handler takes anything up once the accepted
transport closes. `Drained`: queued items get written unless there is no
connection.

*client_hash.* The same with `HashParam`: the first unit is lost, so the wire must stay
empty. A unit in its place, even as part of a well-formed request, would be deciphered out of step.

*server.* `TargetStream`: the target gets units 2, 3, ... and, while its connection lives,
all of them. `RespondedFirst`: the response, then the cipher stream. `TargetNeedsAddress`: no
lookup without a decrypted address. `KeptUntilAddress`: while an open connection has no
address, whatever it decrypted is in the queue and nothing was sent to anyone; in particular
an address that came out and was not looked up has closed the connection.
`ClosedIsQuiet`, `Drained`.

*tunnel_\*.* Client and server are taken whole, by INSTANCE; `UpIsFifo` says that
the composition implements `Fifo` under the refinement mapping `UpSent`, `UpGot`
(what was encrypted beyond the address; what was written to the target), however
segments are cut and whatever fails. Downwards that is false (`DownIsFifo`,
tunnel_coalesced); `DownUntilMisread` says exactly when it stops being true: every
step is one of Fifo until the client's first segment was something else than the
HTTP response alone. `InStep` relates the decryptors to the encryptors.
`UpArrives`, `DownArrives` say that everything arrives if nothing fails.

*aead_stream, sodium_stream.* Against the same `Fifo`, over bytes. `Prompt` and
`Waiting` are about the buffer between segments: nothing complete is ever left in
it. When the first segment is shorter than the salt another key is derived and
nothing ever comes out. `SameNonce` says that the next block to be opened was
sealed under the nonce the decipher is at, whichever library either side uses;
`NonceOnce` that a nonce comes back only when all were used. `IsStream` includes
a damaged byte: the block is refused, and nothing after it opens, even if the
connection goes on.

*udp_relay.* `ForwardedOnce`: however many endpoints share the queue, and
whichever of them die in the middle of it, each datagram is taken once and in
order, and the only one lost to an endpoint is the one it died on.
`EndpointsAskedFor`. `Drained`: a datagram waits for ever only if a lookup, the
making of an endpoint or a send has failed and no endpoint is left.

*destination.* `ConnectedToAsked`: a request that came whole, for a host of
characters with one byte each, leads to its own port and an answer for its own
name, whatever other connections put into the cache and when. The two
restrictions are where the code does lead elsewhere: a cut `Host:` line or port
is taken for a whole one, and the length of a name is counted in characters and
read in bytes. `CacheSettles`: lookups of one name overlap and replace each other's
answer, but once the name is cached and none of them is left over, its entry
never changes and no connection looks the name up again. `Settled`: every request that
left the client is connected, refused, closed or its failure logged.

### Disagreements

* **tunnel_coalesced**: http_simple drops the first segment from the server
  whatever it holds (http_simple.py:56). Joined with relayed bytes, or cut in two,
  the stream is out of step.
* **udp_two_targets**: the first target resolved gets the datagrams of all.
* **config_shell**: `nargs=1` gives lists, on which int() and encode() raise and
  of which str() makes "['...']"; `fast_open` is read from a key nobody sets.

Three more defects are steps of the models, and the properties are worded so as to hold
across them; no run is spent on showing them:

* *A unit is lost on the client.* With a `#` in `protocol_param` the first message is encrypted and then
  dropped by an exception (http_simple.py:117; `RequestRaises`), while both
  connections live if the loop keeps them, although base.py:132 promises "data to sender".
* *A client is left waiting.* When no address comes out of the first message the server
  says "password or method is wrong!" (server.py:77) and closes; when nothing at all comes
  out (`RequestEmpty`) it has answered 200, looks nothing up and leaves the connection
  open. So does an exception (`RequestUndecipherable`) on a loop that keeps the connection.
* *SOCKS5 serves host names only.* base.py:29 lists all three address types, but the port is
  unpacked as `'!HH'` from two bytes (Socks5.py:164, 175), which always raises
  (`Socks5RequestFails`, `AskRaises`).

### Bounds, and why they are enough

* `MaxUp`, `MaxDown` (client, server, tunnel): units each way. Three units
  upwards are an address, one message held back and one relayed after the
  response; the order properties can only break between neighbours. With two
  downwards one can be read, queued or written while the other is not.
* `Openings`: tunnel_clean has all three ways to open a connection. The composed
  state space doubles with each, and after the first segment they differ only in
  the answers in the local queue, which client_http examines; tunnel_faults leaves
  SOCKS5 out.
* `Mask = 2`, `SizeLen = 2`, `TagLen = 1`: chunks of at most 2 bytes, so that 5
  bytes make plaintext shorter than, as long as, longer than and over twice as
  long as a chunk. `NonceBase = 2`, `NonceLen = 4`: carries over one, two and three digits, and more
  nonces than the at most 10 blocks need (section 4 says what happens with fewer).
  `IvLen = 2` allows a salt that is whole, cut, or joined with what follows.
  Two libraries: in all that is modelled, mbedTLS does as libsodium does.
* `BLOCK_SIZE = 3`, `InitialSize = 2`, 7 bytes: pieces that begin and end at, before
  and after a block's edge, and a buffer that must grow more than once.
* UDP: two peers, two targets, three datagrams: enough for two lookups that
  overlap, both orders of their ends, and a datagram after either; one endpoint
  can die on the second of three and another finish.
* `Base = 10`: ports to 99 and hosts to 9 characters, with requests on both sides
  of both limits; `Least = 5`, which only the empty host of a cut request falls short of; one character of two bytes; names with two answers, one of them
  IPv6. Two connections are every overlap of two lookups and a hit after a miss.

Each action of each specification fires in some run.

### Fairness

`TcpFairness` is weak fairness of the tasks and of `connection_lost`: the loop
runs a task that is ready and a callback it has scheduled; a lookup ends with an
answer or an exception, and so does a connection attempt (the operating system
has a timeout). There is no fairness on data arriving, on either connection
ending, or on lookups ending *well*. Tunnel adds that the network delivers what
is under way while the reader reads; its liveness is checked where nothing may
fail, so "ends" is "ends well". UdpRelay has the same for its own
tasks: `start_send` of a live endpoint runs when there is something to send, and
its send succeeds or fails. Destination has it for each connection's steps on the
server, and for the first message to be delivered.

## 4. What is proved

All safety properties that the passing runs check, those of section 3, of ClientProtocol, ServerProtocol,
Tunnel, Cryptor, SodiumStream, UdpRelay and Destination are theorems, for every value
of the constants the modules assume anything of. TLC checks the same formulas on the
instances of section 3.

| Module | Theorem | Statement |
|---|---|---|
| ClientProtocolProofs | TypeCorrect | `Spec => []TypeOK` |
| | WireInvariant, WireInOrder | `Spec => []WireInv`, `Spec => []WireOrder` |
| | HeldBack | `Spec => []HeldUntilAnswered` |
| | InboundIsReady | `Spec => []InboundReady` |
| | AddressComesFirst | `Spec => []FirstIsAddress`, if `CloseOnError = TRUE` |
| | LocalStreamCorrect | `Spec => []LocalStream` |
| | QuietOnceClosed | `Spec => ClosedIsQuiet` |
| ServerProtocolProofs | TypeCorrect | `Spec => []TypeOK` |
| | TargetStreamCorrect | `Spec => []TargetStream` |
| | ResponseComesFirst | `Spec => []RespondedFirst` |
| | NoTargetWithoutAddress | `Spec => []TargetNeedsAddress` |
| | NothingLostBeforeAddress | `Spec => []KeptUntilAddress` |
| | QuietOnceClosed | `Spec => ClosedIsQuiet` |
| CryptorProofs | Invariance | `Spec => []StreamInv` |
| | TypeCorrect, WaitsForMore | `Spec => []TypeOK`, `Spec => []Waiting` |
| | NoneRaises | `Spec => []NeverRaises` |
| | SameNonces, NoncesOnce | `Spec => []SameNonce`, `Spec => []NonceOnce` |
| | AllReturned | `Spec => []Prompt` |
| | StreamUntilRepeat | `Spec /\ []Unrepeated => IsStream`, the refinement of Fifo |
| | Streams | `Spec => IsStream`, if `2 * MaxPlain <= Cardinality(Nonce)` |
| SodiumStreamProofs | TypeCorrect, KeyedInOrder | `Spec => []TypeOK`, `Spec => []KeyedOnce` |
| | StreamIsFifo | `Spec => IsStream`, the refinement of Fifo |
| UdpRelayProofs | TypeCorrect | `Spec => []TypeOK` |
| | EachForwardedOnce | `Spec => []ForwardedOnce` |
| | NoForeignEndpoint | `Spec => []EndpointsAskedFor` |
| DestinationProofs | CacheSettled | `Spec => CacheSettles` |
| | TypeCorrect | `Spec => []TypeOK` |
| | ConnectedToAskedHost | `Spec => []ConnectedToAsked` |
| TunnelProofs | TunnelInvariant | `Spec => []TunnelInv` |
| | DecryptorsInStep | `Spec => []InStep` |
| | UpStreamIsFifo | `Spec => UpIsFifo`, the refinement of Fifo |
| | DownReadInvariant | `Spec => []DownRead` |
| | DownStreamUntilMisread | `Spec => DownUntilMisread`: each step maps to one of Fifo, as long as the response was not misread |

The theorems speak of `Spec`; the `FairSpec` of a run implies it.

### What they assume

The named assumptions on the constants, which say no more than that bounds are
naturals, switches are Booleans and so on, and which TLC evaluates on each run.
Two theorems have a hypothesis besides. `FirstIsAddress` is proved for `CloseOnError =
TRUE`. Without it the property is false, as section 2 explains; all other theorems
of the client hold on either loop. `Streams` is proved for a stream of no more blocks
than there are nonces: 2^96 or 2^192 in the code. Without it `IsStream` is false: a decipher
that was refused a damaged block waits under its nonce, and when that nonce seals another block
on the same key, it opens, in the wrong place. (TLC shows this with `NonceLen = 2`.)
All other theorems about Cryptor hold when nonces come round, too, and
`StreamUntilRepeat` states the refinement for as long as no nonce was used twice by
the time a byte is damaged.

Of the encoding of host names the assumption says what is true of UTF-8 character by
character: each takes a byte or more, and two of them differ in a byte that both
have, so none is the beginning of another.

### The arguments

**The client's wire.** `WireOrder` alone is not inductive. Facts about the
life of a connection must be added, and `WireInv` does: the sender exists only
after `create_sender` has run, which runs once (otherwise a second connection
would start in the middle of the stream); its task does not run before it (else
queued units would be taken and dropped); `residual` is empty until the request
was made (else `HandleClientSend`, which wraps the first message, would overtake
it); and where the request cannot be built (`Unrequested`) the stage never is 0, so that
nothing is released: the server has seen nothing to answer. Of the server's side
the step that reads a response therefore assumes that something was sent, which is the guard of
`DataFromSender` in ClientProtocol and a conjunct of `DownInv` in Tunnel. The argument is then about one sequence, `at_sender \o to_sender_queue \o
Held`: an encryption appends to its end exactly what it appends to `encrypted`;
sending moves its cut; the response moves the other one; nothing else touches it.
Unit *i* of the sequence carries number *i*.

**The client's stages.** `ReadyInv` ties the inbound stage to what was done: anything
queued for or written to the server means that the handshake is over. `HeldInv`
adds to `HeldUntilAnswered` that nothing is on its way to the server before the
request was made (`out_stage = 1`). `AddressInv` says that an *open* connection in stage 0 has encrypted its
address: the handler that failed to has closed it, which is where the hypothesis on
the loop comes in. `LocalInv` gives, for each stage, the answers already in the
local queue, since the step that adds one must know which the program has had.

**The server.** The eight conjuncts of `ServerInv` need one another. `TargetStream`
needs to know that the decryptor is in step whenever there is a target
(`DecryptorInStep`, `TargetNeedsAddress`) and that the sender is made once;
`RespondedFirst` that nothing was encrypted before stage 0. Stage 0 alone says nothing about the
decryptor, since an empty or undecipherable request leads there, too: the invariant
goes by the lookup (`dns # "idle"`), and `KeptUntilAddress` covers the connections that
have none. A lemma on the way (`DecryptFailsInv`) shows that an authenticated decryptor, on a server
whose client continues its stream, raises only where no address came out. The eighth conjunct, `NoneAhead`, says that
neither side got more of a stream than there was; the composition needs it.

**Quiet ends.** `ClosedIsQuiet` needs no invariant on either side: each action that
encrypts, decrypts or appends has the guard `transport = "open"`, and the proof goes
through all of them.

**The libsodium streams.** `StreamInv` says of each side that its counter is the length
of what it has processed and that byte *i* was combined with keystream byte *i*. The
lemmas `XorKeys`, `ClearAndKeyed` and `FollowOn` do the arithmetic once: counter *c*
is block `c \div BLOCK_SIZE` with `c % BLOCK_SIZE` bytes of padding, and the buffer,
whoever left what in it, holds the padded piece. Neither `KeyedOnce` nor the
refinement can be shown without the counters.

**The chunk stream.** `StreamInv` says that there is a sequence *w* of bytes, what
encrypt returned, which the wire is but for the damaged byte. `Sending`: *w* is the
salt and then the bytes of the blocks in order; blocks alternate between headers and
payloads (`Chunked`), go on in the plaintext where the last one ended, and each is
sealed under the nonce after that of the one before (`Chained`). `DecryptInv`: with the
sender's key the decipher is `Aligned`, that is, what it kept begins with the
beginning of block *n* + 1, its nonce is the one of that block, `mlen` is the length of
it if it is a payload, and it has returned the plaintext of the first *n* blocks; or it has
`Fallen`: it was refused a block, stays at that nonce, and all it will read is behind the
damaged byte, so no block it could open begins there. `Short` says that it keeps less
than it waits for, without which a call could end with a whole block unread, and
`Prompt` would be false.

A call of decrypt takes an unknown number of chunks. `Looped` is the loop: what one
chunk preserves a call preserves, and it ends with nothing left of the segment or an
exception, since each chunk takes at least a byte. `ChunkGoes` is the step for one
chunk, by `BlockTaken`: if a whole block is there it is the next one, and opens, unless
the damage is in it. What the recursive functions compute is proved by induction as
for Destination (`Induction`, `InductionTo`, `Iterated`). `NonceOnce` needs no
arithmetic on 96 bits. The nonces from one use of a nonce to the next are a set with
the successor of each; `FillsNext` and `ZeroNext` show digit by digit that such a set has
every nonce: once the first *k* - 1 digits can take any values, they can be brought to
their last, and the next increment moves digit *k* on (`RollsOver`).

**UDP.** `TypeInv` strengthens `TypeOK` by two implications, without which
create_sender could connect to None, and a reply could go to None, and `TypeOK`
would not be preserved: a scheduled create_sender has a resolved address, and
whatever was queued has set `addr`. So the branch of create_sender that closes the
port because `resolved_addr` is None (base.py 407) is dead. `OnceInv` adds to
`ForwardedOnce` that an endpoint a datagram failed on sends no more. Both outcomes
of start_send are one in the proof (`Takes`): the first *k* datagrams move from the
head of one sequence to the end of the other. `AskedInv` follows a target from the
datagram through lookup, `resolved_addr` and the endpoints being made, since any of
them is where the next step reads it.

**Destination.** `CacheSettles` is about single steps: only `ResolveDns` writes to the
cache, under the name its own connection was resolving, and `HandleDns` starts no
lookup of a name the cache has (`StepsSettle`, `OthersSettle`). `AskedInv`
states for each connection that the server read the client's address, and for the
cache, which all share, that it gives a name only answers of its own; the lemma
`FirstMessageRead` is the round trip of an address through `create_first_data` and
`get_addr_from_first_data`, and shows that even where the length is wrong the
server reads *some* address and a port of two bytes. What it needs of whole strings
is proved by induction over their length: a string takes at least as many bytes as it
has characters (`EncodesToBytes`), and no two strings are written alike (`Injective`),
since the first character they differ in would show in a byte. The induction is the
lemma `Induction`, which states it for *sets* of naturals and so needs no operator as
a parameter; it follows from `NatLessThanWellFounded` and `WFMin`: a set that is not
everything lacks a least number. The steps of a connection
leave the others alone (`OnlyOf`), so each action is proved for its own connection.

**The two sides together.** The lemmas about a side's handlers hold for any segment,
not only for those its own module enumerates, so TunnelProofs takes them over by
INSTANCE, and shows that each step of Tunnel is a step of one side on a segment of
the other's stream. What it adds is about the network. `KindInv` says what the
client's units look like on the wire: unit 1 in the HTTP request, the others as
cipher units, and no more than were encrypted. `UpInv` then has a case for each
stage of the server: before the request nothing was read; in stage 0 the address is looked up and
exactly as much was decrypted as was read, so the next segment continues the decryptor's stream;
after a refusal the decryptor is either untouched, while only a piece of unit 1 has
come, or garbled, because that unit is gone. `DownInv` needs of the server that its
units carry numbers up to `Len(s_encrypted)` (`NoneAhead`), and no more, since a
segment decrypts only if it continues the stream; and that a client which sent nothing
is not answered. For the refinement, `UpIsPrefix`
shows that what the target has is the first `Len(s_at_sender)` units of what the
local program asked for: if it has any, there was an address, so the server is in
stage 0 and has decrypted no more than was read. Every step then makes the one
longer, or the other, or neither.

The direction down is a Fifo only as long as the client takes the response, and
nothing else, for the response, so `DownRead` has a part that holds always and a part
that holds `~misread`. Always: the server's first unit on the wire is the response
and unit *n* + 1 is cipher unit *n* (`AnswerOnWire`), the client's inbound stage fits
what it has queued (`ReadyInv`), and before the response nothing was read. While not
misread: one unit more was read than decrypted, so what comes next continues the
stream and nothing garbles it (`LocalInv`), and what the local program got is one of
the answers its own proxy may give, followed by data units 1 to *d* (`LocalGot`).
`PayloadIs` then computes `DownGot` as the first *d* items of what the target sent,
and `PayloadGrows` shows that *d* cannot shrink while the program only gets more: its
answers hold no data unit. `DownFrame` says how any step changes the two ends.

The inductive invariants were checked by TLC on the runs' instances before they
were proved (`TunnelInv` on the 2 662 824 states of tunnel_faults, `DownRead` on the
5 780 304 of the same instance with all three openings, that of Cryptor, with *w*
computed from the blocks, on the 120 724 of aead_stream).

## 5. Only model-checked

* Liveness under fairness (`Drained`, `Settled`, `UpArrives`, `DownArrives`): TLAPS
  does not do ENABLED.
* The disagreements of section 3, which are counterexamples.

## 6. The plan

Done first is what everything goes through: the TCP relay, its client, the wire
order and its proof; then the server, the composition, the ciphers below it, UDP
beside it, and the way of an address from request to connection; then the proofs
of section 4. What is left, in this order:

1. *Config*: the server's file and its users.
2. *Table*: the table cipher as a permutation, over a small alphabet.

## 7. Not modelled, and why

* **OpenSSL and mbedTLS stream ciphers, rc4-md5**: each call is handed to a
  library that keeps the position.
* **table, hkdf, key derivation**: functions without state (the table is planned).
* **util, loading of libraries, logging, Windows registry**: I/O.
* **http_post**: its first message always raises (`to_bytes` is not imported, a
  port has no `find`); **https, manager, setup** are empty files.
* **plain as inbound protocol of the server**: it would raise on each segment
  (its method's name is misspelt, `hanle_server_recv`), and the server is always
  modelled behind http_simple.
* **IPv4 and IPv6 requests** in SOCKS5 always raise: in ClientProtocol they are
  `Socks5RequestFails`, in Destination `AskRaises`. BIND is never answered:
  `Socks5Refused`.
* **The bytes of UDP datagrams**: whether one can be forwarded is a choice
  (`DatagramReceived`, `DatagramRefused`). One to a host name that carries payload
  never can (client.py 117). The one-shot ciphers they go through have no state;
  mbedTLS's for AEAD are those of its stream ciphers (mbedtls.py 196), which the
  other libraries would not open.
* **The server's configuration** (config.py 36-75, 130-169), whose default method
  is in no table of ciphers.
* **Backpressure**: queues are unbounded in the code and in the models up to their
  bounds; memory is not modelled.
* **Where UDP replies go** (base.py 354, server.py 99) is in the model
  (`replies`), but nothing in the repository promises anything about it, so no
  property does.
