---------------------------- MODULE SodiumStream ----------------------------
(***************************************************************************)
(* The stream ciphers of Crypto/sodium.py: SodiumCrypto keeps a counter of *)
(* bytes, but libsodium's xor_ic functions start at a block.  update pads  *)
(* the data to the block the counter is in, lets the library work into the *)
(* module's buffer, which all ciphers share and which grows when it must,  *)
(* and cuts the result out of it.                                          *)
(*                                                                         *)
(* The counter of blocks is a natural.  libsodium's has 64 bits, except for *)
(* chacha20-ietf, where the code passes a c_uint (sodium.py 83-89): for    *)
(* that cipher the model is exact up to 2^38 bytes on one connection, where *)
(* the keystream of the code begins again.                                 *)
(*                                                                         *)
(* A byte is <<p, k>>: byte p of the plaintext, numbered from 1, under byte *)
(* k of the keystream; k = 0 when it is in the clear.                      *)
(***************************************************************************)
EXTENDS Naturals, Sequences

CONSTANTS
    BLOCK_SIZE,     \* 64
    InitialSize,    \* buf_size when the library is loaded, 2048
    MaxPlain        \* bound: plaintext bytes

ASSUME SodiumConstants ==
    BLOCK_SIZE \in Nat \ {0} /\ InitialSize \in Nat /\ MaxPlain \in Nat

VARIABLES
    buf,        \* the module's buffer; its length is buf_size
    cipher,     \* the byte counter of the cipher that encrypts
    decipher,   \* the byte counter of the one that decrypts, in this process too
    plain,      \* what was encrypted, all calls together
    wire,       \* what encrypt returned
    read,       \* how much of it decrypt was given
    output      \* what decrypt returned

vars == <<buf, cipher, decipher, plain, wire, read, output>>

Byte == Nat \X Nat

(* The state invariant of the variables' domains.                          *)
TypeOK ==
    /\ buf \in Seq(Byte) /\ Len(buf) >= InitialSize
    /\ cipher \in Nat /\ decipher \in Nat
    /\ plain \in Seq(Byte) /\ wire \in Seq(Byte) /\ output \in Seq(Byte)
    /\ read \in 0..Len(wire)

Zeros(n) == [i \in 1..n |-> <<0, 0>>]

(* load_libsodium: the buffer is created.                                  *)
Init ==
    /\ buf = Zeros(InitialSize)
    /\ cipher = 0 /\ decipher = 0
    /\ plain = <<>> /\ wire = <<>> /\ read = 0 /\ output = <<>>

-----------------------------------------------------------------------------
(* A byte and keystream byte k: the same k twice gives the byte back, two  *)
(* different ones a byte that is nobody's.                                 *)
Xor(byte, k) ==
    CASE byte[2] = 0 -> <<byte[1], k>>
      [] byte[2] = k -> <<byte[1], 0>>
      [] OTHER       -> <<0, 0>>

(* crypto_stream_..._xor_ic: data keyed from the beginning of block ic on, *)
(* written over the front of the buffer.                                   *)
XorIc(buffer, data, ic) ==
    [i \in DOMAIN buffer |->
        IF i <= Len(data) THEN Xor(data[i], ic * BLOCK_SIZE + i) ELSE buffer[i]]

(* Mutation of Padding: the library is trusted to start anywhere.          *)
PaddingNone(counter) == 0

Padding(counter) == counter % BLOCK_SIZE

(* Mutation of Grown: a buffer of its own for every call.                  *)
GrownExact(n) == Zeros(n)

(* The buffer for n bytes: the one there is, or a new one twice as long.   *)
Grown(n) == IF Len(buf) < n THEN Zeros(2 * n) ELSE buf

(* The buffer after update(data) of a cipher at counter.                   *)
Updated(counter, data) ==
    LET padded == Zeros(Padding(counter)) \o data
    IN  XorIc(Grown(Len(padded)), padded, counter \div BLOCK_SIZE)

(* Mutation of CutOut: the padding is not cut off.                         *)
CutOutFront(buffer, counter, len) == SubSeq(buffer, 1, len)

(* What update then returns.                                               *)
CutOut(buffer, counter, len) ==
    SubSeq(buffer, Padding(counter) + 1, Padding(counter) + len)

Encrypt(n) ==
    LET data == [i \in 1..n |-> <<Len(plain) + i, 0>>]
    IN  /\ Len(plain) + n <= MaxPlain
        /\ plain' = plain \o data
        /\ buf' = Updated(cipher, data)
        /\ wire' = wire \o CutOut(buf', cipher, n)
        /\ cipher' = cipher + n
        /\ UNCHANGED <<decipher, read, output>>

Decrypt(n) ==
    /\ n \in 1..(Len(wire) - read)
    /\ read' = read + n
    /\ buf' = Updated(decipher, SubSeq(wire, read + 1, read + n))
    /\ output' = output \o CutOut(buf', decipher, n)
    /\ decipher' = decipher + n
    /\ UNCHANGED <<cipher, plain, wire>>

Next == \E n \in 1..MaxPlain : Encrypt(n) \/ Decrypt(n)

Spec == Init /\ [][Next]_vars

-----------------------------------------------------------------------------
(* Properties.                                                             *)

(* No byte of the keystream is used twice and none is skipped, whatever    *)
(* the lengths of the pieces: byte i is keyed with i, although every call  *)
(* starts at a block and works in a buffer others have used (sodium.py     *)
(* 208-226).                                                               *)
KeyedOnce == \A i \in DOMAIN wire : wire[i] = <<i, i>>

(* Decrypting in pieces cut elsewhere returns the plaintext in order.      *)
Stream   == INSTANCE Fifo WITH sent <- plain, got <- output
IsStream == Stream!Spec
=============================================================================
