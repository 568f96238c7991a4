------------------------------- MODULE Cryptor -------------------------------
(***************************************************************************)
(* One direction of an encrypted connection: the Cryptor (cryptor.py) of   *)
(* the side that encrypts, over an authenticated cipher, the byte stream   *)
(* between, and the Cryptor of the side that decrypts.  TCP may deliver    *)
(* the bytes in segments of any length; one byte may be damaged, and calls *)
(* go on after an exception, as they do on an event loop that logs it.     *)
(*                                                                         *)
(* Plaintext bytes are numbered 1, 2, ...  The salt (cipher_iv) goes ahead *)
(* of the first ciphertext, as the bytes <<0, 1>> .. <<0, IvLen>>.         *)
(***************************************************************************)
EXTENDS Aead

CONSTANTS
    IvLen,       \* METHOD_INFO_IV_LEN of the method
    MaxPlain     \* bound: plaintext bytes

ASSUME CryptorConstants ==
    IvLen \in Nat \ {0} /\ MaxPlain \in Nat

VARIABLES
    plain,       \* what encrypt was given, all calls together
    iv_sent,
    cipher,      \* the cipher object
    blocks,      \* history: every block sealed, in order
    wire,        \* every byte encrypt returned
    read,        \* how many of them decrypt was given
    decipher,    \* the decipher: its _chunk and its cipher object
    keyed,       \* "none": no decipher yet; else did it get the sender's salt?
    output,      \* what decrypt returned, all calls together
    raised,      \* has decrypt raised?
    damaged      \* was a byte on the wire damaged?

vars == <<plain, iv_sent, cipher, blocks, wire, read, decipher, keyed, output, raised, damaged>>

(* The state invariant of the variables' domains.                          *)
TypeOK ==
    /\ plain \in Seq(Nat) /\ output \in Seq(Nat)
    /\ iv_sent \in BOOLEAN /\ raised \in BOOLEAN /\ damaged \in BOOLEAN
    /\ cipher \in Cipher
    /\ wire \in Seq(Byte)
    /\ read \in 0..Len(wire)
    /\ decipher \in [mlen : 0..Mask, data : Seq(Byte), cipher : Cipher]
    /\ keyed \in {"none", "right", "wrong"}

Init ==
    /\ plain = <<>> /\ output = <<>> /\ wire = <<>> /\ blocks = <<>>
    /\ iv_sent = FALSE /\ raised = FALSE /\ damaged = FALSE
    /\ cipher \in {New(b) : b \in Backends}
    /\ read = 0
    /\ decipher \in {[mlen |-> 0, data |-> <<>>, cipher |-> New(b)] : b \in Backends}
    /\ keyed = "none"

Iv == [i \in 1..IvLen |-> <<0, i>>]

(* All the bytes of new blocks, numbered on from the old ones.             *)
Joined(new) ==
    LET upto[i \in 0..Len(new)] ==
            IF i = 0 THEN <<>>
            ELSE upto[i - 1] \o BlockBytes(Len(blocks) + i, new[i])
    IN  upto[Len(new)]

(* Mutation of Encrypt: iv_sent is not looked at.                          *)
EncryptSaltAgain(n) ==
    LET data == [i \in 1..n |-> Len(plain) + i]
        done == AeadEncrypt(cipher, data)
    IN  /\ Len(plain) + n <= MaxPlain
        /\ plain' = plain \o data
        /\ cipher' = done.cipher
        /\ blocks' = blocks \o done.blocks
        /\ iv_sent' = TRUE
        /\ wire' = wire \o Iv \o Joined(done.blocks)
        /\ UNCHANGED <<read, decipher, keyed, output, raised, damaged>>

(* encrypt of n more bytes; the salt goes out once, with the first.        *)
Encrypt(n) ==
    LET data == [i \in 1..n |-> Len(plain) + i]
        done == AeadEncrypt(cipher, data)
    IN  /\ Len(plain) + n <= MaxPlain
        /\ plain' = plain \o data
        /\ cipher' = done.cipher
        /\ blocks' = blocks \o done.blocks
        /\ iv_sent' = TRUE
        /\ wire' = wire \o (IF iv_sent THEN <<>> ELSE Iv) \o Joined(done.blocks)
        /\ UNCHANGED <<read, decipher, keyed, output, raised, damaged>>

(* Running the decipher on bytes.  With a salt that is not the sender's it *)
(* has another key, under which nothing opens.                             *)
Run(key, bytes) ==
    LET start == [mlen |-> decipher.mlen, data |-> decipher.data,
                  cipher |-> decipher.cipher, left |-> bytes, out |-> <<>>, ok |-> TRUE]
        end   == AeadDecrypt(start, IF key = "right" THEN blocks ELSE <<>>)
    IN  /\ decipher' = [mlen |-> end.mlen, data |-> end.data, cipher |-> end.cipher]
        /\ raised' = (raised \/ ~end.ok)
        /\ output' = IF end.ok THEN output \o end.out ELSE output

(* decrypt of a segment of k bytes.  The first call takes its first IvLen  *)
(* bytes, or as many as there are, for the salt.                           *)
Decrypt(k) ==
    LET buf  == SubSeq(wire, read + 1, read + k)
        rest == Drop(buf, IvLen)
        key  == IF k >= IvLen THEN "right" ELSE "wrong"
    IN  /\ k \in 1..(Len(wire) - read)
        /\ read' = read + k
        /\ \/ /\ keyed = "none"
              /\ keyed' = key
              /\ IF rest = <<>> THEN UNCHANGED <<decipher, output, raised>>
                                ELSE Run(key, rest)
           \/ /\ keyed # "none"
              /\ Run(keyed, buf)
              /\ UNCHANGED keyed
        /\ UNCHANGED <<plain, iv_sent, cipher, blocks, wire, damaged>>

(* A byte of the stream, behind the salt, does not arrive as it was sent.  *)
Damage(i) ==
    /\ ~damaged
    /\ i \in (read + 1)..Len(wire) /\ i > IvLen
    /\ damaged' = TRUE
    /\ wire' = [wire EXCEPT ![i] = <<0, 0>>]
    /\ UNCHANGED <<plain, iv_sent, cipher, blocks, read, decipher, keyed, output, raised>>

Next ==
    \/ \E i \in 1..Len(wire) : Damage(i)
    \/ \E n \in 1..MaxPlain : Encrypt(n)
    \/ \E k \in 1..Len(wire) : Decrypt(k)

Spec == Init /\ [][Next]_vars

-----------------------------------------------------------------------------
(* Properties.                                                             *)

(* However the stream is cut, the decrypting side gets the plaintext from  *)
(* its beginning, in order and without a gap; also when a byte is damaged  *)
(* and the connection goes on after the exception (aead.py 248-322).       *)
Stream   == INSTANCE Fifo WITH sent <- plain, got <- output
IsStream == Stream!Spec

(* Nothing is held back: when every byte was read, every byte of plaintext *)
(* was returned and the decipher waits for a header with an empty buffer   *)
(* (aead.py 248-294: both early returns keep what they were given).        *)
Prompt ==
    read = Len(wire) /\ keyed # "wrong" /\ ~damaged =>
        output = plain /\ decipher.mlen = 0 /\ decipher.data = <<>>

(* What waits in _chunk['data'] is always less than the header or the      *)
(* block it is waiting for, so the next segment makes progress.            *)
Waiting ==
    Len(decipher.data) <
        IF decipher.mlen > 0 THEN decipher.mlen + TagLen ELSE HeaderLen

(* No call of decrypt raises on what encrypt produced, at any segmentation  *)
(* that leaves the salt whole (cryptor.py 145-152).                        *)
NeverRaises == keyed # "wrong" /\ ~damaged => ~raised

(* Whatever two libraries the sides use, what the decipher has not used yet *)
(* begins with the block that was sealed under the nonce it uses now       *)
(* (openssl.py 180-199, 259, 276, sodium.py 285, 308, mbedtls.py 332, 359).*)
SameNonce ==
    LET next == read - Len(decipher.data) + 1
    IN  keyed = "right" /\ ~damaged /\ ~raised /\ next <= Len(wire) =>
            /\ wire[next][2] = 1
            /\ blocks[wire[next][1]].nonce = InUse(decipher.cipher)

(* No nonce seals two blocks under one key before all were used: a header  *)
(* and its payload use one each (aead.py 103-122, 164-182, 193-214).       *)
NonceOnce ==
    \A i, j \in DOMAIN blocks :
        i < j /\ blocks[i].nonce = blocks[j].nonce =>
            Nonce \subseteq {blocks[k].nonce : k \in i..(j - 1)}
=============================================================================
